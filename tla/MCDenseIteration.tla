--------------------------- MODULE MCDenseIteration ---------------------------
(***************************************************************************)
(* A small instance of DenseIteration for TLC: four keys, two of which     *)
(* collide, in tables of 4 to 16 buckets.                                  *)
(***************************************************************************)
EXTENDS DenseIteration, TLC

CONSTANTS k1, k2, k3, k4, E, D, v

MCKey   == {k1, k2, k3, k4, E, D}
MCHash  == k1 :> 0 @@ k2 :> 0 @@ k3 :> 1 @@ k4 :> 7 @@ E :> 0 @@ D :> 1
MCItems == {[key |-> k, val |-> v] : k \in {k1, k2, k3, k4}}

=============================================================================
