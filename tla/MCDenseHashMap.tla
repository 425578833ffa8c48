---------------------------- MODULE MCDenseHashMap ----------------------------
(***************************************************************************)
(* Small instances of DenseHashMap for TLC.  The keys k1 and k2 collide,   *)
(* k3 hashes into their probe sequence and k4 wraps around the end of a    *)
(* table.  The default key is an ordinary one, and so may a deleted key    *)
(* be.  Hash values are fixed, so the keys are not symmetric.              *)
(***************************************************************************)
EXTENDS DenseHashMap, TLC

CONSTANTS k1, k2, k3, k4, E, D, v0, v1, v2

MCKey  == {k1, k2, k3, k4, E, D}
MCVal  == {v0, v1, v2}
MCHash == k1 :> 0 @@ k2 :> 0 @@ k3 :> 1 @@ k4 :> 7 @@ E :> 0 @@ D :> 1

Item(k, v) == [key |-> k, val |-> v]

FourItems    == {Item(k1, v1), Item(k2, v1), Item(k3, v1), Item(k4, v1)}
ThreeItems   == {Item(k1, v1), Item(k2, v1), Item(k3, v1)}
TwoItems     == {Item(k1, v1), Item(k2, v2)}
NoSequence   == {}
SomeRanges   == {<<>>, <<Item(k1, v1), Item(k2, v1), Item(k1, v2)>>,
                 <<Item(k4, v1), Item(k3, v1), Item(k2, v2), Item(k1, v1)>>}

NoFactors    == {}
SomeFactors  == {<<0, 50>>, <<45, 80>>}
FullFactors  == {<<20, 100>>}

=============================================================================
