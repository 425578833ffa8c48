--------------------------- MODULE MCSerialization ---------------------------
(***************************************************************************)
(* A small instance of Serialization for TLC: two keys that collide, two   *)
(* table sizes, of which the larger does not fit in one byte, and no more  *)
(* than MaxObjects objects, deleted ones included, in a table.             *)
(***************************************************************************)
EXTENDS Serialization

CONSTANTS MaxObjects, k1, k2, E, R, v0, v1

MCKey   == {k1, k2, E, R}
MCHash  == [k \in MCKey |-> IF k = R THEN 3 ELSE 2]
MCItems == {[key |-> k1, val |-> v1], [key |-> k2, val |-> v0]}

BoundedNext ==
  /\ Next
  /\ left' = "calls" =>
       (IF kind' = "dense" THEN tab'.num_elements ELSE S!num_nonempty(tab')) <= MaxObjects

BoundedSpec == Init /\ [][BoundedNext]_vars

=============================================================================
