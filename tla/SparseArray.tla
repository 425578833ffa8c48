----------------------------- MODULE SparseArray -----------------------------
(***************************************************************************)
(* What a sparsetable promises, with no groups in sight: each object is an *)
(* array, of which every element is assigned or not, and a call touches    *)
(* the elements it names and no other.                                     *)
(*                                                                         *)
(* SparseTableClient implements this specification.                        *)
(***************************************************************************)
EXTENDS Integers, FiniteSets, FiniteSetsExt

CONSTANTS
  Obj,
  Sizes,       \* the sizes asked for
  Val,
  DefaultVal,  \* what mutating_get assigns
  UNASSIGNED   \* no value

VARIABLE arr  \* arr[o] is a function from locations

TypeOK == \A o \in Obj : \E n \in Sizes : arr[o] \in [0 .. n - 1 -> Val \cup {UNASSIGNED}]

Unassigned(n) == [i \in 0 .. n - 1 |-> UNASSIGNED]

Init == arr = [o \in Obj |-> Unassigned(0)]

Set(o, i, v) == arr' = [arr EXCEPT ![o][i] = v]

Touch(o, i) == arr' = [arr EXCEPT ![o][i] = IF @ = UNASSIGNED THEN DefaultVal ELSE @]

Erase(o, first, last) ==
  arr' = [arr EXCEPT ![o] = [i \in DOMAIN @ |-> IF first <= i /\ i < last
                                                THEN UNASSIGNED ELSE @[i]]]

Resize(o, n) ==
  arr' = [arr EXCEPT ![o] = [i \in 0 .. n - 1 |-> IF i \in DOMAIN @ THEN @[i] ELSE UNASSIGNED]]

Construct(o, n) == arr' = [arr EXCEPT ![o] = Unassigned(n)]

Swap(o, p) == arr' = [arr EXCEPT ![o] = arr[p], ![p] = arr[o]]

Copy(o, p) == arr' = [arr EXCEPT ![o] = arr[p]]

Next ==
  \E o \in Obj :
    \/ \E i \in DOMAIN arr[o], v \in Val : Set(o, i, v)
    \/ \E i \in DOMAIN arr[o] : Touch(o, i)
    \/ \E i \in DOMAIN arr[o] : \E j \in i + 1 .. Max({i} \cup DOMAIN arr[o]) + 1 : Erase(o, i, j)
    \/ \E n \in Sizes : Resize(o, n) \/ Construct(o, n)
    \/ Construct(o, Cardinality(DOMAIN arr[o]))
    \/ \E p \in Obj : Swap(o, p) \/ Copy(o, p)

Spec == Init /\ [][Next]_arr

=============================================================================
