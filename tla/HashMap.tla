------------------------------- MODULE HashMap -------------------------------
(***************************************************************************)
(* What a hash_map promises its client, with no table in sight: each       *)
(* object is a finite map from keys to values, a call changes the maps in  *)
(* one way and answers one thing.  Housekeeping (resizing, the reserved    *)
(* keys, the load factors) is invisible, and a call that needs room may    *)
(* throw length_error: it then leaves the map as it was, except a range    *)
(* insertion, which may have put in a first part of the range.             *)
(*                                                                         *)
(* DenseHashMap and SparseHashMap implement this specification.            *)
(***************************************************************************)
EXTENDS Integers, Sequences

CONSTANTS
  Obj,         \* the map objects of the program
  Key, Val,
  Ranges,      \* the sequences of objects a client inserts in one call
  DefaultVal,  \* the value operator[] gives a new key
  MISSING      \* the value of a key that is not there, none of Val

VARIABLES
  map,  \* map[o][k] is the value of key k in object o
  ret   \* the last call and its answer

vars == <<map, ret>>

TypeOK == map \in [Obj -> [Key -> Val \cup {MISSING}]]

\* Each key of a range that is not there yet gets its first value in the range.
InsertedAll(m, objs) ==
  [k \in Key |->
     LET places == {i \in DOMAIN objs : objs[i].key = k}
     IN  IF m[k] # MISSING \/ places = {}
         THEN m[k]
         ELSE objs[CHOOSE i \in places : \A j \in places : i <= j].val]

Without(m, keys) == [k \in Key |-> IF k \in keys THEN MISSING ELSE m[k]]

-----------------------------------------------------------------------------

Init ==
  /\ map = [o \in Obj |-> [k \in Key |-> MISSING]]
  /\ ret = <<"none">>

Insert(o, obj) ==
  \/ /\ ret' = <<"insert", o, obj.key, "inserted">>
     /\ map[o][obj.key] = MISSING
     /\ map' = [map EXCEPT ![o][obj.key] = obj.val]
  \/ /\ ret' = <<"insert", o, obj.key, "present">>
     /\ map[o][obj.key] # MISSING
     /\ UNCHANGED map
  \/ /\ ret' = <<"insert", o, obj.key, "length_error">>
     /\ UNCHANGED map

InsertRange(o, objs) ==
  \/ /\ ret' = <<"insert_range", o, "ok">>
     /\ map' = [map EXCEPT ![o] = InsertedAll(@, objs)]
  \/ /\ ret' = <<"insert_range", o, "length_error">>
     /\ \E n \in 0 .. Len(objs) :
          map' = [map EXCEPT ![o] = InsertedAll(@, SubSeq(objs, 1, n))]

\* o[k] = v: the answer is the value the reference had before the assignment.
Subscript(o, k, v) ==
  \/ \E old \in Val :
       /\ ret' = <<"subscript", o, k, old>>
       /\ old = (IF map[o][k] = MISSING THEN DefaultVal ELSE map[o][k])
       /\ map' = [map EXCEPT ![o][k] = v]
  \/ /\ ret' = <<"subscript", o, k, "length_error">>
     /\ UNCHANGED map

Erase(o, k) ==
  \/ /\ ret' = <<"erase", o, k, "erased">>
     /\ map[o][k] # MISSING
     /\ map' = [map EXCEPT ![o][k] = MISSING]
  \/ /\ ret' = <<"erase", o, k, "absent">>
     /\ map[o][k] = MISSING
     /\ UNCHANGED map

EraseRange(o, keys) ==
  /\ ret' = <<"erase_range", o, keys, "ok">>
  /\ map' = [map EXCEPT ![o] = Without(@, keys)]

Clear(o) ==
  /\ ret' = <<"clear", o>>
  /\ map' = [map EXCEPT ![o] = Without(@, Key)]

Swap(o, p) ==
  /\ ret' = <<"swap", o, p>>
  /\ map' = [map EXCEPT ![o] = map[p], ![p] = map[o]]

Copy(o, p) ==
  /\ ret' = <<"copy", o, p>>
  /\ map' = [map EXCEPT ![o] = map[p]]

\* Maps are equal when they hold the same items, whatever their capacities,
\* their histories and their reserved keys.
Equal(o, p) ==
  /\ ret' = <<"equal", o, p, map[o] = map[p]>>
  /\ UNCHANGED map

Housekeep(o) ==
  /\ ret' \in {<<"housekeep", o, "ok">>, <<"resize", o, "kept">>,
               <<"resize", o, "resized">>, <<"resize", o, "length_error">>}
  /\ UNCHANGED map

Next ==
  \E o \in Obj :
    \/ \E k \in Key : Erase(o, k)
    \/ \E k \in Key, v \in Val : Insert(o, [key |-> k, val |-> v]) \/ Subscript(o, k, v)
    \/ \E objs \in Ranges : InsertRange(o, objs)
    \/ \E keys \in SUBSET Key : EraseRange(o, keys)
    \/ \E p \in Obj : Swap(o, p) \/ Copy(o, p) \/ Equal(o, p)
    \/ Clear(o)
    \/ Housekeep(o)

Spec == Init /\ [][Next]_vars

=============================================================================
