---------------------------- MODULE DenseIteration ----------------------------
(***************************************************************************)
(* A client that walks over a dense_hashtable with an iterator and erases  *)
(* from it on the way, the one change to a table that leaves iterators     *)
(* valid.  Between two walks it inserts and erases, so that the next one   *)
(* meets deleted buckets, collisions and rehashed tables.                  *)
(*                                                                         *)
(* An iterator is the number of the bucket it points to; end() is the      *)
(* number of buckets.                                                      *)
(***************************************************************************)
EXTENDS DenseHashtable

CONSTANTS
  Items,    \* the objects the client inserts
  EmptyKey, DeletedKey,
  Sizes,    \* what it asks of resize
  NONE      \* the iterator, when no walk is on

ASSUME ItemsAssumption ==
  /\ Items \subseteq [key : Key \ {EmptyKey, DeletedKey}, val : Val]
  /\ EmptyKey \in Key /\ DeletedKey \in Key \ {EmptyKey}
  /\ Sizes \subseteq 0 .. SizeMax
  /\ NONE \notin 0 .. SizeMax

\* size_type is not too small for a table of MaxSize objects: see DenseHashMap.
ASSUME RoomAssumption ==
  \E n \in BucketCounts : MaxSize < (n * HT_OCCUPANCY_PCT) \div 100

VARIABLES
  ht,     \* the table
  pos,    \* the iterator
  start,  \* the keys in the table when the walk began
  gone,   \* those the client has erased since
  seen    \* seen[k] is how many times the walk came by key k

vars == <<ht, pos, start, gone, seen>>

ItemKeys == {obj.key : obj \in Items}

-----------------------------------------------------------------------------

\* Mutant: only empty buckets are passed.
advance_past_empty(t, i) ==
  Min({j \in Buckets(t) : j >= i /\ ~test_empty(t, j)} \cup {t.num_buckets})

\* advance_past_empty_and_deleted
advance(t, i) == Min({j \in LiveBuckets(t) : j >= i} \cup {t.num_buckets})

begin(t)    == advance(t, 0)
end(t)      == t.num_buckets
after(t, i) == advance(t, i + 1)

equal_range(t, k) ==
  LET range(i) == IF i = ILLEGAL_BUCKET THEN <<end(t), end(t)>> ELSE <<i, after(t, i)>>
  IN  range(find(t, k))

-----------------------------------------------------------------------------

Init ==
  /\ ht = set_deleted_key(set_empty_key(new_table(0), EmptyKey), DeletedKey)
  /\ pos = NONE /\ start = {} /\ gone = {}
  /\ seen = [k \in ItemKeys |-> 0]

\* Between walks: everything that invalidates iterators.
Insert(obj) ==
  /\ pos = NONE
  /\ ht' = insert(ht, obj).ht
  /\ UNCHANGED <<pos, start, gone, seen>>

Resize(n) ==
  /\ pos = NONE
  /\ ht' = resize(ht, n).ht
  /\ UNCHANGED <<pos, start, gone, seen>>

Begin ==
  /\ pos = NONE
  /\ pos' = begin(ht)
  /\ start' = Keys(ht) /\ gone' = {}
  /\ seen' = [k \in ItemKeys |-> 0]
  /\ UNCHANGED ht

Visit == /\ pos \notin {NONE, end(ht)}
         /\ seen' = [seen EXCEPT ![ht.table[pos].key] = @ + 1]

\* ++it
Advance ==
  /\ Visit
  /\ pos' = after(ht, pos)
  /\ UNCHANGED <<ht, start, gone>>

\* erase(it++)
EraseAndAdvance ==
  /\ Visit
  /\ pos' = after(ht, pos)
  /\ ht' = erase_at(ht, pos)
  /\ gone' = gone \cup {ht.table[pos].key}
  /\ UNCHANGED start

\* erase(k), with no walk on or of another object than the iterator's.
EraseKey(k) ==
  /\ pos \notin {NONE, end(ht)} => ht.table[pos].key # k
  /\ ht' = erase(ht, k).ht
  /\ gone' = IF pos = NONE THEN gone ELSE gone \cup {k}
  /\ UNCHANGED <<pos, start, seen>>

\* The same with the iterators of equal_range(k).
EraseEqualRange(k) ==
  LET range == equal_range(ht, k)
  IN  /\ pos \notin {NONE, end(ht)} => ht.table[pos].key # k
      /\ ht' = erase_range(ht, range[1], range[2])
      /\ gone' = IF pos = NONE THEN gone ELSE gone \cup {k}
      /\ UNCHANGED <<pos, start, seen>>

\* erase(it, end()): what the walk has not come by yet.
EraseRest ==
  /\ pos # NONE
  /\ ht' = erase_range(ht, pos, end(ht))
  /\ gone' = gone \cup {k \in start : seen[k] = 0}
  /\ pos' = end(ht)
  /\ UNCHANGED <<start, seen>>

End ==
  /\ pos = end(ht)
  /\ pos' = NONE
  /\ start' = {} /\ gone' = {}
  /\ seen' = [k \in ItemKeys |-> 0]
  /\ UNCHANGED ht

Next ==
  \/ \E obj \in Items : Insert(obj)
  \/ \E n \in Sizes : Resize(n)
  \/ \E k \in ItemKeys : EraseKey(k) \/ EraseEqualRange(k)
  \/ Begin
  \/ Advance
  \/ EraseAndAdvance
  \/ EraseRest
  \/ End

Spec == Init /\ [][Next]_vars

-----------------------------------------------------------------------------
(* Properties.                                                             *)

\* During a walk the iterator points to a live object that the walk has not
\* come by yet, or is end(), whatever else the client erases: "This allows you
\* to iterate over a hashtable, and call erase(), without invalidating the
\* iterator" (sparsehash/dense_hash_map 68).
IteratorStaysValid ==
  pos # NONE =>
    \/ pos = end(ht)
    \/ pos \in LiveBuckets(ht) /\ seen[ht.table[pos].key] = 0

\* A walk comes by no object twice and misses none: at its end each object
\* there at its beginning was seen once, or erased before its turn.
WalkIsComplete ==
  pos = end(ht) =>
    \A k \in ItemKeys :
      /\ seen[k] <= 1
      /\ seen[k] = 1 => k \in start
      /\ k \in start \ gone => seen[k] = 1

\* The client erased what it meant to and nothing else, through a key, an
\* iterator, equal_range or a range to the end: the other objects are still
\* there, each once.
OnlyErasedAreGone ==
  pos # NONE =>
    /\ Keys(ht) = start \ gone
    /\ size(ht) = Cardinality(start \ gone)

=============================================================================
