---------------------------- MODULE SparseHashMap ----------------------------
(***************************************************************************)
(* A program that uses sparse_hash_map objects: each action is one call of *)
(* the class's interface (sparsehash/sparse_hash_map), whose work is done  *)
(* by the table of module SparseHashtable.  The guards are what the class  *)
(* asks of its client.                                                     *)
(*                                                                         *)
(* Three calls, those that only compact a table, are taken object by       *)
(* object: the table is moved into another one while its memory is freed   *)
(* behind the destructive iterator.  Variable moving is that move, and the *)
(* call it belongs to goes on when it has ended.  In the other calls, a    *)
(* move is all of its steps at once.                                       *)
(***************************************************************************)
EXTENDS SparseHashtable

CONSTANTS
  Obj,          \* the objects of the program
  Items,        \* the items it inserts
  Ranges,       \* the sequences of items it inserts in one call
  DeletedKeys,  \* the keys it passes to set_deleted_key
  Expected,     \* ... to the constructor: how many items to expect
  Requests,     \* ... to resize
  Factors,      \* ... to set_resizing_parameters: <<shrink, grow>>
  MISSING,      \* no value, for the abstract map
  NONE          \* no object is being moved

ASSUME ClientAssumption ==
  /\ Items \subseteq [key : Key, val : Val]
  /\ Ranges \subseteq Seq([key : Key, val : Val])
  /\ DeletedKeys \subseteq Key
  /\ Expected \subseteq 0 .. SizeMax /\ Requests \subseteq 0 .. SizeMax
  /\ Factors \subseteq Percent \X Percent
  /\ MISSING \notin Val /\ NONE \notin Obj

\* Under no load factor in use is size_type too small for a table of MaxSize
\* objects.
ASSUME RoomAssumption ==
  \A grow \in {HT_OCCUPANCY_PCT} \cup {f[2] : f \in Factors} :
    \E n \in BucketCounts : MaxSize < (n * grow) \div 100

VARIABLES
  ht,      \* ht[o] is the table of object o
  moving,  \* the move under way
  ret      \* the last call and its answer, see HashMap

vars == <<ht, moving, ret>>

NoMove == [obj |-> NONE]

Init ==
  /\ ht = [o \in Obj |-> new_table(0)]
  /\ moving = NoMove
  /\ ret = <<"none">>

\* No call is under way.
Idle == moving = NoMove /\ UNCHANGED moving

\* "Inserting the deleted key" and its like.
Ordinary(t, k) == t.settings.use_deleted => k # t.delkey

Keys(t) == {object(t, i).key : i \in LiveBuckets(t)}

-----------------------------------------------------------------------------
(* Calls that change what is in a map.                                     *)

\* Object o is left as the outcome says, and the answer is what it says.  A
\* call whose search fails gets no answer: an assertion fails.
Answer(o, call, r) ==
  /\ Idle
  /\ r.res # "table_full"
  /\ ht' = [ht EXCEPT ![o] = r.ht]
  /\ ret' = Append(call, r.res)

Insert(o, obj) ==
  /\ Ordinary(ht[o], obj.key)
  /\ Answer(o, <<"insert", o, obj.key>>, insert(ht[o], obj))

InsertRange(o, objs) ==
  /\ \A i \in DOMAIN objs : Ordinary(ht[o], objs[i].key)
  /\ Answer(o, <<"insert_range", o>>, insert_range(ht[o], objs))

\* The assignment in o[k] = v, through the reference operator[] returned.
AssignThrough(r, k, v) ==
  LET pos == find_position(r.ht, k).first
  IN  Outcome([r.ht EXCEPT !.table = T!set(@, pos, [key |-> k, val |-> v])],
              object(r.ht, pos).val)

Subscript(o, k, v) ==
  LET through(r) == IF r.res \in {"inserted", "present"} THEN AssignThrough(r, k, v) ELSE r
  IN  /\ Ordinary(ht[o], k)
      /\ Answer(o, <<"subscript", o, k>>, through(find_or_insert(ht[o], k)))

Erase(o, k) ==
  /\ ht[o].settings.use_deleted /\ Ordinary(ht[o], k)
  /\ Answer(o, <<"erase", o, k>>, erase(ht[o], k))

\* erase(it): it points to a live object, or to one erased through another
\* iterator.
EraseAt(o, pos) ==
  /\ ht[o].settings.use_deleted
  /\ pos \in LiveBuckets(ht[o]) \/ test_deleted(ht[o], pos)
  /\ Answer(o, <<"erase_range", o, IF pos \in LiveBuckets(ht[o])
                                   THEN {object(ht[o], pos).key} ELSE {}>>,
            Outcome(erase_at(ht[o], pos), "ok"))

\* erase(f, l): f and l point to live objects, or l is end().
EraseRange(o, f, l) ==
  /\ ht[o].settings.use_deleted
  /\ f \in LiveBuckets(ht[o]) /\ f < l
  /\ l \in LiveBuckets(ht[o]) \cup {bucket_count(ht[o])}
  /\ Answer(o, <<"erase_range", o, {object(ht[o], i).key :
                                      i \in {j \in LiveBuckets(ht[o]) : f <= j /\ j < l}}>>,
            Outcome(erase_range(ht[o], f, l), "ok"))

Clear(o) ==
  /\ Idle
  /\ ht' = [ht EXCEPT ![o] = clear(@)]
  /\ ret' = <<"clear", o>>

\* o is destroyed and constructed again, told to expect n items.
Construct(o, n) ==
  /\ Idle
  /\ n > 0 => ~min_buckets_overflows(new_table(0).settings, n, 0)
  /\ ht' = [ht EXCEPT ![o] = new_table(n)]
  /\ ret' = <<"clear", o>>

-----------------------------------------------------------------------------
(* Calls that deal with two objects.                                       *)

Swap(o, p) ==
  /\ Idle
  /\ ht' = [ht EXCEPT ![o] = swapped(ht[p]), ![p] = swapped(ht[o])]
  /\ ret' = <<"swap", o, p>>

\* operator=; an object assigned to itself is left alone.
Assign(o, p) ==
  /\ Idle
  /\ ht' = [ht EXCEPT ![o] = IF o = p THEN @ ELSE assign(@, ht[p])]
  /\ ret' = <<"copy", o, p>>

\* o is destroyed and constructed again, as a copy of p.
CopyConstruct(o, p) ==
  /\ Idle
  /\ o # p
  /\ ht' = [ht EXCEPT ![o] = copy_of(ht[p], HT_DEFAULT_STARTING_BUCKETS)]
  /\ ret' = <<"copy", o, p>>

\* operator==.
Equal(o, p) ==
  /\ Idle
  /\ ret' = <<"equal", o, p, tables_equal(ht[o], ht[p])>>
  /\ UNCHANGED ht

-----------------------------------------------------------------------------
(* Housekeeping in one step.                                               *)

Resize(o, n) ==
  /\ n > 0
  /\ Answer(o, <<"resize", o>>, resize(ht[o], n))

SetResizingParameters(o, shrink, grow) ==
  Answer(o, <<"housekeep", o>>,
         Outcome(change_resizing_parameters(ht[o], shrink, grow), "ok"))

MaxLoadFactor(o, grow) ==
  SetResizingParameters(o, ht[o].settings.shrink_factor, grow)

MinLoadFactor(o, shrink) ==
  SetResizingParameters(o, shrink, ht[o].settings.enlarge_factor)

-----------------------------------------------------------------------------
(* Housekeeping object by object: a call moves the table into one of n     *)
(* buckets if it has to, and then does the rest of its work.               *)

\* What is left to do in a call after the move.
Rest(call, t) ==
  CASE call[1] = "set_deleted_key"   -> use_deleted_key(t, call[2])
    [] call[1] = "clear_deleted_key" -> use_no_deleted_key(t)
    [] call[1] = "maybe_shrink"      -> considered(t)

Compact(o, has_to, n, call) ==
  /\ moving = NoMove
  /\ IF has_to
     THEN LET l == moving_to(ht[o], n)
          IN  /\ moving' = [obj |-> o, call |-> call, to |-> l.to, it |-> l.it]
              /\ ht' = [ht EXCEPT ![o] = l.from]
              /\ UNCHANGED ret
     ELSE /\ ht' = [ht EXCEPT ![o] = Rest(call, @)]
          /\ ret' = <<"housekeep", o, "ok">>
          /\ UNCHANGED moving

\* squash_deleted, then the key.  No object may have it.
SetDeletedKey(o, k) ==
  /\ k \notin Keys(ht[o])
  /\ Compact(o, ht[o].num_deleted > 0, bucket_count(ht[o]), <<"set_deleted_key", k>>)

ClearDeletedKey(o) ==
  Compact(o, ht[o].num_deleted > 0, bucket_count(ht[o]), <<"clear_deleted_key">>)

\* resize(0) is maybe_shrink.
ResizeToZero(o) ==
  Compact(o, shrinks(ht[o]), shrunk_size(ht[o]), <<"maybe_shrink">>)

TheMove == Loop(ht[moving.obj], moving.to, moving.it)

\* One object is put in the new table, and a group freed if it was its last.
MoveObject ==
  /\ moving # NoMove /\ ~loop_ended(TheMove)
  /\ LET l == move_step(TheMove)
     IN  /\ ht' = [ht EXCEPT ![moving.obj] = l.from]
         /\ moving' = [moving EXCEPT !.to = l.to, !.it = l.it]
         /\ UNCHANGED ret

\* The tables are swapped and the emptied one is gone.
EndMove ==
  /\ moving # NoMove /\ loop_ended(TheMove)
  /\ ht' = [ht EXCEPT ![moving.obj] = Rest(moving.call, move_end(TheMove))]
  /\ ret' = <<"housekeep", moving.obj, "ok">>
  /\ moving' = NoMove

Next ==
  \/ MoveObject
  \/ EndMove
  \/ \E o \in Obj :
       \/ \E obj \in Items : Insert(o, obj)
       \/ \E obj \in Items : Subscript(o, obj.key, obj.val)
       \/ \E objs \in Ranges : InsertRange(o, objs)
       \/ \E k \in Key : Erase(o, k)
       \/ \E pos \in Buckets(ht[o]) : EraseAt(o, pos)
       \/ \E f, l \in 0 .. bucket_count(ht[o]) : EraseRange(o, f, l)
       \/ Clear(o)
       \/ \E p \in Obj : Swap(o, p)
       \/ \E p \in Obj : Assign(o, p)
       \/ \E p \in Obj : CopyConstruct(o, p)
       \/ \E p \in Obj : Equal(o, p)
       \/ \E n \in Expected : Construct(o, n)
       \/ \E k \in DeletedKeys : SetDeletedKey(o, k)
       \/ ClearDeletedKey(o)
       \/ ResizeToZero(o)
       \/ \E n \in Requests : Resize(o, n)
       \/ \E f \in Factors : SetResizingParameters(o, f[1], f[2])
       \/ \E f \in Factors : MinLoadFactor(o, f[1])
       \/ \E f \in Factors : MaxLoadFactor(o, f[2])

\* A call that has begun goes on to its end; the program need not make any.
Fairness == WF_vars(MoveObject) /\ WF_vars(EndMove)

Spec == Init /\ [][Next]_vars /\ Fairness

-----------------------------------------------------------------------------
(* Invariants.                                                             *)

\* The counters count, in every table that is not being emptied: num_buckets
\* of the sparsetable and its groups the assigned elements, num_deleted those
\* that are deleted, which there are only while there is a deleted key; and the
\* thresholds, which every resizing decision reads, are those of the present
\* size and factors.  No key is reserved that an element has otherwise.
CountersExact ==
  \A o \in Obj \ {moving.obj} :
    LET t      == ht[o]
        used   == {i \in Buckets(t) : ~test_empty(t, i)}
        marked == {i \in used : t.settings.use_deleted /\ object(t, i).key = t.delkey}
    IN  /\ num_nonempty(t) = Cardinality(used)
        /\ num_nonempty(t) = T!num_nonempty_of(t.table.groups)
        /\ t.num_deleted = Cardinality(marked)
        /\ bucket_count(t) \in BucketCounts
        /\ thresholds_of(t).settings = [t.settings EXCEPT !.consider_shrink = FALSE]

\* Every lookup of any key, the deleted one too, finds the one object that has
\* it, or nothing, as an iterator and as a bucket; a search for an ordinary key
\* ends; and an iteration from begin meets the live objects, each once, over
\* groups of deleted and of no objects, and reaches end.
LookupsCorrect ==
  \A o \in Obj \ {moving.obj} :
    LET t       == ht[o]
        live    == LiveBuckets(t)
        walk[i \in 0 .. size(t)] == IF i = 0 THEN begin(t) ELSE next(t, walk[i - 1])
        found(k) == IF find(t, k) = end(t) THEN {} ELSE {T!get_pos(t.table, find(t, k))}
    IN  /\ \A k \in Key :
             /\ found(k) = {i \in live : object(t, i).key = k}
             /\ count(t, k) = Cardinality(found(k))
             /\ bucket(t, k) \in Buckets(t)
             /\ equal_range(t, k)[1] = find(t, k)
             /\ found(k) # {} => equal_range(t, k)[2] = next(t, find(t, k))
        /\ walk[size(t)] = end(t)
        /\ {T!get_pos(t.table, walk[i]) : i \in 0 .. size(t) - 1} = live

\* While a table is moved, each group behind the iterator is freed, so at most
\* one group's objects are there twice ("by freeing sparsetable memory as we
\* iterate", sparsehashtable.h 690): those in the iterator's group it has
\* passed.  And the new table has room: the iterator ends before it is full.
MoveFreesBehind ==
  moving # NoMove =>
    LET from == ht[moving.obj]
        to   == moving.to
        keys(t) == {object(t, i).key : i \in LiveBuckets(t)}
        twice == {i \in LiveBuckets(from) : object(from, i).key \in keys(to)}
    IN  /\ \A g \in 1 .. Len(from.table.groups) :
             g < moving.it.row => from.table.groups[g] = T!new_group
        /\ \A i \in twice : T!get_iter(from.table, i).row = moving.it.row
        /\ \A i \in LiveBuckets(from) :
             i \in twice <=> /\ T!get_iter(from.table, i).row = moving.it.row
                             /\ T!get_iter(from.table, i).col < moving.it.col
        /\ size(to) < bucket_count(to)

-----------------------------------------------------------------------------
(* Liveness and refinement.                                                *)

\* A move ends, whatever is in the table that is moved.
MoveEnds == moving # NoMove ~> moving = NoMove

Live(t) == {object(t, i) : i \in LiveBuckets(t)}

\* While it is moved, what is in a map is in one of the two tables.
Contents(o) ==
  LET items == Live(ht[o]) \cup IF o = moving.obj THEN Live(moving.to) ELSE {}
  IN  [k \in Key |-> IF \E x \in items : x.key = k
                     THEN (CHOOSE x \in items : x.key = k).val ELSE MISSING]

Map == INSTANCE HashMap WITH map <- [o \in Obj |-> Contents(o)]

\* Every call changes the maps as a map's call does and answers the same; a
\* move under way changes nothing.
ImplementsHashMap == Map!Spec

=============================================================================
