--------------------------- MODULE SparseHashtable ---------------------------
(***************************************************************************)
(* The open-addressing table of internal/sparsehashtable.h, as             *)
(* instantiated by sparse_hash_map: its buckets are the elements of a      *)
(* sparsetable (module SparseTable, here T), so that an empty bucket is an *)
(* unassigned element and there is no empty key.  A deleted bucket is one  *)
(* whose key is the deleted key.  A table is a record, a method an         *)
(* operator from a table to a table or to an outcome.                      *)
(*                                                                         *)
(* Module SparseHashMap is the state machine a client drives with these    *)
(* operators.                                                              *)
(***************************************************************************)
EXTENDS HashtableSettings, Sequences

CONSTANTS
  Key,           \* the values of key_type, the reserved ones included
  DefaultKey,    \* key_type()
  Val,           \* the values of data_type
  DefaultVal,    \* data_type()
  Hash,          \* settings.hash(key), munged
  MaxSize,       \* table.max_size(), what the allocator allows
  GROUP_SIZE,    \* DEFAULT_GROUP_SIZE, 48
  CHAR_BIT, BYTE, SHORT, INT, LONG,
  UNINITIALIZED  \* what an object allocated and never written reads as

ASSUME KeysAssumption ==
  /\ DefaultKey \in Key /\ DefaultVal \in Val
  /\ Hash \in [Key -> Nat]
  /\ MaxSize \in Nat

\* A char and the integers written to a stream hold something.
ASSUME StorageAssumption ==
  /\ GROUP_SIZE \in Nat \ {0} /\ CHAR_BIT \in Nat \ {0}
  /\ BYTE \in Nat \ {0, 1} /\ {SHORT, INT, LONG} \subseteq Nat \ {0}

T == INSTANCE SparseTable WITH default_value <- [key |-> DefaultKey, val |-> DefaultVal]

HT_OCCUPANCY_PCT == 80
HT_EMPTY_PCT     == 32  \* 0.4 * HT_OCCUPANCY_PCT

\* size_type(-1), never the number of a bucket.
ILLEGAL_BUCKET == SizeMax

Outcome(t, res) == [ht |-> t, res |-> res]

bucket_count(t) == t.table.table_size
num_nonempty(t) == t.table.num_buckets
size(t)         == num_nonempty(t) - t.num_deleted
empty(t)        == size(t) = 0

Buckets(t) == T!Locations(t.table)
object(t, i) == T!unsafe_get(t.table, i)

test_empty(t, i) == ~T!test(t.table, i)

\* With num_deleted = 0 no bucket is deleted, whatever key it holds.
test_deleted(t, i) ==
  t.num_deleted > 0 /\ T!test(t.table, i) /\ object(t, i).key = t.delkey

LiveBuckets(t) == {i \in Buckets(t) : ~test_empty(t, i) /\ ~test_deleted(t, i)}

\* The thresholds are those of the present size and load factors.
thresholds_of(t) == [t EXCEPT !.settings = reset_thresholds(@, bucket_count(t))]

-----------------------------------------------------------------------------
(* Iterators: those of the sparsetable, past the deleted buckets.          *)

end(t) == T!nonempty_end(t.table)

test_deleted_at(t, it) == t.num_deleted > 0 /\ T!dereference(t.table, it).key = t.delkey

advance_past_deleted(t, it) ==
  LET skip(at) == IF at # end(t) /\ test_deleted_at(t, at) THEN T!increment(t.table, at) ELSE at
      past[i \in 0 .. t.num_deleted] == IF i = 0 THEN it ELSE skip(past[i - 1])
  IN  past[t.num_deleted]

begin(t) == advance_past_deleted(t, T!nonempty_begin(t.table))

next(t, it) == advance_past_deleted(t, T!increment(t.table, it))

-----------------------------------------------------------------------------
(* Probing.                                                                *)

\* The i-th bucket probed for a key among n: JUMP_ makes the steps 1, 2, 3...
Probe(k, i, n) == (Hash[k] + (i * (i + 1)) \div 2) % n

(***************************************************************************)
(* first is the bucket that holds the key and second the one to insert it  *)
(* in: the first deleted bucket seen, or else the empty one that ended the *)
(* search.  Each is ILLEGAL_BUCKET when the other is not; both are when    *)
(* every bucket was probed to no avail, where the code fails the assertion *)
(* "Hashtable is full".                                                    *)
(***************************************************************************)
\* Mutant: a deleted bucket that once held another key ends the search.
find_position_hasty(t, k) ==
  LET at(i)    == Probe(k, i, bucket_count(t))
      holds(i) == ~test_empty(t, at(i)) /\ object(t, at(i)).key = k
      last     == Min({i \in Buckets(t) : \/ test_empty(t, at(i)) \/ test_deleted(t, at(i))
                                          \/ holds(i)})
  IN  IF holds(last)
      THEN [first |-> at(last), second |-> ILLEGAL_BUCKET]
      ELSE [first |-> ILLEGAL_BUCKET, second |-> at(last)]

holds(t, i, k) == ~test_empty(t, i) /\ ~test_deleted(t, i) /\ object(t, i).key = k

position(t, at, free) ==
  IF test_empty(t, at) THEN [first |-> ILLEGAL_BUCKET, second |-> free]
                       ELSE [first |-> at, second |-> ILLEGAL_BUCKET]

find_position(t, k) ==
  LET at(i) == Probe(k, i, bucket_count(t))
      stops == {i \in Buckets(t) : test_empty(t, at(i)) \/ holds(t, at(i), k)}
      reusable(last) == {i \in 0 .. last : test_deleted(t, at(i))} \cup {last}
      ended(last) == position(t, at(last), at(Min(reusable(last))))
  IN  IF stops = {}
      THEN [first |-> ILLEGAL_BUCKET, second |-> ILLEGAL_BUCKET]
      ELSE ended(Min(stops))

search_fails(p) == p.first = ILLEGAL_BUCKET /\ p.second = ILLEGAL_BUCKET

\* An iterator to the key's object, or end.
find(t, k) ==
  LET p == find_position(t, k)
  IN  IF size(t) = 0 \/ p.first = ILLEGAL_BUCKET THEN end(t)
                                                 ELSE T!get_iter(t.table, p.first)

bucket(t, k) ==
  LET p == find_position(t, k)
  IN  IF p.first = ILLEGAL_BUCKET THEN p.second ELSE p.first

count(t, k) == IF find_position(t, k).first = ILLEGAL_BUCKET THEN 0 ELSE 1

equal_range(t, k) ==
  LET pos == find(t, k)
  IN  IF pos = end(t) THEN <<pos, pos>> ELSE <<pos, next(t, pos)>>

-----------------------------------------------------------------------------
(* Clearing, copying and moving.                                           *)

\* The table keeps its size.
\* Mutant: a table of deleted buckets only passes for a cleared one.
clear_if_live(t) ==
  thresholds_of([t EXCEPT !.table       = IF ~empty(t) THEN T!clear(@) ELSE @,
                          !.num_deleted = 0])

clear(t) ==
  thresholds_of([t EXCEPT !.table       = IF ~empty(t) \/ t.num_deleted # 0
                                          THEN T!clear(@) ELSE @,
                          !.num_deleted = 0])

\* What copy_from and move_from do first: clear, and grow to n if it is more.
cleared_for(t, n) ==
  LET u == clear(t)
  IN  IF n > bucket_count(u)
      THEN thresholds_of([u EXCEPT !.table = T!resize(@, n)])
      ELSE u

\* Put an object in the first empty bucket of its probe sequence, no key compared.
place(tab, obj) ==
  LET at(i) == Probe(obj.key, i, tab.table_size)
  IN  T!set(tab, at(Min({i \in T!Locations(tab) : ~T!test(tab, at(i))})), obj)

(***************************************************************************)
(* The loop of copy_from and move_from, under way: the table it reads, the *)
(* one it fills, and the iterator over the former.  A move's iterator is   *)
(* destructive: no object is removed by itself, but a group is freed when  *)
(* the iterator leaves it.                                                 *)
(***************************************************************************)
Loop(from, to, it) == [from |-> from, to |-> to, it |-> it]

freed(t, it, it2) == [t EXCEPT !.table = T!destroy_rows(@, it.row, it2.row)]

copy_begin(t, from) == Loop(from, t, begin(from))

move_begin(t, from) == Loop(freed(from, T!Iterator(1, 0), begin(from)), t, begin(from))

loop_ended(l) == l.it = end(l.from)

copy_step(l) ==
  Loop(l.from, [l.to EXCEPT !.table = place(@, T!dereference(l.from.table, l.it))],
       next(l.from, l.it))

\* Mutant: the iterator goes round in its group, and what is there is not put
\* in twice.
move_step_circling(l) ==
  LET obj  == T!dereference(l.from.table, l.it)
      size_of_row == l.from.table.groups[l.it.row].num_buckets
  IN  Loop(l.from,
           [l.to EXCEPT !.table = IF find_position(l.to, obj.key).first = ILLEGAL_BUCKET
                                  THEN place(@, obj) ELSE @],
           advance_past_deleted(l.from, T!Iterator(l.it.row, (l.it.col + 1) % size_of_row)))

move_step(l) ==
  LET c == copy_step(l)
  IN  [c EXCEPT !.from = freed(@, l.it, c.it)]

\* All of a loop's steps, one after the other.
run(l, step(_)) ==
  LET upto[i \in 0 .. size(l.from)] == IF i = 0 THEN l ELSE step(upto[i - 1])
  IN  upto[size(l.from)]

copy_from(t, from, wanted) ==
  run(copy_begin(cleared_for(t, min_buckets(t.settings, size(from), wanted)), from),
      copy_step).to

\* What the constructors of a copy start from.
no_buckets_of(from) ==
  thresholds_of([from EXCEPT !.num_deleted = 0, !.table = T!new_sparsetable(0)])

\* The copy constructor.
copy_of(from, wanted) == copy_from(no_buckets_of(from), from, wanted)

\* The constructor that moves, into n buckets, up to its first object.
moving_to(from, n) == move_begin(cleared_for(no_buckets_of(from), n), from)

\* Each side of a swap has its thresholds recomputed.
swapped(t) == thresholds_of(t)

\* The swap with the table filled, which ends a move; the other is destroyed.
move_end(l) == swapped(l.to)

moved(from, n) == move_end(run(moving_to(from, n), move_step))

\* The constructor; n is how many items are expected.
new_table(n) ==
  LET s == new_settings(HT_OCCUPANCY_PCT, HT_EMPTY_PCT)
  IN  thresholds_of(
        [ settings |-> s, delkey |-> DefaultKey, num_deleted |-> 0,
          table |-> T!new_sparsetable(IF n = 0 THEN HT_DEFAULT_STARTING_BUCKETS
                                               ELSE min_buckets(s, n, 0)) ])

\* operator= copies num_deleted too, which is what has clear() look at the table.
assign(t, from) ==
  copy_from([t EXCEPT !.settings    = from.settings,
                      !.delkey      = from.delkey,
                      !.num_deleted = from.num_deleted], from, HT_MIN_BUCKETS)

-----------------------------------------------------------------------------
(* Resizing.                                                               *)

shrinks(t) ==
  /\ t.settings.shrink_threshold > 0
  /\ size(t) < t.settings.shrink_threshold
  /\ bucket_count(t) > HT_DEFAULT_STARTING_BUCKETS

\* Half as many buckets, and half of those while what remains is still below
\* the shrink factor of them, cut to a whole number (the dense table does not
\* cut it), then as many more as the grow factor asks for.
shrunk_size(t) ==
  LET sizes == {n \in BucketCounts :
                  /\ HT_DEFAULT_STARTING_BUCKETS <= n /\ n < bucket_count(t)
                  /\ \/ n = HT_DEFAULT_STARTING_BUCKETS
                     \/ size(t) >= shrink_size(t.settings, n)}
  IN  min_buckets(t.settings, size(t), Max(sizes))

considered(t) == [t EXCEPT !.settings.consider_shrink = FALSE]

maybe_shrink(t) ==
  IF shrinks(t) THEN Outcome(considered(moved(t, shrunk_size(t))), "resized")
                ELSE Outcome(considered(t), "kept")

\* How many buckets to rehash into to make room for delta more objects.
resize_to(t, delta) ==
  LET s      == t.settings
      needed == min_buckets(s, num_nonempty(t) + delta, 0)
      target(fits) ==
        IF /\ fits < needed
           /\ fits < SizeMax \div 2
           /\ size(t) + delta >= shrink_size(s, fits * 2)
        THEN fits * 2
        ELSE fits
  IN  target(min_buckets(s, size(t) + delta, bucket_count(t)))

\* u is the outcome of considering to shrink.
grow_if_needed(u, delta) ==
  LET s == u.ht.settings
      n == num_nonempty(u.ht)
  IN  IF n >= SizeMax - delta
      THEN Outcome(u.ht, "length_error")
      ELSE IF bucket_count(u.ht) >= HT_MIN_BUCKETS /\ n + delta <= s.enlarge_threshold
      THEN u
      ELSE IF min_buckets_overflows(s, n + delta, 0)
      THEN Outcome(u.ht, "length_error")
      ELSE IF min_buckets(s, n + delta, 0) <= bucket_count(u.ht)
      THEN u
      ELSE Outcome(moved(u.ht, resize_to(u.ht, delta)), "resized")

resize_delta(t, delta) ==
  grow_if_needed(IF t.settings.consider_shrink THEN maybe_shrink(t)
                                               ELSE Outcome(t, "kept"), delta)

resize(t, req_elements) ==
  LET grown(u) == IF req_elements > num_nonempty(u)
                  THEN resize_delta(u, req_elements - num_nonempty(u))
                  ELSE Outcome(u, "kept")
  IN  grown(IF t.settings.consider_shrink \/ req_elements = 0 THEN maybe_shrink(t).ht
                                                              ELSE t)

change_resizing_parameters(t, shrink, grow) ==
  thresholds_of([t EXCEPT !.settings = set_resizing_parameters(@, shrink, grow)])

-----------------------------------------------------------------------------
(* The deleted key.                                                        *)

\* Rid the table of its deleted buckets: a move into one of the same size.
squash_deleted(t) == IF t.num_deleted > 0 THEN moved(t, bucket_count(t)) ELSE t

use_deleted_key(t, k) == [t EXCEPT !.settings.use_deleted = TRUE, !.delkey = k]
use_no_deleted_key(t) == [t EXCEPT !.settings.use_deleted = FALSE]

set_deleted_key(t, k)  == use_deleted_key(squash_deleted(t), k)
clear_deleted_key(t)   == use_no_deleted_key(squash_deleted(t))

-----------------------------------------------------------------------------
(* Insertion.                                                              *)

\* Mutant: a deleted bucket in use again still counts as deleted.
insert_at_recounting(t, obj, pos) ==
  IF size(t) >= MaxSize
  THEN Outcome(t, "length_error")
  ELSE Outcome([t EXCEPT !.table = T!set(@, pos, obj)], "inserted")

insert_at(t, obj, pos) ==
  IF size(t) >= MaxSize
  THEN Outcome(t, "length_error")
  ELSE Outcome([t EXCEPT !.num_deleted = IF test_deleted(t, pos) THEN @ - 1 ELSE @,
                         !.table = T!set(@, pos, obj)], "inserted")

insert_noresize(t, obj) ==
  LET p == find_position(t, obj.key)
  IN  IF search_fails(p) THEN Outcome(t, "table_full")
      ELSE IF p.first # ILLEGAL_BUCKET THEN Outcome(t, "present")
      ELSE insert_at(t, obj, p.second)

insert(t, obj) ==
  LET after(u) == IF u.res = "length_error" THEN u ELSE insert_noresize(u.ht, obj)
  IN  after(resize_delta(t, 1))

\* insert(f, l) of forward iterators: one resize, then object by object; one
\* that throws leaves those before it in the table.
insert_next(r, obj) ==
  LET u == insert_noresize(r.ht, obj)
  IN  IF r.res # "ok" THEN r
      ELSE IF u.res \in {"inserted", "present"} THEN Outcome(u.ht, "ok")
      ELSE u

insert_each(t, objs) ==
  LET upto[i \in 0 .. Len(objs)] ==
        IF i = 0 THEN Outcome(t, "ok") ELSE insert_next(upto[i - 1], objs[i])
  IN  upto[Len(objs)]

insert_range(t, objs) ==
  LET after(u) == IF u.res = "length_error" THEN u ELSE insert_each(u.ht, objs)
  IN  IF Len(objs) >= SizeMax THEN Outcome(t, "length_error")
                              ELSE after(resize_delta(t, Len(objs)))

\* operator[]: the position found is no good any more once the table resized.
find_or_insert(t, k) ==
  LET p   == find_position(t, k)
      obj == [key |-> k, val |-> DefaultVal]
      add(u) == IF u.res = "length_error" THEN u
                ELSE IF u.res = "resized" THEN insert_noresize(u.ht, obj)
                ELSE insert_at(u.ht, obj, p.second)
  IN  IF search_fails(p) THEN Outcome(t, "table_full")
      ELSE IF p.first # ILLEGAL_BUCKET THEN Outcome(t, "present")
      ELSE add(resize_delta(t, 1))

-----------------------------------------------------------------------------
(* Deletion.                                                               *)

\* The object is not taken out of the sparsetable, only its key is changed.
set_deleted(t, pos) ==
  [t EXCEPT !.table = T!set(@, pos, [key |-> t.delkey, val |-> DefaultVal])]

\* erase(iterator): only an object that was not deleted yet counts.
erase_at(t, pos) ==
  IF test_deleted(t, pos)
  THEN set_deleted(t, pos)
  ELSE [set_deleted(t, pos) EXCEPT !.num_deleted = @ + 1,
                                   !.settings.consider_shrink = TRUE]

erase(t, k) ==
  LET p == find_position(t, k)
  IN  IF size(t) = 0 THEN Outcome(t, "absent")
      ELSE IF search_fails(p) THEN Outcome(t, "table_full")
      ELSE IF p.first = ILLEGAL_BUCKET THEN Outcome(t, "absent")
      ELSE Outcome(erase_at(t, p.first), "erased")

\* erase(f, l): the live buckets from f up to but not including l, one by one;
\* num_deleted counts them at the end.
set_deleted_if(t, gone, i) == IF i \in gone THEN set_deleted(t, i) ELSE t

set_deleted_each(t, gone) ==
  LET upto[i \in 0 .. bucket_count(t)] ==
        IF i = 0 THEN t ELSE set_deleted_if(upto[i - 1], gone, i - 1)
  IN  upto[bucket_count(t)]

erase_range(t, f, l) ==
  LET gone == {i \in LiveBuckets(t) : f <= i /\ i < l}
  IN  [set_deleted_each(t, gone) EXCEPT !.num_deleted = @ + Cardinality(gone),
                                        !.settings.consider_shrink = TRUE]

-----------------------------------------------------------------------------

\* operator==: as many objects, and each of one is found, equal, in the other.
tables_equal(t, u) ==
  /\ size(t) = size(u)
  /\ \A i \in LiveBuckets(t) :
       LET it == find(u, object(t, i).key)
       IN  it # end(u) /\ T!dereference(u.table, it) = object(t, i)

-----------------------------------------------------------------------------
(* Serialization, as a POD: the objects go to the stream as they are.      *)

\* Both leave the table without deleted buckets.
serialize(t) == T!serialize(squash_deleted(t).table)

\* The outcome is a reading: the table left, the rest of the stream, whether
\* all of it was there.
filled_from(t, r) == [r EXCEPT !.t = [t EXCEPT !.table = r.t]]

read_afresh(t, r) ==
  [r EXCEPT !.t = thresholds_of([t EXCEPT !.num_deleted = 0, !.table = r.t])]

unserialize(t, fp)         == read_afresh(t, T!unserialize(t.table, fp))
read_metadata(t, fp)       == read_afresh(t, T!read_metadata(t.table, fp))
read_nopointer_data(t, fp) == filled_from(t, T!read_nopointer_data(t.table, fp))

=============================================================================
