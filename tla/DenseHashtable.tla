---------------------------- MODULE DenseHashtable ----------------------------
(***************************************************************************)
(* The open-addressing table of internal/densehashtable.h, as instantiated *)
(* by dense_hash_map: one table is a record, a method of the class is an   *)
(* operator from a table to a table, or to an outcome (the table it leaves *)
(* behind and what it answers).  A bucket holds a key and a value; a       *)
(* bucket is empty when its key is the empty key and deleted when its key  *)
(* is the deleted key, and nothing else tells them from live ones.         *)
(*                                                                         *)
(* Module DenseHashMap is the state machine a client drives with these     *)
(* operators.                                                              *)
(***************************************************************************)
EXTENDS HashtableSettings, Sequences

CONSTANTS
  Key,         \* the values of key_type, the reserved ones included
  DefaultKey,  \* key_type(): what emptyval and delkey hold before they are set
  Val,         \* the values of data_type
  DefaultVal,  \* data_type()
  Hash,        \* settings.hash(key), munged
  MaxSize,     \* val_info.max_size(), what the allocator allows
  NULL         \* the table pointer before set_empty_key

ASSUME KeysAssumption ==
  /\ DefaultKey \in Key /\ DefaultVal \in Val
  /\ Hash \in [Key -> Nat]
  /\ MaxSize \in Nat
  /\ \A n \in BucketCounts : NULL \notin [0 .. n - 1 -> [key : Key, val : Val]]

HT_OCCUPANCY_PCT == 50
HT_EMPTY_PCT     == 20

\* size_type(-1), never the number of a bucket.
ILLEGAL_BUCKET == SizeMax

Slot == [key : Key, val : Val]

\* A table of n buckets; before set_empty_key it has none allocated yet.
TableOf(n) ==
  [ settings     : Settings,
    emptykey     : Key,
    delkey       : Key,
    num_deleted  : Nat,
    num_elements : Nat,
    num_buckets  : {n},
    table        : {NULL} \cup [0 .. n - 1 -> Slot] ]

IsTable(t) == \E n \in BucketCounts : t \in TableOf(n)

Outcome(t, res) == [ht |-> t, res |-> res]

\* The thresholds are those of the present size and load factors, and the
\* factors are far enough apart.
in_sync(t) ==
  /\ t.settings.enlarge_threshold = enlarge_size(t.settings, t.num_buckets)
  /\ t.settings.shrink_threshold = shrink_size(t.settings, t.num_buckets)
  /\ 2 * t.settings.shrink_factor <= t.settings.enlarge_factor

-----------------------------------------------------------------------------
(* Telling empty, deleted and live buckets apart.                          *)

Buckets(t) == 0 .. t.num_buckets - 1

EmptyBucket(t)   == [key |-> t.emptykey, val |-> DefaultVal]
DeletedBucket(t) == [key |-> t.delkey, val |-> DefaultVal]

test_empty(t, i) == t.table[i].key = t.emptykey

\* With num_deleted = 0 no bucket is deleted, whatever key it holds.
test_deleted(t, i) == t.num_deleted > 0 /\ t.table[i].key = t.delkey

size(t) == t.num_elements - t.num_deleted

\* The buckets an iterator stops at between begin() and end().
LiveBuckets(t) ==
  IF t.table = NULL
  THEN {}
  ELSE {i \in Buckets(t) : ~test_empty(t, i) /\ ~test_deleted(t, i)}

\* begin(i) and end(i): a bucket is taken for a table of one bucket, which has
\* one object or none.
\* Mutant: a deleted bucket counts as one with an object.
local_end_of_full(t, i) == IF test_empty(t, i) THEN i ELSE i + 1

local_begin(t, i) == i
local_end(t, i)   == IF ~test_empty(t, i) /\ ~test_deleted(t, i) THEN i + 1 ELSE i

bucket_size(t, i) == IF local_begin(t, i) = local_end(t, i) THEN 0 ELSE 1

\* The keys of the objects in the table.
Keys(t) == {t.table[i].key : i \in LiveBuckets(t)}

-----------------------------------------------------------------------------
(* Probing.                                                                *)

\* The i-th bucket probed for a key among n: JUMP_ makes the steps 1, 2, 3...
Probe(k, i, n) == (Hash[k] + (i * (i + 1)) \div 2) % n

(***************************************************************************)
(* first is the bucket that holds the key and second the one to insert it  *)
(* in: the first deleted bucket seen, or else the empty one that ended the *)
(* search.  Each is ILLEGAL_BUCKET when the other is not.  Both are        *)
(* ILLEGAL_BUCKET when every bucket was probed to no avail, where the code *)
(* fails the assertion "Hashtable is full" (and without assertions probes  *)
(* for ever).                                                              *)
(***************************************************************************)
\* Mutant: stop at the first deleted bucket, the key may be further on.
find_position_hasty(t, k) ==
  LET at(i)   == Probe(k, i, t.num_buckets)
      holds(i) == t.table[at(i)].key = k
      stops   == {i \in Buckets(t) :
                    test_empty(t, at(i)) \/ test_deleted(t, at(i)) \/ holds(i)}
      position(last) ==
        IF holds(last)
        THEN [first |-> at(last), second |-> ILLEGAL_BUCKET]
        ELSE [first |-> ILLEGAL_BUCKET, second |-> at(last)]
  IN  position(Min(stops))

find_position(t, k) ==
  LET at(i)   == Probe(k, i, t.num_buckets)
      holds(i) == /\ ~test_empty(t, at(i)) /\ ~test_deleted(t, at(i))
                  /\ t.table[at(i)].key = k
      stops   == {i \in Buckets(t) : test_empty(t, at(i)) \/ holds(i)}
      reusable(last) == {i \in 0 .. last : test_deleted(t, at(i))} \cup {last}
      position(last) ==
        IF holds(last)
        THEN [first |-> at(last), second |-> ILLEGAL_BUCKET]
        ELSE [first |-> ILLEGAL_BUCKET, second |-> at(Min(reusable(last)))]
  IN  IF stops = {}
      THEN [first |-> ILLEGAL_BUCKET, second |-> ILLEGAL_BUCKET]
      ELSE position(Min(stops))

search_fails(p) == p.first = ILLEGAL_BUCKET /\ p.second = ILLEGAL_BUCKET

\* The bucket find() returns an iterator to; ILLEGAL_BUCKET stands for end().
find(t, k) == IF size(t) = 0 THEN ILLEGAL_BUCKET ELSE find_position(t, k).first

count(t, k) == IF find_position(t, k).first = ILLEGAL_BUCKET THEN 0 ELSE 1

bucket(t, k) ==
  LET either(p) == IF p.first = ILLEGAL_BUCKET THEN p.second ELSE p.first
  IN  either(find_position(t, k))

-----------------------------------------------------------------------------
(* Clearing and rehashing.                                                 *)

clear_to_size(t, n) ==
  [t EXCEPT !.table        = [i \in 0 .. n - 1 |-> EmptyBucket(t)],
            !.num_elements = 0,
            !.num_deleted  = 0,
            !.num_buckets  = n,
            !.settings     = reset_thresholds(@, n)]

clear(t) ==
  IF t.num_elements = 0 /\ min_buckets(t.settings, 0, 0) = t.num_buckets
  THEN t
  ELSE clear_to_size(t, min_buckets(t.settings, 0, 0))

clear_no_resize(t) ==
  [t EXCEPT !.table        = IF t.num_elements > 0
                             THEN [i \in Buckets(t) |-> EmptyBucket(t)]
                             ELSE @,
            !.settings     = reset_thresholds(@, t.num_buckets),
            !.num_elements = 0,
            !.num_deleted  = 0]

\* The first bucket of the probe sequence that holds the empty key e in tab, a
\* table of n buckets: no key is compared.
first_empty(tab, n, e, k) ==
  Probe(k, Min({i \in 0 .. n - 1 : tab[Probe(k, i, n)].key = e}), n)

put(tab, n, e, obj) == [tab EXCEPT ![first_empty(tab, n, e, obj.key)] = obj]

(***************************************************************************)
(* The buckets of a cleared table of n buckets after the live objects      *)
(* among the first i buckets of from were put in it in iteration order,    *)
(* for each i.  No key is there twice and none is deleted.                 *)
(***************************************************************************)
rehash_each(t, n, from) ==
  LET upto[i \in 0 .. from.num_buckets] ==
        IF i = 0
        THEN [j \in 0 .. n - 1 |-> EmptyBucket(t)]
        ELSE IF i - 1 \in LiveBuckets(from)
        THEN put(upto[i - 1], n, t.emptykey, from.table[i - 1])
        ELSE upto[i - 1]
  IN  upto

rehashed(t, n, from) == rehash_each(t, n, from)[from.num_buckets]

copy_to_size(t, from, n) ==
  [clear_to_size(t, n) EXCEPT !.table        = rehashed(t, n, from),
                              !.num_elements = Cardinality(LiveBuckets(from))]

copy_from(t, from, wanted) ==
  copy_to_size(t, from, min_buckets(t.settings, size(from), wanted))

\* A table that has no empty key yet has no buckets to copy.
no_table_of(from, n) ==
  [from EXCEPT !.num_deleted  = 0,
               !.num_elements = 0,
               !.num_buckets  = n,
               !.settings     = reset_thresholds(@, n),
               !.table        = NULL]

\* The copy constructor.
copy_of(from, wanted) ==
  IF from.settings.use_empty
  THEN copy_from(from, from, wanted)
  ELSE no_table_of(from, min_buckets(from.settings, size(from), wanted))

\* The constructor; n is how many items are expected.
\* Mutant: the expected number of items is taken for a number of buckets.
new_table_unrounded(n) ==
  LET s == new_settings(HT_OCCUPANCY_PCT, HT_EMPTY_PCT)
      of(buckets) == [ settings |-> reset_thresholds(s, buckets),
                       emptykey |-> DefaultKey, delkey |-> DefaultKey,
                       num_deleted |-> 0, num_elements |-> 0,
                       num_buckets |-> buckets, table |-> NULL ]
  IN  of(IF n = 0 THEN HT_DEFAULT_STARTING_BUCKETS ELSE n)

new_table(n) ==
  LET s == new_settings(HT_OCCUPANCY_PCT, HT_EMPTY_PCT)
      of(buckets) == [ settings |-> reset_thresholds(s, buckets),
                       emptykey |-> DefaultKey, delkey |-> DefaultKey,
                       num_deleted |-> 0, num_elements |-> 0,
                       num_buckets |-> buckets, table |-> NULL ]
  IN  of(IF n = 0 THEN HT_DEFAULT_STARTING_BUCKETS ELSE min_buckets(s, n, 0))

\* Mutant: the empty key is not assigned.
assign_keeping_emptykey(t, from) ==
  IF from.settings.use_empty
  THEN copy_from([t EXCEPT !.settings = from.settings,
                           !.delkey   = from.delkey], from, HT_MIN_BUCKETS)
  ELSE copy_of(from, HT_DEFAULT_STARTING_BUCKETS)

assign(t, from) ==
  IF from.settings.use_empty
  THEN copy_from([t EXCEPT !.settings = from.settings,
                           !.delkey   = from.delkey,
                           !.emptykey = from.emptykey], from, HT_MIN_BUCKETS)
  ELSE copy_of(from, HT_DEFAULT_STARTING_BUCKETS)

\* What each side of a swap becomes: the other, its thresholds recomputed.
swapped(t) == [t EXCEPT !.settings = reset_thresholds(@, t.num_buckets)]

-----------------------------------------------------------------------------
(* Resizing.                                                               *)

(***************************************************************************)
(* Halve the table while it stays above its starting size and what remains *)
(* in it is below the shrink factor.  The answer is whether it did.  The   *)
(* rehash cannot overflow size_type: the present size is big enough.       *)
(***************************************************************************)
\* Mutant: one halving at a time.
maybe_shrink_once(t) ==
  IF /\ t.settings.shrink_threshold > 0
     /\ size(t) < t.settings.shrink_threshold
     /\ t.num_buckets > HT_DEFAULT_STARTING_BUCKETS
  THEN Outcome(swapped(copy_of(t, t.num_buckets \div 2)), "resized")
  ELSE Outcome([t EXCEPT !.settings.consider_shrink = FALSE], "kept")

maybe_shrink(t) ==
  LET shrinks == /\ t.settings.shrink_threshold > 0
                 /\ size(t) < t.settings.shrink_threshold
                 /\ t.num_buckets > HT_DEFAULT_STARTING_BUCKETS
      sizes   == {n \in BucketCounts :
                    /\ HT_DEFAULT_STARTING_BUCKETS <= n /\ n < t.num_buckets
                    /\ \/ n = HT_DEFAULT_STARTING_BUCKETS
                       \/ size(t) * 100 >= n * t.settings.shrink_factor}
  IN  IF shrinks
      THEN Outcome(swapped(copy_of(t, Max(sizes))), "resized")
      ELSE Outcome([t EXCEPT !.settings.consider_shrink = FALSE], "kept")

(***************************************************************************)
(* How many buckets to rehash into to make room for delta more objects:    *)
(* deleted buckets go away in the rehash and do not count, but when enough *)
(* of the load was live, and the doubled table would not be below its      *)
(* shrink threshold at once, twice as many.                                *)
(***************************************************************************)
\* Mutant: every deleted bucket counts, as before ResizeWithoutShrink.
resize_to_infinity(t, delta) ==
  LET fits == min_buckets(t.settings, size(t) + delta, t.num_buckets)
  IN  IF /\ fits < min_buckets(t.settings, t.num_elements + delta, 0)
         /\ fits < SizeMax \div 2
         /\ size(t) + delta >= shrink_size(t.settings, fits * 2)
      THEN fits * 2
      ELSE fits

\* Mutant: no thought of the shrink threshold.
resize_to_carefree(t, delta) ==
  LET fits   == min_buckets(t.settings, size(t) + delta, t.num_buckets)
      needed == min_buckets(t.settings, t.num_elements + delta, 0)
  IN  IF fits < needed /\ fits < SizeMax \div 2 THEN fits * 2 ELSE fits

\* Mutant: the present size is no lower bound.
resize_to_afresh(t, delta) == min_buckets(t.settings, size(t) + delta, 0)

resize_to(t, delta) ==
  LET s      == t.settings
      needed == min_buckets(s, t.num_elements - t.num_deleted \div 4 + delta, 0)
      target(fits) ==
        IF /\ fits < needed
           /\ fits < SizeMax \div 2
           /\ size(t) + delta >= shrink_size(s, fits * 2)
        THEN fits * 2
        ELSE fits
  IN  target(min_buckets(s, size(t) + delta, t.num_buckets))

\* u is the outcome of considering to shrink.
\* Mutant: deleted buckets are not counted as in use.
grow_if_live_need(u, delta) ==
  IF size(u.ht) + delta <= u.ht.settings.enlarge_threshold
  THEN u
  ELSE IF min_buckets_overflows(u.ht.settings, u.ht.num_elements + delta, 0)
  THEN Outcome(u.ht, "length_error")
  ELSE Outcome(swapped(copy_of(u.ht, resize_to(u.ht, delta))), "resized")

\* Mutant: grow once the table is over the threshold, not before.
grow_if_over(u, delta) ==
  IF \/ u.ht.num_elements <= u.ht.settings.enlarge_threshold
     \/ min_buckets(u.ht.settings, u.ht.num_elements + delta, 0) <= u.ht.num_buckets
  THEN u
  ELSE Outcome(swapped(copy_of(u.ht, resize_to(u.ht, delta))), "resized")

grow_if_needed(u, delta) ==
  LET s == u.ht.settings
      n == u.ht.num_elements
  IN  IF n >= SizeMax - delta
      THEN Outcome(u.ht, "length_error")
      ELSE IF u.ht.num_buckets >= HT_MIN_BUCKETS /\ n + delta <= s.enlarge_threshold
      THEN u
      ELSE IF min_buckets_overflows(s, n + delta, 0)
      THEN Outcome(u.ht, "length_error")
      ELSE IF min_buckets(s, n + delta, 0) <= u.ht.num_buckets
      THEN u
      ELSE Outcome(swapped(copy_of(u.ht, resize_to(u.ht, delta))), "resized")

resize_delta(t, delta) ==
  grow_if_needed(IF t.settings.consider_shrink THEN maybe_shrink(t)
                                               ELSE Outcome(t, "kept"), delta)

resize(t, req_elements) ==
  LET grown(u) == IF req_elements > u.num_elements
                  THEN resize_delta(u, req_elements - u.num_elements)
                  ELSE Outcome(u, "kept")
  IN  grown(IF t.settings.consider_shrink \/ req_elements = 0 THEN maybe_shrink(t).ht
                                                              ELSE t)

\* Mutant: the thresholds keep to the old factors.
change_factors_only(t, shrink, grow) ==
  [t EXCEPT !.settings = set_resizing_parameters(@, shrink, grow)]

change_resizing_parameters(t, shrink, grow) ==
  [t EXCEPT !.settings = reset_thresholds(
                           set_resizing_parameters(@, shrink, grow), t.num_buckets)]

-----------------------------------------------------------------------------
(* The reserved keys.                                                      *)

set_empty_key(t, k) ==
  [t EXCEPT !.settings.use_empty = TRUE,
            !.emptykey = k,
            !.table    = [i \in Buckets(t) |-> [key |-> k, val |-> DefaultVal]]]

\* Rid the table of its deleted buckets: the copy has none.
squash_deleted(t) ==
  IF t.num_deleted > 0 THEN swapped(copy_of(t, HT_DEFAULT_STARTING_BUCKETS)) ELSE t

\* Mutant: the buckets deleted under the old key stay.
set_deleted_key_unsquashed(t, k) ==
  [t EXCEPT !.settings.use_deleted = TRUE, !.delkey = k]

set_deleted_key(t, k) ==
  [squash_deleted(t) EXCEPT !.settings.use_deleted = TRUE, !.delkey = k]

clear_deleted_key(t) ==
  [squash_deleted(t) EXCEPT !.settings.use_deleted = FALSE]

-----------------------------------------------------------------------------
(* Insertion.                                                              *)

\* Mutant: a deleted bucket in use again still counts as deleted.
insert_at_recounting(t, obj, pos) ==
  IF size(t) >= MaxSize
  THEN Outcome(t, "length_error")
  ELSE Outcome([t EXCEPT !.table[pos] = obj,
                         !.num_elements = IF test_deleted(t, pos) THEN @ ELSE @ + 1],
               "inserted")

insert_at(t, obj, pos) ==
  IF size(t) >= MaxSize
  THEN Outcome(t, "length_error")
  ELSE Outcome(IF test_deleted(t, pos)
               THEN [t EXCEPT !.table[pos] = obj, !.num_deleted = @ - 1]
               ELSE [t EXCEPT !.table[pos] = obj, !.num_elements = @ + 1],
               "inserted")

insert_noresize(t, obj) ==
  LET at(p) == IF search_fails(p) THEN Outcome(t, "table_full")
               ELSE IF p.first # ILLEGAL_BUCKET THEN Outcome(t, "present")
               ELSE insert_at(t, obj, p.second)
  IN  at(find_position(t, obj.key))

insert(t, obj) ==
  LET after(u) == IF u.res = "length_error" THEN u ELSE insert_noresize(u.ht, obj)
  IN  after(resize_delta(t, 1))

\* insert(f, l) of forward iterators: one resize, then object by object.  An
\* insertion that throws leaves those before it in the table.
insert_next(r, obj) ==
  LET answer(u) == IF u.res \in {"inserted", "present"} THEN Outcome(u.ht, "ok") ELSE u
  IN  IF r.res = "ok" THEN answer(insert_noresize(r.ht, obj)) ELSE r

\* The outcome of inserting the first i of objs, for each i.
insert_each(t, objs) ==
  LET upto[i \in 0 .. Len(objs)] ==
        IF i = 0 THEN Outcome(t, "ok") ELSE insert_next(upto[i - 1], objs[i])
  IN  upto

insert_range(t, objs) ==
  LET after(u) == IF u.res = "length_error" THEN u
                                            ELSE insert_each(u.ht, objs)[Len(objs)]
  IN  IF Len(objs) >= SizeMax THEN Outcome(t, "length_error")
                              ELSE after(resize_delta(t, Len(objs)))

\* Mutant: the position found before the resize is used after it.
find_or_insert_stale(t, k) ==
  LET obj == [key |-> k, val |-> DefaultVal]
      add(u, pos) == IF u.res = "length_error" THEN u ELSE insert_at(u.ht, obj, pos)
      at(p) == IF search_fails(p) THEN Outcome(t, "table_full")
               ELSE IF p.first # ILLEGAL_BUCKET THEN Outcome(t, "present")
               ELSE add(resize_delta(t, 1), p.second)
  IN  at(find_position(t, k))

\* operator[]: the position found is no good any more once the table resized.
find_or_insert(t, k) ==
  LET obj == [key |-> k, val |-> DefaultVal]
      add(u, pos) == IF u.res = "length_error" THEN u
                     ELSE IF u.res = "resized" THEN insert_noresize(u.ht, obj)
                     ELSE insert_at(u.ht, obj, pos)
      at(p) == IF search_fails(p) THEN Outcome(t, "table_full")
               ELSE IF p.first # ILLEGAL_BUCKET THEN Outcome(t, "present")
               ELSE add(resize_delta(t, 1), p.second)
  IN  at(find_position(t, k))

-----------------------------------------------------------------------------
(* Deletion.                                                               *)

\* Mutant: an erased object leaves an empty bucket.
erase_at_emptying(t, pos) ==
  [t EXCEPT !.table[pos] = EmptyBucket(t), !.num_elements = @ - 1]

\* Mutant: erasing shrinks the table when it can.
erase_at_shrinking(t, pos) ==
  maybe_shrink([t EXCEPT !.table[pos] = DeletedBucket(t),
                         !.num_deleted = @ + 1]).ht

\* Mutant: erasing leaves no deleted bucket, the others are put in their places.
erase_at_compacting(t, pos) ==
  copy_to_size(t, [t EXCEPT !.table[pos] = EmptyBucket(t)], t.num_buckets)

\* erase(iterator): only an object that was not deleted yet counts.
erase_at(t, pos) ==
  IF test_deleted(t, pos)
  THEN [t EXCEPT !.table[pos] = DeletedBucket(t)]
  ELSE [t EXCEPT !.table[pos] = DeletedBucket(t),
                 !.num_deleted = @ + 1,
                 !.settings.consider_shrink = TRUE]

erase(t, k) ==
  LET at(p) == IF search_fails(p) THEN Outcome(t, "table_full")
               ELSE IF p.first = ILLEGAL_BUCKET THEN Outcome(t, "absent")
               ELSE Outcome(erase_at(t, p.first), "erased")
  IN  IF size(t) = 0 THEN Outcome(t, "absent") ELSE at(find_position(t, k))

\* Mutant: l is erased too.
erase_range_inclusive(t, f, l) ==
  LET gone == {i \in LiveBuckets(t) : f <= i /\ i <= l}
  IN  [t EXCEPT !.table = [i \in Buckets(t) |->
                             IF i \in gone THEN DeletedBucket(t) ELSE @[i]],
                !.num_deleted = @ + Cardinality(gone),
                !.settings.consider_shrink = TRUE]

\* erase(f, l): the live buckets from f up to but not including l.
erase_range(t, f, l) ==
  LET gone == {i \in LiveBuckets(t) : f <= i /\ i < l}
  IN  [t EXCEPT !.table = [i \in Buckets(t) |->
                             IF i \in gone THEN DeletedBucket(t) ELSE @[i]],
                !.num_deleted = @ + Cardinality(gone),
                !.settings.consider_shrink = TRUE]

-----------------------------------------------------------------------------

\* Mutant: one side may have more objects.
tables_included(t, u) ==
  \A i \in LiveBuckets(t) :
    LET j == find(u, t.table[i].key)
    IN  j # ILLEGAL_BUCKET /\ t.table[i] = u.table[j]

\* operator==: as many objects, and each of one is found, equal, in the other.
tables_equal(t, u) ==
  /\ size(t) = size(u)
  /\ \A i \in LiveBuckets(t) :
       LET j == find(u, t.table[i].key)
       IN  j # ILLEGAL_BUCKET /\ t.table[i] = u.table[j]

=============================================================================
