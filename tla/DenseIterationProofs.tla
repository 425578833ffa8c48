------------------------- MODULE DenseIterationProofs -------------------------
(***************************************************************************)
(* Why a walk over a dense_hashtable may erase on its way.  An erased      *)
(* object leaves a deleted bucket behind, and nothing else moves: of the   *)
(* buckets the iterator has come by and those ahead of it, some are not    *)
(* live any more, and that is all.                                         *)
(*                                                                         *)
(* None of the three properties of the walk is inductive.  Erased keys are *)
(* only those erased if the search for a key misses no object, hence       *)
(* Sound; nothing is missed or seen twice because exactly the live buckets *)
(* before the iterator were seen, hence Walking.                           *)
(***************************************************************************)
EXTENDS DenseIteration, DenseTableProofs

\* The table is sound, has the client's reserved keys and holds its objects.
Tabled ==
  /\ Sound(ht) /\ ht.settings.use_empty /\ ht.settings.use_deleted
  /\ ht.emptykey = EmptyKey /\ ht.delkey = DeletedKey
  /\ Keys(ht) \subseteq ItemKeys

\* Of the live buckets those before the iterator were seen, those from it on
\* were not, and they hold what was there and was not erased.
Walking ==
  pos # NONE =>
    /\ pos \in LiveBuckets(ht) \cup {end(ht)}
    /\ Keys(ht) = start \ gone
    /\ \A i \in LiveBuckets(ht) : seen[ht.table[i].key] = IF i < pos THEN 1 ELSE 0
    /\ \A k \in ItemKeys : seen[k] = 1 => k \in start

WalkInvariant == Tabled /\ seen \in [ItemKeys -> 0 .. 1] /\ Walking

-----------------------------------------------------------------------------
(* Erasing.                                                                *)

\* The bucket of the object of key k, if there is one.
Places(t, k) == {i \in LiveBuckets(t) : t.table[i].key = k}

\* u is what is left of t after the objects in the buckets of S were erased.
Erased(u, t, S) ==
  /\ Sound(u) /\ SameReserved(u, t) /\ u.num_buckets = t.num_buckets
  /\ S \subseteq LiveBuckets(t)
  /\ LiveBuckets(u) = LiveBuckets(t) \ S
  /\ \A i \in LiveBuckets(t) \ S : u.table[i] = t.table[i]

\* A table whose reserved keys are in use.
Erasable(t) == Sound(t) /\ t.settings.use_empty /\ t.settings.use_deleted

\* The keys erased are those of the buckets erased.
LEMMA ErasedKeys ==
  ASSUME NEW t, Sound(t), NEW u, NEW S, Erased(u, t, S)
  PROVE  Keys(u) = Keys(t) \ KeysIn(t, S)
<1>1. \A obj : obj \in Objects(u) <=> obj \in Objects(t) /\ obj.key \notin KeysIn(t, S)
  <2>1. /\ S \in SUBSET LiveBuckets(t) /\ LiveBuckets(u) = LiveBuckets(t) \ S
        /\ \A i \in LiveBuckets(t) \ S : u.table[i] = t.table[i]
    BY DEF Erased
  <2>. QED
    BY <2>1, ErasedObjects
<1>2. Keys(u) = {obj.key : obj \in Objects(u)} /\ Keys(t) = {obj.key : obj \in Objects(t)}
  BY KeysOfObjects
<1>. QED
  BY <1>1, <1>2

\* Nothing is erased with nothing in between.
LEMMA NothingErased ==
  ASSUME NEW t, Sound(t)
  PROVE  Erased(t, t, {})
  BY DEF Erased, SameReserved

\* erase(iterator).
LEMMA EraseAtIs ==
  ASSUME NEW t, Erasable(t), NEW i \in LiveBuckets(t)
  PROVE  Erased(erase_at(t, i), t, {i})
<1>. DEFINE u == erase_at(t, i)
<1>1. i \in Buckets(t)
  BY DEF LiveBuckets
<1>2. /\ Sound(u) /\ LiveBuckets(u) = LiveBuckets(t) \ {i}
      /\ u.num_buckets = t.num_buckets
      /\ \A j \in LiveBuckets(t) \ {i} : u.table[j] = t.table[j]
  BY <1>1, EraseAtErases DEF Erasable
<1>3. SameReserved(u, t)
  <2>1. t \in TableOf(t.num_buckets) /\ t.settings \in Settings
    BY Fields DEF Erasable, Sound
  <2>. QED
    BY <2>1 DEF erase_at, SameReserved, TableOf, Settings
<1>. HIDE DEF u
<1>4. Erased(u, t, {i})
  BY <1>2, <1>3 DEF Erased
<1>. QED
  BY <1>4 DEF u

\* erase(f, l).
LEMMA EraseRangeIs ==
  ASSUME NEW t, Erasable(t), NEW f, NEW l
  PROVE  Erased(erase_range(t, f, l), t, {i \in LiveBuckets(t) : f <= i /\ i < l})
<1>. DEFINE u == erase_range(t, f, l)
            S == {i \in LiveBuckets(t) : f <= i /\ i < l}
<1>1. Sound(u) /\ LiveBuckets(u) = LiveBuckets(t) \ S
  BY EraseRangeSound DEF Erasable
<1>2. t \in TableOf(t.num_buckets) /\ t.settings \in Settings
      /\ t.table \in [Buckets(t) -> Slot] /\ LiveBuckets(t) \subseteq Buckets(t)
  BY Fields DEF Erasable, Sound, Populated, LiveBuckets
<1>3. u.num_buckets = t.num_buckets /\ SameReserved(u, t)
  BY <1>2 DEF erase_range, SameReserved, TableOf, Settings
<1>4. u.table = [i \in Buckets(t) |-> IF i \in S THEN DeletedBucket(t) ELSE t.table[i]]
  BY <1>2 DEF erase_range, TableOf
<1>. HIDE DEF u
<1>5. \A i \in LiveBuckets(t) \ S : u.table[i] = t.table[i]
  BY <1>2, <1>4
<1>6. Erased(u, t, S)
  BY <1>1, <1>3, <1>5 DEF Erased
<1>. QED
  BY <1>6 DEF u

-----------------------------------------------------------------------------
(* Searching.                                                              *)

\* A search finds the object of its key, in a full table too: it is where the
\* probe sequence comes by before any empty bucket.
LEMMA SearchFindsObject ==
  ASSUME NEW t, Sound(t), t.settings.use_empty, NEW k \in Key
  PROVE  LET p == find_position(t, k)
         IN  /\ p.first = ILLEGAL_BUCKET => Places(t, k) = {}
             /\ p.first # ILLEGAL_BUCKET => Places(t, k) = {p.first}
<1>. DEFINE n == t.num_buckets
            p == find_position(t, k)
            at(i)    == Probe(k, i, n)
            holds(i) == /\ ~test_empty(t, at(i)) /\ ~test_deleted(t, at(i))
                        /\ t.table[at(i)].key = k
            stops    == {i \in Buckets(t) : test_empty(t, at(i)) \/ holds(i)}
<1>1. /\ p.first # ILLEGAL_BUCKET => p.first \in LiveBuckets(t) /\ t.table[p.first].key = k
      /\ p.first = ILLEGAL_BUCKET /\ p.second # ILLEGAL_BUCKET => Free(t, k, p.second)
  BY FindPosition
<1>2. Populated(t) /\ n \in BucketCounts /\ n \in Nat
  BY Fields DEF Sound
<1>3. ASSUME NEW j \in Places(t, k), stops = {} PROVE FALSE
  <2>1. j \in LiveBuckets(t) /\ t.table[j].key = k
    BY DEF Places
  <2>2. PICK r \in 0 .. n - 1 : at(r) = j
    BY <1>2, <2>1 DEF Populated, Reached
  <2>3. ~test_empty(t, j) /\ ~test_deleted(t, j)
    BY <2>1 DEF LiveBuckets
  <2>4. r \in stops
    BY <2>1, <2>2, <2>3 DEF Buckets
  <2>. QED
    BY <1>3, <2>4
<1>4. p.first = ILLEGAL_BUCKET /\ p.second = ILLEGAL_BUCKET => stops = {}
  <2>1. \A i \in Buckets(t) : at(i) # ILLEGAL_BUCKET
    <3>1. \A i \in Buckets(t) : at(i) \in Buckets(t)
      BY <1>2, ProbesEveryBucket DEF Buckets
    <3>2. \A b \in Buckets(t) : b # ILLEGAL_BUCKET
      BY <1>2, SizesAssumption DEF Buckets, ILLEGAL_BUCKET, BucketCounts
    <3>. QED
      BY <3>1, <3>2
  <2>. SUFFICES ASSUME stops # {} PROVE ~search_fails(p)
    BY DEF search_fails
  <2>. DEFINE last     == Min(stops)
              reusable == {i \in 0 .. last : test_deleted(t, at(i))} \cup {last}
              least    == Min(reusable)
  <2>2. p = IF holds(last)
            THEN [first |-> at(last), second |-> ILLEGAL_BUCKET]
            ELSE [first |-> ILLEGAL_BUCKET, second |-> at(least)]
    BY DEF find_position
  <2>3. last \in Buckets(t)
    <3>1. stops \in SUBSET Nat
      BY DEF Buckets
    <3>. QED
      BY <3>1, MinIsMember
  <2>4. least \in Buckets(t)
    <3>. HIDE DEF last
    <3>1. reusable \in SUBSET Nat /\ reusable # {} /\ reusable \subseteq Buckets(t)
      BY <1>2, <2>3 DEF Buckets
    <3>. QED
      BY <3>1, MinIsMember
  <2>. HIDE DEF p, last, least
  <2>. QED
    BY <2>1, <2>2, <2>3, <2>4 DEF search_fails
<1>. HIDE DEF p, stops
<1>5. CASE p.first = ILLEGAL_BUCKET
  <2>1. Places(t, k) = {}
    <3>1. CASE p.second = ILLEGAL_BUCKET
      BY <1>3, <1>4, <1>5, <3>1
    <3>2. CASE p.second # ILLEGAL_BUCKET
      BY <1>1, <1>5, <3>2 DEF Free, Places
    <3>. QED
      BY <3>1, <3>2
  <2>. QED
    BY <1>5, <2>1 DEF p
<1>6. CASE p.first # ILLEGAL_BUCKET
  <2>1. Places(t, k) = {p.first}
    BY <1>1, <1>2, <1>6 DEF Populated, NoneTwice, Places
  <2>. QED
    BY <1>6, <2>1 DEF p
<1>. QED
  BY <1>5, <1>6

\* A table of size 0 has no object.
LEMMA NoPlaces ==
  ASSUME NEW t, Erasable(t), size(t) = 0, NEW k
  PROVE  Places(t, k) = {}
<1>1. IsTable(t) /\ Populated(t) /\ t.num_buckets \in Nat
  BY Fields DEF Erasable, Sound
<1>2. Cardinality(LiveBuckets(t)) = 0 /\ IsFiniteSet(LiveBuckets(t))
  BY <1>1, LiveCount, LiveBucketsFinite
<1>3. LiveBuckets(t) = {}
  BY <1>2, FS_EmptySet
<1>. QED
  BY <1>3 DEF Places

\* erase(key).
LEMMA EraseIs ==
  ASSUME NEW t, Erasable(t), NEW k \in Key
  PROVE  Erased(erase(t, k).ht, t, Places(t, k))
<1>. DEFINE p == find_position(t, k)
<1>1. /\ p.first = ILLEGAL_BUCKET => Places(t, k) = {}
      /\ p.first # ILLEGAL_BUCKET => Places(t, k) = {p.first}
  BY SearchFindsObject DEF Erasable
<1>2. Erased(t, t, {})
  BY NothingErased DEF Erasable
<1>3. erase(t, k).ht = IF size(t) = 0 \/ p.first = ILLEGAL_BUCKET
                       THEN t ELSE erase_at(t, p.first)
  BY DEF erase, search_fails, Outcome
<1>. HIDE DEF p
<1>4. CASE size(t) = 0 \/ p.first = ILLEGAL_BUCKET
  <2>1. Places(t, k) = {} /\ erase(t, k).ht = t
    BY <1>1, <1>3, <1>4, NoPlaces
  <2>. QED
    BY <1>2, <2>1
<1>5. CASE ~(size(t) = 0 \/ p.first = ILLEGAL_BUCKET)
  <2>1. Places(t, k) = {p.first} /\ erase(t, k).ht = erase_at(t, p.first)
    BY <1>1, <1>3, <1>5
  <2>2. p.first \in LiveBuckets(t)
    BY <2>1 DEF Places
  <2>. QED
    BY <2>1, <2>2, EraseAtIs
<1>. QED
  BY <1>4, <1>5

-----------------------------------------------------------------------------
(* Iterators.                                                              *)

\* advance stops at the next live bucket, or at end().
LEMMA AdvanceStops ==
  ASSUME NEW t, t.num_buckets \in Nat, NEW i \in Nat
  PROVE  LET p == advance(t, i)
         IN  /\ p \in {j \in LiveBuckets(t) : i <= j} \cup {end(t)}
             /\ \A j \in LiveBuckets(t) : i <= j => p <= j
<1>. DEFINE ahead == {j \in LiveBuckets(t) : j >= i} \cup {t.num_buckets}
            p     == advance(t, i)
<1>1. LiveBuckets(t) \subseteq 0 .. t.num_buckets - 1
  BY LiveBucketsFinite
<1>2. ahead \in SUBSET Nat /\ ahead # {}
  BY <1>1
<1>3. Min(ahead) \in ahead /\ \A m \in ahead : Min(ahead) <= m
  BY <1>2, MinIsMember
<1>4. p \in ahead /\ \A m \in ahead : p <= m
  BY <1>3 DEF advance
<1>. HIDE DEF p
<1>5. /\ p \in {j \in LiveBuckets(t) : i <= j} \cup {end(t)}
      /\ \A j \in LiveBuckets(t) : i <= j => p <= j
  BY <1>1, <1>4 DEF end
<1>. QED
  BY <1>5 DEF p

\* An iterator is no NONE.
LEMMA IteratorsAreNumbers ==
  ASSUME NEW t, Sound(t)
  PROVE  /\ LiveBuckets(t) \subseteq 0 .. t.num_buckets - 1
         /\ end(t) = t.num_buckets /\ t.num_buckets \in Nat
         /\ NONE \notin LiveBuckets(t) \cup {end(t)}
<1>1. t.num_buckets \in Nat /\ t.num_buckets \in 0 .. SizeMax
  BY Fields, SizesAssumption DEF Sound, BucketCounts
<1>2. LiveBuckets(t) \subseteq 0 .. t.num_buckets - 1
  BY <1>1, LiveBucketsFinite
<1>3. LiveBuckets(t) \cup {t.num_buckets} \subseteq 0 .. SizeMax
  BY <1>1, <1>2, SizesAssumption
<1>. QED
  BY <1>1, <1>2, <1>3, ItemsAssumption DEF end

\* The range of equal_range(k) holds the object of that key and no other.
LEMMA EqualRangeIs ==
  ASSUME NEW t, Erasable(t), NEW k \in Key
  PROVE  LET range == equal_range(t, k)
         IN  {i \in LiveBuckets(t) : range[1] <= i /\ i < range[2]} = Places(t, k)
<1>. DEFINE p == find_position(t, k)
            range == equal_range(t, k)
<1>1. /\ p.first = ILLEGAL_BUCKET => Places(t, k) = {}
      /\ p.first # ILLEGAL_BUCKET => Places(t, k) = {p.first}
  BY SearchFindsObject DEF Erasable
<1>2. /\ LiveBuckets(t) \subseteq 0 .. t.num_buckets - 1 /\ t.num_buckets \in Nat
      /\ end(t) = t.num_buckets
  BY IteratorsAreNumbers DEF Erasable
<1>3. range = IF find(t, k) = ILLEGAL_BUCKET THEN <<end(t), end(t)>>
              ELSE <<find(t, k), after(t, find(t, k))>>
  BY DEF equal_range
<1>4. find(t, k) = IF size(t) = 0 THEN ILLEGAL_BUCKET ELSE p.first
  BY DEF find
<1>. HIDE DEF p, range
<1>5. CASE find(t, k) = ILLEGAL_BUCKET
  <2>1. Places(t, k) = {}
    BY <1>1, <1>4, <1>5, NoPlaces
  <2>2. range[1] = t.num_buckets /\ range[2] = t.num_buckets
    BY <1>2, <1>3, <1>5
  <2>3. {i \in LiveBuckets(t) : range[1] <= i /\ i < range[2]} = {}
    BY <1>2, <2>2
  <2>. QED
    BY <2>1, <2>3 DEF range
<1>6. CASE find(t, k) # ILLEGAL_BUCKET
  <2>. DEFINE f == p.first
  <2>1. Places(t, k) = {f} /\ range[1] = f /\ range[2] = after(t, f)
    BY <1>1, <1>3, <1>4, <1>6
  <2>2. f \in LiveBuckets(t) /\ f \in Nat
    BY <1>2, <2>1 DEF Places
  <2>. HIDE DEF f
  <2>. DEFINE l == after(t, f)
  <2>3. /\ l \in {j \in LiveBuckets(t) : f + 1 <= j} \cup {t.num_buckets}
        /\ \A j \in LiveBuckets(t) : f + 1 <= j => l <= j
    BY <1>2, <2>2, AdvanceStops DEF after
  <2>. HIDE DEF l
  <2>4. {i \in LiveBuckets(t) : f <= i /\ i < l} = {f}
    BY <1>2, <2>2, <2>3
  <2>. QED
    BY <2>1, <2>4 DEF range, l
<1>. QED
  BY <1>5, <1>6

-----------------------------------------------------------------------------
(* Between walks.                                                          *)

\* A table with the same reserved keys and with no other key than the client's.
LEMMA StaysTabled ==
  ASSUME Tabled, NEW u, Sound(u), SameReserved(u, ht), Keys(u) \subseteq ItemKeys,
         ht' = u
  PROVE  Tabled'
<1>1. /\ Sound(ht') /\ ht'.settings.use_empty /\ ht'.settings.use_deleted
      /\ ht'.emptykey = EmptyKey /\ ht'.delkey = DeletedKey /\ Keys(ht') \subseteq ItemKeys
  BY DEF Tabled, SameReserved
<1>. QED
  BY <1>1 DEF Tabled

\* The client's keys are ordinary ones.
LEMMA ItemsAllowed ==
  ASSUME Tabled
  PROVE  /\ \A obj \in Items : obj \in Slot /\ Allowed(ht, obj.key)
         /\ ItemKeys \subseteq Key
  BY ItemsAssumption DEF Tabled, Slot, Allowed, ItemKeys

\* insert adds the object, if anything.
LEMMA InsertStep ==
  ASSUME Tabled, NEW obj \in Items, ht' = insert(ht, obj).ht
  PROVE  Tabled'
<1>. DEFINE u == insert(ht, obj).ht
            r == resize_delta(ht, 1)
<1>1. Sound(ht) /\ obj \in Slot /\ Allowed(ht, obj.key) /\ obj.key \in ItemKeys
  BY ItemsAllowed DEF Tabled, ItemKeys
<1>2. Sound(u) /\ Inserted(insert(ht, obj), ht, obj)
  BY <1>1, InsertSound, InsertInserts
<1>3. SameReserved(u, ht)
  <2>1. Sound(r.ht) /\ SameMap(r.ht, ht)
    BY <1>1, ResizeDeltaSound DEF Resized
  <2>2. u = IF r.res = "length_error" THEN r.ht ELSE insert_noresize(r.ht, obj).ht
    BY DEF insert
  <2>. HIDE DEF u, r
  <2>3. SameReserved(r.ht, ht) /\ Allowed(r.ht, obj.key)
    BY <1>1, <2>1 DEF SameMap, SameReserved, Allowed
  <2>4. SameReserved(insert_noresize(r.ht, obj).ht, r.ht)
    BY <1>1, <2>1, <2>3, InsertNoresizeSound
  <2>. QED
    BY <2>2, <2>3, <2>4 DEF SameReserved
<1>4. Objects(u) \subseteq Objects(ht) \cup {obj}
  BY <1>2 DEF Inserted
<1>. HIDE DEF u
<1>5. Keys(u) \subseteq ItemKeys
  <2>1. Keys(u) = {x.key : x \in Objects(u)} /\ Keys(ht) = {x.key : x \in Objects(ht)}
    BY KeysOfObjects
  <2>. QED
    BY <1>1, <1>4, <2>1 DEF Tabled
<1>. QED
  BY <1>2, <1>3, <1>5, StaysTabled DEF u

\* resize changes no object.
LEMMA ResizeStep ==
  ASSUME Tabled, NEW n \in Sizes, ht' = resize(ht, n).ht
  PROVE  Tabled'
<1>. DEFINE u == resize(ht, n).ht
<1>1. n \in Nat
  BY ItemsAssumption, SizesAssumption
<1>2. Sound(u) /\ SameMap(u, ht)
  BY <1>1, ResizeSound DEF Tabled
<1>. HIDE DEF u
<1>3. Keys(u) = Keys(ht)
  BY <1>2, KeysOfObjects DEF SameMap
<1>4. SameReserved(u, ht)
  BY <1>2 DEF SameMap, SameReserved
<1>. QED
  BY <1>2, <1>3, <1>4, StaysTabled DEF Tabled, u

\* At first the table is empty.
LEMMA WalkStarts == Init => WalkInvariant
<1>. SUFFICES ASSUME Init PROVE WalkInvariant
  OBVIOUS
<1>. DEFINE t == new_table(0)
            a == set_empty_key(t, EmptyKey)
            b == set_deleted_key(a, DeletedKey)
<1>1. Sound(t)
  BY RoomAssumption, NewTableSound
<1>2. ~t.settings.use_empty /\ ~t.settings.use_deleted /\ t.num_deleted = 0
  BY DEF new_table, new_settings, reset_thresholds
<1>3. t \in TableOf(t.num_buckets) /\ t.settings \in Settings
  BY <1>1, Fields DEF Sound
<1>4. EmptyKey \in Key /\ DeletedKey \in Key /\ DeletedKey # EmptyKey
  BY ItemsAssumption
<1>. HIDE DEF t
<1>5. Sound(a)
  BY <1>1, <1>2, <1>4, SetEmptyKeySound
<1>6. /\ a.settings = [t.settings EXCEPT !.use_empty = TRUE]
      /\ a.emptykey = EmptyKey /\ a.num_deleted = 0 /\ a.num_buckets = t.num_buckets
      /\ a.table = [i \in Buckets(t) |-> [key |-> EmptyKey, val |-> DefaultVal]]
  BY <1>2, <1>3 DEF set_empty_key, TableOf
<1>. HIDE DEF a
<1>7. LiveBuckets(a) = {}
  BY <1>6 DEF LiveBuckets, Buckets, test_empty
<1>8. squash_deleted(a) = a
  BY <1>6 DEF squash_deleted
<1>9. a \in TableOf(a.num_buckets) /\ a.num_buckets \in BucketCounts /\ a.settings \in Settings
  BY <1>5, Fields DEF Sound
<1>10. b = [a EXCEPT !.settings.use_deleted = TRUE, !.delkey = DeletedKey]
  BY <1>8 DEF set_deleted_key
<1>11. /\ b.settings = [a.settings EXCEPT !.use_deleted = TRUE] /\ b.delkey = DeletedKey
       /\ b.table = a.table /\ b.num_buckets = a.num_buckets /\ b.emptykey = a.emptykey
       /\ b.num_elements = a.num_elements /\ b.num_deleted = a.num_deleted
  BY <1>9, <1>10 DEF TableOf
<1>12. IsTable(b)
  <2>1. [a.settings EXCEPT !.use_deleted = TRUE] \in Settings
    BY <1>9 DEF Settings
  <2>2. b \in TableOf(a.num_buckets)
    BY <1>4, <1>9, <1>10, <2>1 DEF TableOf
  <2>. QED
    BY <1>9, <2>2 DEF IsTable
<1>. HIDE DEF b
<1>13. /\ b.settings.use_deleted /\ b.settings.use_empty
       /\ b.settings.use_empty = a.settings.use_empty
       /\ b.settings.enlarge_factor = a.settings.enlarge_factor
  BY <1>3, <1>6, <1>11 DEF Settings
<1>14. Sound(b)
  <2>1. a.settings.use_empty => DeletedKey # a.emptykey
    BY <1>4, <1>6
  <2>2. DeletedKey \notin Keys(a)
    BY <1>7 DEF Keys
  <2>. QED
    BY <1>4, <1>5, <1>8, <1>11, <1>12, <1>13, <2>1, <2>2, DeletedKeySound
<1>15. LiveBuckets(b) = {} /\ Keys(b) = {}
  BY <1>6, <1>7, <1>11 DEF LiveBuckets, Buckets, test_empty, Keys
<1>16. ht = b
  BY DEF Init, b, a, t
<1>17. Tabled
  BY <1>6, <1>11, <1>13, <1>14, <1>15, <1>16 DEF Tabled
<1>18. seen \in [ItemKeys -> 0 .. 1]
  BY DEF Init
<1>. QED
  BY <1>17, <1>18 DEF WalkInvariant, Walking, Init

-----------------------------------------------------------------------------
(* During a walk.                                                          *)

\* After an erasure the table has some of the client's keys fewer.
LEMMA ErasedTabled ==
  ASSUME Tabled, NEW S, Erased(ht', ht, S)
  PROVE  Tabled' /\ Keys(ht)' = Keys(ht) \ KeysIn(ht, S)
<1>1. Keys(ht') = Keys(ht) \ KeysIn(ht, S)
  BY ErasedKeys DEF Tabled
<1>2. Sound(ht') /\ SameReserved(ht', ht) /\ Keys(ht') \subseteq ItemKeys
  BY <1>1 DEF Tabled, Erased
<1>3. Tabled'
  BY <1>2, StaysTabled
<1>. QED
  BY <1>1, <1>3

\* What is live is in the table, once.
LEMMA LiveKeys ==
  ASSUME Tabled
  PROVE  /\ \A i \in LiveBuckets(ht) : ht.table[i].key \in Keys(ht)
         /\ \A i \in LiveBuckets(ht) : ht.table[i].key \in ItemKeys
         /\ \A i, j \in LiveBuckets(ht) : ht.table[i].key = ht.table[j].key => i = j
         /\ \A k \in Keys(ht) : \E i \in LiveBuckets(ht) : ht.table[i].key = k
  BY DEF Tabled, Sound, Populated, NoneTwice, Keys

\* The iterator points to a live object and moves on: that object was seen now,
\* and the next one was not.
LEMMA VisitStep ==
  ASSUME WalkInvariant, Visit, pos' = after(ht, pos)
  PROVE  /\ pos \in LiveBuckets(ht) /\ pos \in Nat /\ pos' # NONE
         /\ pos' \in (LiveBuckets(ht) \ {pos}) \cup {end(ht)}
         /\ seen' \in [ItemKeys -> 0 .. 1]
         /\ \A i \in LiveBuckets(ht) :
              seen'[ht.table[i].key] = IF i < pos' THEN 1 ELSE 0
         /\ \A k \in ItemKeys : seen'[k] = 1 => k \in start
<1>. DEFINE key(i) == ht.table[i].key
<1>1. Tabled /\ Walking /\ seen \in [ItemKeys -> 0 .. 1] /\ Sound(ht)
  BY DEF WalkInvariant, Tabled
<1>2. pos \in LiveBuckets(ht) /\ pos # NONE
  BY <1>1 DEF Visit, Walking
<1>3. /\ LiveBuckets(ht) \subseteq 0 .. ht.num_buckets - 1
      /\ end(ht) = ht.num_buckets /\ ht.num_buckets \in Nat
      /\ NONE \notin LiveBuckets(ht) \cup {end(ht)}
  BY <1>1, IteratorsAreNumbers
<1>4. pos \in Nat /\ pos < ht.num_buckets
  BY <1>2, <1>3
<1>5. /\ pos' \in {j \in LiveBuckets(ht) : pos + 1 <= j} \cup {end(ht)}
      /\ \A j \in LiveBuckets(ht) : pos + 1 <= j => pos' <= j
  BY <1>3, <1>4, AdvanceStops DEF after
<1>6. pos' \in Nat /\ pos < pos'
  BY <1>3, <1>4, <1>5
<1>7. /\ \A i \in LiveBuckets(ht) : key(i) \in ItemKeys /\ key(i) \in Keys(ht)
      /\ \A i, j \in LiveBuckets(ht) : key(i) = key(j) => i = j
  BY <1>1, LiveKeys
<1>8. seen[key(pos)] = 0 /\ key(pos) \in start
  <2>1. seen[key(pos)] = IF pos < pos THEN 1 ELSE 0
    BY <1>1, <1>2 DEF Walking
  <2>2. key(pos) \in Keys(ht) /\ Keys(ht) = start \ gone
    BY <1>1, <1>2, <1>7 DEF Walking
  <2>. QED
    BY <1>4, <2>1, <2>2
<1>9. seen' = [seen EXCEPT ![key(pos)] = 1]
  BY <1>8 DEF Visit
<1>10. seen'[key(pos)] = 1 /\ \A k \in ItemKeys : k # key(pos) => seen'[k] = seen[k]
  BY <1>1, <1>2, <1>7, <1>9
<1>11. ASSUME NEW i \in LiveBuckets(ht)
       PROVE  seen'[key(i)] = IF i < pos' THEN 1 ELSE 0
  <2>1. i \in Nat
    BY <1>3
  <2>2. CASE i = pos
    BY <1>6, <1>10, <2>2
  <2>3. CASE i # pos
    <3>1. seen'[key(i)] = seen[key(i)]
      BY <1>2, <1>7, <1>10, <2>3
    <3>2. seen[key(i)] = IF i < pos THEN 1 ELSE 0
      BY <1>1, <1>2 DEF Walking
    <3>3. i < pos <=> i < pos'
      BY <1>4, <1>5, <1>6, <2>1, <2>3
    <3>. QED
      BY <3>1, <3>2, <3>3
  <2>. QED
    BY <2>2, <2>3
<1>12. \A k \in ItemKeys : seen'[k] = 1 => k \in start
  BY <1>1, <1>2, <1>8, <1>10 DEF Walking
<1>13. seen' \in [ItemKeys -> 0 .. 1]
  <2>1. ASSUME NEW T, 1 \in T, NEW f \in [ItemKeys -> T], NEW k
        PROVE  [f EXCEPT ![k] = 1] \in [ItemKeys -> T]
    BY <2>1
  <2>2. 1 \in 0 .. 1
    OBVIOUS
  <2>. QED
    BY <1>1, <1>9, <2>1, <2>2
<1>14. pos' \in (LiveBuckets(ht) \ {pos}) \cup {end(ht)} /\ pos' # NONE
  <2>1. pos' # pos
    BY <1>4, <1>6
  <2>2. pos' \in LiveBuckets(ht) \cup {end(ht)}
    BY <1>5
  <2>. QED
    BY <1>3, <2>1, <2>2
<1>. QED
  BY <1>2, <1>4, <1>11, <1>12, <1>13, <1>14

\* Erasing another object than the iterator's, or with no walk on.
LEMMA EraseOtherStep ==
  ASSUME WalkInvariant, NEW k \in ItemKeys,
         pos \notin {NONE, end(ht)} => ht.table[pos].key # k,
         Erased(ht', ht, Places(ht, k)),
         gone' = IF pos = NONE THEN gone ELSE gone \cup {k},
         UNCHANGED <<pos, start, seen>>
  PROVE  WalkInvariant'
<1>. DEFINE S == Places(ht, k)
<1>1. Tabled /\ Walking /\ seen \in [ItemKeys -> 0 .. 1]
  BY DEF WalkInvariant
<1>2. Tabled' /\ Keys(ht)' = Keys(ht) \ KeysIn(ht, S)
  BY <1>1, ErasedTabled
<1>3. CASE pos = NONE
  BY <1>1, <1>2, <1>3 DEF WalkInvariant, Walking
<1>4. CASE pos # NONE
  <2>1. KeysIn(ht, S) = Keys(ht) \cap {k}
    BY DEF KeysIn, Places, Keys
  <2>2. Keys(ht)' = start' \ gone'
    BY <1>1, <1>2, <1>4, <2>1 DEF Walking
  <2>3. pos \in LiveBuckets(ht) => pos \notin S
    <3>1. end(ht) \notin LiveBuckets(ht)
      BY <1>1, IteratorsAreNumbers DEF Tabled
    <3>. QED
      BY <1>4, <3>1 DEF Places
  <2>4. LiveBuckets(ht') = LiveBuckets(ht) \ S /\ end(ht') = end(ht)
        /\ \A i \in LiveBuckets(ht) \ S : ht'.table[i] = ht.table[i]
    BY DEF Erased, end
  <2>5. pos' \in LiveBuckets(ht') \cup {end(ht')}
    BY <1>1, <1>4, <2>3, <2>4 DEF Walking
  <2>6. \A i \in LiveBuckets(ht') :
          seen'[ht'.table[i].key] = IF i < pos' THEN 1 ELSE 0
    BY <1>1, <1>4, <2>4 DEF Walking
  <2>7. \A j \in ItemKeys : seen'[j] = 1 => j \in start'
    BY <1>1, <1>4 DEF Walking
  <2>8. Walking'
    BY <2>2, <2>5, <2>6, <2>7 DEF Walking
  <2>. QED
    BY <1>1, <1>2, <2>8 DEF WalkInvariant
<1>. QED
  BY <1>3, <1>4

\* Every step of the client keeps the invariant.
LEMMA WalkContinues ==
  WalkInvariant /\ [Next]_vars => WalkInvariant'
<1>. SUFFICES ASSUME WalkInvariant, [Next]_vars PROVE WalkInvariant'
  OBVIOUS
<1>1. /\ Tabled /\ Walking /\ seen \in [ItemKeys -> 0 .. 1]
      /\ Erasable(ht) /\ Sound(ht) /\ ItemKeys \subseteq Key
  BY ItemsAllowed DEF WalkInvariant, Tabled, Erasable
<1>2. /\ LiveBuckets(ht) \subseteq 0 .. ht.num_buckets - 1
      /\ end(ht) = ht.num_buckets /\ ht.num_buckets \in Nat
      /\ NONE \notin LiveBuckets(ht) \cup {end(ht)}
  BY <1>1, IteratorsAreNumbers
<1>3. ASSUME NEW obj \in Items, Insert(obj) PROVE WalkInvariant'
  BY <1>1, <1>3, InsertStep DEF WalkInvariant, Walking, Insert
<1>4. ASSUME NEW n \in Sizes, Resize(n) PROVE WalkInvariant'
  BY <1>1, <1>4, ResizeStep DEF WalkInvariant, Walking, Resize
<1>5. ASSUME NEW k \in ItemKeys, EraseKey(k) PROVE WalkInvariant'
  BY <1>1, <1>5, EraseIs, EraseOtherStep DEF EraseKey
<1>6. ASSUME NEW k \in ItemKeys, EraseEqualRange(k) PROVE WalkInvariant'
  <2>. DEFINE range == equal_range(ht, k)
  <2>1. {i \in LiveBuckets(ht) : range[1] <= i /\ i < range[2]} = Places(ht, k)
    BY <1>1, EqualRangeIs
  <2>2. ht' = erase_range(ht, range[1], range[2])
    BY <1>6 DEF EraseEqualRange
  <2>3. Erased(ht', ht, Places(ht, k))
    BY <1>1, <2>1, <2>2, EraseRangeIs
  <2>. QED
    BY <1>6, <2>3, EraseOtherStep DEF EraseEqualRange
<1>7. ASSUME Begin PROVE WalkInvariant'
  <2>1. /\ pos' = advance(ht, 0) /\ ht' = ht /\ start' = Keys(ht) /\ gone' = {}
        /\ seen' = [k \in ItemKeys |-> 0]
    BY <1>7 DEF Begin, begin
  <2>2. /\ pos' \in {j \in LiveBuckets(ht) : 0 <= j} \cup {end(ht)}
        /\ \A j \in LiveBuckets(ht) : 0 <= j => pos' <= j
    BY <1>2, <2>1, AdvanceStops
  <2>3. pos' \in Nat /\ \A i \in LiveBuckets(ht) : ~(i < pos')
    BY <1>2, <2>2
  <2>4. Tabled' /\ LiveBuckets(ht') = LiveBuckets(ht) /\ end(ht') = end(ht)
    BY <1>1, <2>1 DEF Tabled
  <2>5. \A i \in LiveBuckets(ht') : seen'[ht'.table[i].key] = IF i < pos' THEN 1 ELSE 0
    BY <1>1, <2>1, <2>3, LiveKeys
  <2>6. Keys(ht)' = start' \ gone'
    BY <2>1
  <2>7. Walking'
    BY <2>1, <2>2, <2>4, <2>5, <2>6 DEF Walking
  <2>. QED
    BY <2>1, <2>4, <2>7 DEF WalkInvariant
<1>8. ASSUME Advance PROVE WalkInvariant'
  <2>1. Visit /\ pos' = after(ht, pos) /\ ht' = ht /\ start' = start /\ gone' = gone
    BY <1>8 DEF Advance
  <2>2. /\ pos \in LiveBuckets(ht) /\ pos # NONE
        /\ pos' \in LiveBuckets(ht) \cup {end(ht)}
        /\ seen' \in [ItemKeys -> 0 .. 1]
        /\ \A i \in LiveBuckets(ht) : seen'[ht.table[i].key] = IF i < pos' THEN 1 ELSE 0
        /\ \A k \in ItemKeys : seen'[k] = 1 => k \in start
    BY <1>2, <2>1, VisitStep
  <2>3. Tabled' /\ Keys(ht') = Keys(ht) /\ Keys(ht) = start \ gone
    BY <1>1, <2>1, <2>2 DEF Tabled, Walking
  <2>4. Walking'
    BY <2>1, <2>2, <2>3 DEF Walking
  <2>. QED
    BY <2>2, <2>3, <2>4 DEF WalkInvariant
<1>9. ASSUME EraseAndAdvance PROVE WalkInvariant'
  <2>. DEFINE k == ht.table[pos].key
  <2>1. /\ Visit /\ pos' = after(ht, pos) /\ ht' = erase_at(ht, pos)
        /\ start' = start /\ gone' = gone \cup {k}
    BY <1>9 DEF EraseAndAdvance
  <2>2. /\ pos \in LiveBuckets(ht) /\ pos # NONE
        /\ pos' \in (LiveBuckets(ht) \ {pos}) \cup {end(ht)}
        /\ seen' \in [ItemKeys -> 0 .. 1]
        /\ \A i \in LiveBuckets(ht) : seen'[ht.table[i].key] = IF i < pos' THEN 1 ELSE 0
        /\ \A j \in ItemKeys : seen'[j] = 1 => j \in start
    BY <1>2, <2>1, VisitStep
  <2>3. Erased(ht', ht, {pos})
    BY <1>1, <2>1, <2>2, EraseAtIs
  <2>4. Tabled' /\ Keys(ht)' = Keys(ht) \ {k}
    BY <1>1, <2>3, ErasedTabled DEF KeysIn
  <2>5. LiveBuckets(ht') = LiveBuckets(ht) \ {pos} /\ end(ht') = end(ht)
        /\ \A i \in LiveBuckets(ht) \ {pos} : ht'.table[i] = ht.table[i]
    BY <2>3 DEF Erased, end
  <2>6. Keys(ht)' = start' \ gone'
    BY <1>1, <2>1, <2>2, <2>4 DEF Walking
  <2>7. \A i \in LiveBuckets(ht') : seen'[ht'.table[i].key] = IF i < pos' THEN 1 ELSE 0
    BY <2>2, <2>5
  <2>8. Walking'
    BY <2>1, <2>2, <2>5, <2>6, <2>7 DEF Walking
  <2>. QED
    BY <2>2, <2>4, <2>8 DEF WalkInvariant
<1>10. ASSUME EraseRest PROVE WalkInvariant'
  <2>. DEFINE S == {i \in LiveBuckets(ht) : pos <= i /\ i < end(ht)}
  <2>1. /\ pos # NONE /\ ht' = erase_range(ht, pos, end(ht)) /\ pos' = end(ht)
        /\ gone' = gone \cup {k \in start : seen[k] = 0}
        /\ start' = start /\ seen' = seen
    BY <1>10 DEF EraseRest
  <2>2. Erased(ht', ht, S)
    BY <1>1, <2>1, EraseRangeIs
  <2>3. Tabled' /\ Keys(ht)' = Keys(ht) \ KeysIn(ht, S)
    BY <1>1, <2>2, ErasedTabled
  <2>4. LiveBuckets(ht') = LiveBuckets(ht) \ S /\ end(ht') = end(ht)
        /\ \A i \in LiveBuckets(ht) \ S : ht'.table[i] = ht.table[i]
    BY <2>2 DEF Erased, end
  <2>5. pos \in Nat /\ \A i \in LiveBuckets(ht) :
          i \in S <=> seen[ht.table[i].key] = 0
    BY <1>1, <1>2, <2>1 DEF Walking
  <2>. HIDE DEF S
  <2>6. KeysIn(ht, S) = {k \in Keys(ht) : seen[k] = 0}
    <3>1. S \subseteq LiveBuckets(ht)
      BY <2>2 DEF Erased
    <3>. QED
      BY <2>5, <3>1 DEF KeysIn, Keys
  <2>7. Keys(ht)' = start' \ gone'
    BY <1>1, <2>1, <2>3, <2>6 DEF Walking
  <2>8. \A i \in LiveBuckets(ht') : seen'[ht'.table[i].key] = IF i < pos' THEN 1 ELSE 0
    <3>1. ASSUME NEW i \in LiveBuckets(ht) \ S PROVE seen[ht.table[i].key] = 1
      BY <1>1, <2>1, <2>5, <3>1 DEF Walking
    <3>2. \A i \in LiveBuckets(ht) : i < pos'
      BY <1>2, <2>1
    <3>. QED
      BY <2>1, <2>4, <3>1, <3>2
  <2>9. Walking'
    BY <1>1, <2>1, <2>4, <2>7, <2>8 DEF Walking
  <2>. QED
    BY <1>1, <2>1, <2>3, <2>9 DEF WalkInvariant
<1>11. ASSUME End PROVE WalkInvariant'
  <2>1. ht' = ht /\ pos' = NONE /\ seen' = [k \in ItemKeys |-> 0]
    BY <1>11 DEF End
  <2>2. Tabled'
    BY <1>1, <2>1 DEF Tabled
  <2>. QED
    BY <2>1, <2>2 DEF WalkInvariant, Walking
<1>12. CASE UNCHANGED vars
  BY <1>1, <1>12 DEF vars, WalkInvariant, Tabled, Walking
<1>. QED
  BY <1>3, <1>4, <1>5, <1>6, <1>7, <1>8, <1>9, <1>10, <1>11, <1>12 DEF Next

\* The invariant of walks that erase is kept by every step.
LEMMA WalkInvariantHolds == Spec => []WalkInvariant
  BY WalkStarts, WalkContinues, PTL DEF Spec

-----------------------------------------------------------------------------
(* Theorems.                                                               *)

\* Whatever the client erases during a walk and however, its iterator points
\* to a live object that the walk has not come by yet, or is end(): the code
\* keeps what sparsehash/dense_hash_map 68 promises.
THEOREM IteratorsStayValid == Spec => []IteratorStaysValid
<1>1. WalkInvariant => IteratorStaysValid
  <2>. SUFFICES ASSUME WalkInvariant, pos # NONE, pos # end(ht)
                PROVE  pos \in LiveBuckets(ht) /\ seen[ht.table[pos].key] = 0
    BY DEF IteratorStaysValid
  <2>1. pos \in LiveBuckets(ht)
    BY DEF WalkInvariant, Walking
  <2>2. pos \in Nat
    BY <2>1, IteratorsAreNumbers DEF WalkInvariant, Tabled
  <2>3. seen[ht.table[pos].key] = IF pos < pos THEN 1 ELSE 0
    BY <2>1 DEF WalkInvariant, Walking
  <2>. QED
    BY <2>1, <2>2, <2>3
<1>. QED
  BY <1>1, WalkInvariantHolds, PTL

\* A walk sees no object twice, none that was not there when it began, and
\* misses none but those erased before their turn.
THEOREM WalksAreComplete == Spec => []WalkIsComplete
<1>1. WalkInvariant => WalkIsComplete
  <2>. SUFFICES ASSUME WalkInvariant, pos = end(ht), NEW k \in ItemKeys
                PROVE  /\ seen[k] <= 1
                       /\ seen[k] = 1 => k \in start
                       /\ k \in start \ gone => seen[k] = 1
    BY DEF WalkIsComplete
  <2>1. /\ LiveBuckets(ht) \subseteq 0 .. ht.num_buckets - 1 /\ ht.num_buckets \in Nat
        /\ end(ht) = ht.num_buckets /\ pos # NONE
    BY IteratorsAreNumbers DEF WalkInvariant, Tabled
  <2>2. seen[k] \in 0 .. 1 /\ (seen[k] = 1 => k \in start)
    BY <2>1 DEF WalkInvariant, Walking
  <2>3. ASSUME k \in start \ gone PROVE seen[k] = 1
    <3>1. PICK i \in LiveBuckets(ht) : ht.table[i].key = k
      BY <2>1, <2>3, LiveKeys DEF WalkInvariant, Walking
    <3>2. i < pos
      BY <2>1
    <3>. QED
      BY <2>1, <3>1, <3>2 DEF WalkInvariant, Walking
  <2>. QED
    BY <2>2, <2>3
<1>. QED
  BY <1>1, WalkInvariantHolds, PTL

\* The keys that are there are those that were at the beginning of the walk
\* and that the client did not erase, by key, iterator, equal_range or range;
\* and size() counts them.
THEOREM OnlyErasedAreEverGone == Spec => []OnlyErasedAreGone
<1>1. WalkInvariant => OnlyErasedAreGone
  <2>. SUFFICES ASSUME WalkInvariant, pos # NONE
                PROVE  /\ Keys(ht) = start \ gone
                       /\ size(ht) = Cardinality(start \ gone)
    BY DEF OnlyErasedAreGone
  <2>1. Keys(ht) = start \ gone
    BY DEF WalkInvariant, Walking
  <2>2. Cardinality(Keys(ht)) = Cardinality(LiveBuckets(ht))
    <3>. DEFINE key == [i \in LiveBuckets(ht) |-> ht.table[i].key]
    <3>1. key \in Bijection(LiveBuckets(ht), Keys(ht))
      BY LiveKeys DEF WalkInvariant, Bijection, Injection, Surjection, IsInjective
    <3>2. IsFiniteSet(LiveBuckets(ht))
      BY LiveBucketsFinite, Fields DEF WalkInvariant, Tabled, Sound
    <3>. HIDE DEF key
    <3>3. ExistsBijection(LiveBuckets(ht), Keys(ht))
      BY <3>1 DEF ExistsBijection
    <3>. QED
      BY <3>2, <3>3, FS_Bijection
  <2>3. Cardinality(LiveBuckets(ht)) = size(ht)
    BY LiveCount DEF WalkInvariant, Tabled, Sound
  <2>. QED
    BY <2>1, <2>2, <2>3
<1>. QED
  BY <1>1, WalkInvariantHolds, PTL

=============================================================================
