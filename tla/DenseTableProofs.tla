-------------------------- MODULE DenseTableProofs --------------------------
(***************************************************************************)
(* What the methods of dense_hashtable that rehash make of a table's       *)
(* objects: sizes that have room, and tables in which each object is       *)
(* again, once, and where its key's search finds it.                       *)
(*                                                                         *)
(* What every method of dense_hashtable keeps true of a table: its fields  *)
(* have their types, its counters count, its size leaves room for as many  *)
(* objects as the allocator allows, no key is there twice, and every live  *)
(* bucket is reached by the search for its key.  Sound is inductive, the   *)
(* four parts only together: a rehash needs the counters to have room for  *)
(* the objects, the counters need a search that misses no object, and so   *)
(* on.                                                                     *)
(***************************************************************************)
EXTENDS DenseHashtable, ProbingProofs

-----------------------------------------------------------------------------
(* Searching.                                                              *)

\* The probes for a key see every bucket.
LEMMA ProbesEveryBucket ==
  ASSUME NEW n \in BucketCounts, NEW k \in Key
  PROVE  {Probe(k, i, n) : i \in 0 .. n - 1} = 0 .. n - 1
<1>1. Hash[k] \in Nat
  BY KeysAssumption
<1>2. \A i \in 0 .. n - 1 : Probe(k, i, n) = Probed(Hash[k], i, n)
  BY DEF Probe, Probed, Triangle
<1>. QED
  BY <1>1, <1>2, ProbesSeeAll

\* A search ends wherever there is an empty bucket to end it, for any key and
\* any hash values, whatever else the table holds: the assertion "Hashtable is
\* full" of find_position (densehashtable.h 851) can fail in a full table only.
THEOREM SearchFindsRoom ==
  ASSUME NEW n \in BucketCounts, NEW t \in TableOf(n), NEW k \in Key,
         NEW e \in Buckets(t), test_empty(t, e)
  PROVE  ~search_fails(find_position(t, k))
<1>. DEFINE at(i)    == Probe(k, i, t.num_buckets)
            holds(i) == /\ ~test_empty(t, at(i)) /\ ~test_deleted(t, at(i))
                        /\ t.table[at(i)].key = k
            stops    == {i \in Buckets(t) : test_empty(t, at(i)) \/ holds(i)}
            reusable(last) == {i \in 0 .. last : test_deleted(t, at(i))} \cup {last}
            last     == Min(stops)
            place    == Min(reusable(last))
<1>1. t.num_buckets = n /\ n \in Nat /\ n <= SizeMax /\ SizeMax \in Nat
  BY SizesAssumption DEF TableOf, BucketCounts
<1>2. \A i \in 0 .. n - 1 : at(i) \in 0 .. n - 1
  BY <1>1, ProbesEveryBucket
<1>3. stops # {}
  <2>1. PICK i \in 0 .. n - 1 : at(i) = e
    <3>1. {at(i) : i \in 0 .. n - 1} = 0 .. n - 1
      BY <1>1, ProbesEveryBucket
    <3>2. e \in 0 .. n - 1
      BY <1>1 DEF Buckets
    <3>. HIDE DEF at
    <3>. QED
      BY <3>1, <3>2
  <2>. QED
    BY <1>1, <2>1 DEF Buckets
<1>4. last \in 0 .. n - 1
  <2>1. stops \in SUBSET Nat /\ stops \subseteq 0 .. n - 1
    BY <1>1 DEF Buckets
  <2>2. last \in stops
    BY <1>3, <2>1, MinIsMember
  <2>. QED
    BY <2>1, <2>2
<1>5. place \in 0 .. n - 1
  <2>. HIDE DEF last
  <2>1. reusable(last) \in SUBSET Nat /\ reusable(last) \subseteq 0 .. n - 1
        /\ reusable(last) # {}
    BY <1>1, <1>4
  <2>2. place \in reusable(last)
    BY <2>1, MinIsMember
  <2>. QED
    BY <2>1, <2>2
<1>6. at(last) # ILLEGAL_BUCKET /\ at(place) # ILLEGAL_BUCKET
  <2>1. at(last) \in 0 .. n - 1 /\ at(place) \in 0 .. n - 1
    BY <1>2, <1>4, <1>5
  <2>. QED
    BY <1>1, <2>1 DEF ILLEGAL_BUCKET
<1>7. find_position(t, k) = IF holds(last)
                            THEN [first |-> at(last), second |-> ILLEGAL_BUCKET]
                            ELSE [first |-> ILLEGAL_BUCKET, second |-> at(place)]
  BY <1>3, Zenon DEF find_position
<1>. HIDE DEF at, holds, last, place
<1>. QED
  BY <1>6, <1>7 DEF search_fails

-----------------------------------------------------------------------------
(* Rehashing.                                                              *)

\* The buckets of tab that are not empty.
InUse(tab, n, e) == {j \in 0 .. n - 1 : tab[j].key # e}

\* No bucket before j on the probe sequence of the key in j is empty: its
\* search does not end before it comes by.
Reached(tab, n, e, j) ==
  \E p \in 0 .. n - 1 :
    /\ Probe(tab[j].key, p, n) = j
    /\ \A q \in 0 .. p - 1 : tab[Probe(tab[j].key, q, n)].key # e

\* No two of the buckets of tab in use hold the same key.
NoneTwice(tab, used) ==
  \A i, j \in used : tab[i].key = tab[j].key => i = j

\* A table whose objects can be copied into one of n buckets.
Copyable(from, n) ==
  /\ from.num_buckets \in Nat /\ from.emptykey \in Key
  /\ from.table \in [0 .. from.num_buckets - 1 -> Slot]
  /\ NoneTwice(from.table, LiveBuckets(from))
  /\ Cardinality(LiveBuckets(from)) < n

\* tab holds the live objects among the first i buckets of from, each once and
\* where it is found, and nothing else.
Filled(tab, n, from, i) ==
  LET e    == from.emptykey
      done == {l \in LiveBuckets(from) : l < i}
  IN  /\ tab \in [0 .. n - 1 -> Slot]
      /\ Cardinality(InUse(tab, n, e)) = Cardinality(done)
      /\ \A j \in InUse(tab, n, e) : \E l \in done : tab[j] = from.table[l]
      /\ \A l \in done : \E j \in InUse(tab, n, e) : tab[j] = from.table[l]
      /\ NoneTwice(tab, InUse(tab, n, e))
      /\ \A j \in InUse(tab, n, e) : Reached(tab, n, e, j)

\* Where there is an empty bucket, first_empty is one, and the buckets before
\* it on the probe sequence are not.
LEMMA FirstEmpty ==
  ASSUME NEW n \in BucketCounts, NEW tab, NEW e, NEW k \in Key,
         NEW b \in 0 .. n - 1, tab[b].key = e
  PROVE  \E p \in 0 .. n - 1 :
           /\ first_empty(tab, n, e, k) = Probe(k, p, n)
           /\ Probe(k, p, n) \in 0 .. n - 1
           /\ tab[Probe(k, p, n)].key = e
           /\ \A q \in 0 .. p - 1 : tab[Probe(k, q, n)].key # e
<1>. DEFINE E == {i \in 0 .. n - 1 : tab[Probe(k, i, n)].key = e}
<1>1. n \in Nat
  BY BucketCountIsPower
<1>2. E \in SUBSET Nat /\ E # {}
  BY ProbesEveryBucket
<1>3. Min(E) \in E /\ \A m \in E : Min(E) <= m
  BY <1>2, MinIsMember
<1>4. Probe(k, Min(E), n) \in 0 .. n - 1
  BY <1>3, ProbesEveryBucket
<1>5. ASSUME NEW q \in 0 .. Min(E) - 1 PROVE tab[Probe(k, q, n)].key # e
  <2>1. Min(E) \in 0 .. n - 1
    BY <1>3
  <2>2. q \in 0 .. n - 1 /\ ~ (Min(E) <= q)
    BY <1>1, <2>1
  <2>. QED
    BY <1>3, <2>2
<1>. QED
  BY <1>3, <1>4, <1>5 DEF first_empty

\* A table with fewer objects than buckets has an empty bucket.
LEMMA SomeEmpty ==
  ASSUME NEW n \in Nat, NEW tab, NEW e, Cardinality(InUse(tab, n, e)) < n
  PROVE  \E b \in 0 .. n - 1 : tab[b].key = e
<1>1. CASE InUse(tab, n, e) = 0 .. n - 1
  <2>1. Cardinality(0 .. n - 1) = n
    BY FS_Interval
  <2>. QED
    BY <1>1, <2>1
<1>. QED
  BY <1>1 DEF InUse

\* rehash_each is the function its definition describes: one exists.
LEMMA RehashUnfolds ==
  ASSUME NEW t, NEW n, NEW from, from.num_buckets \in Nat
  PROVE  LET upto == rehash_each(t, n, from)
         IN  upto = [i \in 0 .. from.num_buckets |->
                       IF i = 0
                       THEN [j \in 0 .. n - 1 |-> EmptyBucket(t)]
                       ELSE IF i - 1 \in LiveBuckets(from)
                       THEN put(upto[i - 1], n, t.emptykey, from.table[i - 1])
                       ELSE upto[i - 1]]
<1>. DEFINE Cleared == [j \in 0 .. n - 1 |-> EmptyBucket(t)]
            Next1(tab, i) == IF i - 1 \in LiveBuckets(from)
                             THEN put(tab, n, t.emptykey, from.table[i - 1])
                             ELSE tab
            Runs(f, N) ==
              f = [i \in 0 .. N |-> IF i = 0 THEN Cleared ELSE Next1(f[i - 1], i)]
            Stuck == {N \in Nat : ~ \E f : Runs(f, N)}
<1>. HIDE DEF Cleared, Next1
<1>1. Stuck = {}
  <2>. SUFFICES ASSUME Stuck # {} PROVE FALSE
    OBVIOUS
  <2>1. PICK N \in Stuck : \A m \in Stuck : N <= m
    BY LeastNumber
  <2>2. N # 0
    <3>1. Runs([i \in 0 .. 0 |-> Cleared], 0)
      OBVIOUS
    <3>. QED
      BY <3>1
  <2>3. PICK f : Runs(f, N - 1)
    <3>1. N \in Nat
      OBVIOUS
    <3>2. N - 1 \in Nat /\ ~ (N <= N - 1)
      BY <2>2, <3>1
    <3>3. N - 1 \notin Stuck
      BY <2>1, <3>2
    <3>. QED
      BY <3>2, <3>3
  <2>. DEFINE g == [i \in 0 .. N |-> IF i = N THEN Next1(f[N - 1], N) ELSE f[i]]
  <2>4. ASSUME NEW i \in 0 .. N
        PROVE  g[i] = IF i = 0 THEN Cleared ELSE Next1(g[i - 1], i)
    <3>. N \in Nat
      OBVIOUS
    <3>1. CASE i = N
      BY <2>2, <3>1
    <3>2. CASE i # N
      <4>1. i \in 0 .. N - 1
        BY <3>2
      <4>2. f[i] = IF i = 0 THEN Cleared ELSE Next1(f[i - 1], i)
        BY <2>3, <4>1
      <4>3. g[i] = f[i] /\ (i # 0 => g[i - 1] = f[i - 1])
        BY <4>1
      <4>. QED
        BY <4>2, <4>3
    <3>. QED
      BY <3>1, <3>2
  <2>5. Runs(g, N)
    BY <2>4, Zenon
  <2>. QED
    BY <2>5
<1>2. PICK f : Runs(f, from.num_buckets)
  BY <1>1
<1>. DEFINE upto[i \in 0 .. from.num_buckets] ==
              IF i = 0
              THEN [j \in 0 .. n - 1 |-> EmptyBucket(t)]
              ELSE IF i - 1 \in LiveBuckets(from)
              THEN put(upto[i - 1], n, t.emptykey, from.table[i - 1])
              ELSE upto[i - 1]
<1>3. upto = [i \in 0 .. from.num_buckets |->
                IF i = 0
                THEN [j \in 0 .. n - 1 |-> EmptyBucket(t)]
                ELSE IF i - 1 \in LiveBuckets(from)
                THEN put(upto[i - 1], n, t.emptykey, from.table[i - 1])
                ELSE upto[i - 1]]
  BY <1>2, Zenon DEF upto, Cleared, Next1
<1>. QED
  BY <1>3, Zenon DEF rehash_each

\* A set of live buckets is a finite set of numbers.
LEMMA LiveBucketsFinite ==
  ASSUME NEW t, t.num_buckets \in Nat
  PROVE  /\ LiveBuckets(t) \subseteq 0 .. t.num_buckets - 1
         /\ IsFiniteSet(LiveBuckets(t))
         /\ \A S \in SUBSET LiveBuckets(t) :
              /\ IsFiniteSet(S) /\ Cardinality(S) \in Nat
              /\ Cardinality(S) <= Cardinality(LiveBuckets(t))
<1>1. LiveBuckets(t) \subseteq 0 .. t.num_buckets - 1
  BY DEF LiveBuckets, Buckets
<1>2. IsFiniteSet(LiveBuckets(t))
  <2>1. IsFiniteSet(0 .. t.num_buckets - 1)
    BY FS_Interval
  <2>. QED
    BY <1>1, <2>1, FS_Subset
<1>3. ASSUME NEW S \in SUBSET LiveBuckets(t)
      PROVE  /\ IsFiniteSet(S) /\ Cardinality(S) \in Nat
             /\ Cardinality(S) <= Cardinality(LiveBuckets(t))
  BY <1>2, FS_Subset, FS_CardinalityType
<1>. QED
  BY <1>1, <1>2, <1>3

\* So is one of buckets in use.
LEMMA InUseFinite ==
  ASSUME NEW n \in Nat, NEW tab, NEW e
  PROVE  IsFiniteSet(InUse(tab, n, e)) /\ Cardinality(InUse(tab, n, e)) \in Nat
<1>1. InUse(tab, n, e) \in SUBSET (0 .. n - 1)
  BY DEF InUse
<1>2. IsFiniteSet(0 .. n - 1)
  BY FS_Interval
<1>. QED
  BY <1>1, <1>2, FS_Subset, FS_CardinalityType

\* The object of the next live bucket is put in an empty bucket, where its
\* search finds it and where it cuts off no other.
LEMMA PutFills ==
  ASSUME NEW n \in BucketCounts, NEW from, Copyable(from, n), NEW tab,
         NEW i \in LiveBuckets(from), Filled(tab, n, from, i)
  PROVE  Filled(put(tab, n, from.emptykey, from.table[i]), n, from, i + 1)
<1>. DEFINE e     == from.emptykey
            obj   == from.table[i]
            Live  == LiveBuckets(from)
            done  == {l \in Live : l < i}
            done1 == {l \in Live : l < i + 1}
            used  == InUse(tab, n, e)
            tab1  == put(tab, n, e, obj)
            used1 == InUse(tab1, n, e)
<1>1. n \in Nat /\ i \in Nat /\ obj \in Slot /\ obj.key \in Key /\ obj.key # e
      /\ Live \subseteq Nat
  BY LiveBucketsFinite, BucketCountIsPower
     DEF Copyable, LiveBuckets, Buckets, Slot, test_empty
<1>2. done1 = done \cup {i} /\ i \notin done
  BY <1>1
<1>3. IsFiniteSet(done) /\ Cardinality(done) \in Nat /\ Cardinality(done) < n
  <2>1. done \in SUBSET Live
    OBVIOUS
  <2>2. /\ IsFiniteSet(done) /\ Cardinality(done) \in Nat
        /\ Cardinality(done) <= Cardinality(Live)
    BY <2>1, LiveBucketsFinite DEF Copyable
  <2>3. Cardinality(Live) \in Nat /\ Cardinality(Live) < n
    BY LiveBucketsFinite, FS_CardinalityType DEF Copyable
  <2>. QED
    BY <1>1, <2>2, <2>3
<1>4. \E b \in 0 .. n - 1 : tab[b].key = e
  BY <1>1, <1>3, SomeEmpty DEF Filled
<1>5. PICK p \in 0 .. n - 1 :
        /\ first_empty(tab, n, e, obj.key) = Probe(obj.key, p, n)
        /\ Probe(obj.key, p, n) \in 0 .. n - 1
        /\ tab[Probe(obj.key, p, n)].key = e
        /\ \A q \in 0 .. p - 1 : tab[Probe(obj.key, q, n)].key # e
  BY <1>1, <1>4, FirstEmpty
<1>. DEFINE b == Probe(obj.key, p, n)
<1>6. tab1 = [tab EXCEPT ![b] = obj]
  BY <1>5 DEF put
<1>7. tab \in [0 .. n - 1 -> Slot] /\ tab1 \in [0 .. n - 1 -> Slot]
      /\ tab1[b] = obj /\ \A j \in 0 .. n - 1 : j # b => tab1[j] = tab[j]
  BY <1>1, <1>5, <1>6 DEF Filled
<1>. HIDE DEF b, tab1, obj
<1>8. used1 = used \cup {b} /\ b \notin used
  BY <1>1, <1>5, <1>7 DEF InUse, b, obj
<1>9. Cardinality(used1) = Cardinality(done1)
  <2>1. Cardinality(used) = Cardinality(done)
    BY DEF Filled
  <2>2. Cardinality(used1) = Cardinality(used) + 1
    BY <1>1, <1>8, InUseFinite, FS_AddElement
  <2>3. Cardinality(done1) = Cardinality(done) + 1
    BY <1>2, <1>3, FS_AddElement
  <2>. QED
    BY <2>1, <2>2, <2>3
<1>10. \A j \in used : j \in 0 .. n - 1 /\ j # b /\ tab1[j] = tab[j]
  BY <1>7, <1>8 DEF InUse
<1>11. \A j \in used1 : \E l \in done1 : tab1[j] = from.table[l]
  <2>1. \A j \in used : \E l \in done : tab[j] = from.table[l]
    BY DEF Filled
  <2>2. \A j \in used : \E l \in done1 : tab1[j] = from.table[l]
    BY <1>2, <1>10, <2>1
  <2>. QED
    BY <1>2, <1>7, <1>8, <2>2 DEF obj
<1>12. \A l \in done1 : \E j \in used1 : tab1[j] = from.table[l]
  <2>1. \A l \in done : \E j \in used : tab[j] = from.table[l]
    BY DEF Filled
  <2>2. \A l \in done : \E j \in used1 : tab1[j] = from.table[l]
    BY <1>8, <1>10, <2>1
  <2>. QED
    BY <1>2, <1>7, <1>8, <2>2 DEF obj
<1>13. NoneTwice(tab1, used1)
  <2>1. ASSUME NEW j \in used, tab1[j].key = obj.key PROVE FALSE
    <3>1. PICK l \in done : tab[j] = from.table[l]
      BY DEF Filled
    <3>2. from.table[l].key = from.table[i].key
      BY <1>10, <2>1, <3>1 DEF obj
    <3>3. l = i
      BY <3>2 DEF Copyable, NoneTwice
    <3>. QED
      BY <1>2, <3>3
  <2>2. \A j1, j2 \in used : tab1[j1].key = tab1[j2].key => j1 = j2
    BY <1>10 DEF Filled, NoneTwice
  <2>. QED
    BY <1>7, <1>8, <2>1, <2>2 DEF NoneTwice
<1>14. ASSUME NEW j \in used1 PROVE Reached(tab1, n, e, j)
  <2>1. ASSUME NEW x \in 0 .. n - 1, tab[x].key # e PROVE tab1[x].key # e
    BY <1>1, <1>7, <2>1
  <2>2. \A k \in Key : \A q \in 0 .. n - 1 : Probe(k, q, n) \in 0 .. n - 1
    BY ProbesEveryBucket
  <2>3. CASE j = b
    <3>1. \A q \in 0 .. p - 1 : tab1[Probe(obj.key, q, n)].key # e
      BY <1>1, <1>5, <2>1, <2>2
    <3>2. Probe(tab1[j].key, p, n) = j
      BY <1>7, <2>3 DEF b
    <3>. QED
      BY <1>7, <2>3, <3>1, <3>2 DEF Reached
  <2>4. CASE j \in used
    <3>1. PICK r \in 0 .. n - 1 :
            /\ Probe(tab[j].key, r, n) = j
            /\ \A q \in 0 .. r - 1 : tab[Probe(tab[j].key, q, n)].key # e
      BY <2>4 DEF Filled, Reached
    <3>2. tab1[j].key = tab[j].key /\ tab[j].key \in Key
      BY <1>7, <1>10, <2>4 DEF Slot
    <3>3. \A q \in 0 .. r - 1 : tab1[Probe(tab[j].key, q, n)].key # e
      BY <1>1, <2>1, <2>2, <3>1, <3>2
    <3>. QED
      BY <3>1, <3>2, <3>3 DEF Reached
  <2>. QED
    BY <1>8, <2>3, <2>4
<1>. QED
  BY <1>7, <1>9, <1>11, <1>12, <1>13, <1>14 DEF Filled, tab1, obj

\* A bucket that is not live adds nothing.
LEMMA SkipFills ==
  ASSUME NEW n, NEW from, from.num_buckets \in Nat, NEW tab, NEW i \in Nat,
         i \notin LiveBuckets(from), Filled(tab, n, from, i)
  PROVE  Filled(tab, n, from, i + 1)
<1>1. LiveBuckets(from) \subseteq Nat
  BY LiveBucketsFinite
<1>2. {l \in LiveBuckets(from) : l < i + 1} = {l \in LiveBuckets(from) : l < i}
  BY <1>1
<1>. QED
  BY <1>2 DEF Filled

\* The rehashed table holds every live object of the other, once and where it
\* is found, and nothing else.
LEMMA RehashFills ==
  ASSUME NEW n \in BucketCounts, NEW from, Copyable(from, n),
         NEW t, t.emptykey = from.emptykey
  PROVE  Filled(rehashed(t, n, from), n, from, from.num_buckets)
<1>. DEFINE N    == from.num_buckets
            each == rehash_each(t, n, from)
            Bad  == {i \in 0 .. N : ~Filled(each[i], n, from, i)}
<1>1. N \in Nat
  BY DEF Copyable
<1>2. /\ each[0] = [j \in 0 .. n - 1 |-> EmptyBucket(t)]
      /\ \A i \in 1 .. N :
           each[i] = IF i - 1 \in LiveBuckets(from)
                     THEN put(each[i - 1], n, from.emptykey, from.table[i - 1])
                     ELSE each[i - 1]
  <2>1. each = [i \in 0 .. N |->
                  IF i = 0
                  THEN [j \in 0 .. n - 1 |-> EmptyBucket(t)]
                  ELSE IF i - 1 \in LiveBuckets(from)
                  THEN put(each[i - 1], n, t.emptykey, from.table[i - 1])
                  ELSE each[i - 1]]
    BY <1>1, RehashUnfolds
  <2>. HIDE DEF each
  <2>2. 0 \in 0 .. N /\ \A i \in 1 .. N : i \in 0 .. N /\ i # 0
    BY <1>1
  <2>. QED
    BY <2>1, <2>2, Zenon
<1>. HIDE DEF each, N
<1>3. Filled(each[0], n, from, 0)
  <2>. DEFINE tab == [j \in 0 .. n - 1 |-> EmptyBucket(t)]
  <2>1. tab \in [0 .. n - 1 -> Slot] /\ InUse(tab, n, from.emptykey) = {}
    BY KeysAssumption DEF EmptyBucket, Slot, InUse, Copyable
  <2>2. {l \in LiveBuckets(from) : l < 0} = {}
    BY LiveBucketsFinite DEF Copyable
  <2>. QED
    BY <1>2, <2>1, <2>2 DEF Filled, NoneTwice
<1>4. Bad = {}
  <2>. SUFFICES ASSUME Bad # {} PROVE FALSE
    OBVIOUS
  <2>. Bad \in SUBSET Nat
    OBVIOUS
  <2>1. PICK i \in Bad : \A m \in Bad : i <= m
    BY LeastNumber
  <2>2. i # 0
    BY <1>3
  <2>3. i \in 1 .. N /\ i - 1 \in 0 .. N /\ i - 1 \in Nat /\ ~ (i <= i - 1)
        /\ (i - 1) + 1 = i
    BY <1>1, <2>2
  <2>4. Filled(each[i - 1], n, from, i - 1)
    BY <2>1, <2>3
  <2>5. CASE i - 1 \in LiveBuckets(from)
    <3>1. Filled(put(each[i - 1], n, from.emptykey, from.table[i - 1]), n, from, (i - 1) + 1)
      BY <2>4, <2>5, PutFills
    <3>. QED
      BY <1>2, <2>3, <2>5, <3>1
  <2>6. CASE i - 1 \notin LiveBuckets(from)
    <3>1. Filled(each[i - 1], n, from, (i - 1) + 1)
      BY <1>1, <2>3, <2>4, <2>6, SkipFills DEF N
    <3>. QED
      BY <1>2, <2>3, <2>6, <3>1
  <2>. QED
    BY <2>5, <2>6
<1>. QED
  BY <1>1, <1>4 DEF rehashed, each, N

\* insert_each is the function its definition describes: one exists.
LEMMA InsertEachUnfolds ==
  ASSUME NEW t, NEW objs, Len(objs) \in Nat
  PROVE  insert_each(t, objs) =
           [i \in 0 .. Len(objs) |->
              IF i = 0 THEN Outcome(t, "ok")
                       ELSE insert_next(insert_each(t, objs)[i - 1], objs[i])]
<1>. DEFINE Runs(f, n) ==
              f = [i \in 0 .. n |->
                     IF i = 0 THEN Outcome(t, "ok") ELSE insert_next(f[i - 1], objs[i])]
            Stuck == {n \in Nat : ~ \E f : Runs(f, n)}
<1>1. Stuck = {}
  <2>. SUFFICES ASSUME Stuck # {} PROVE FALSE
    OBVIOUS
  <2>1. PICK n \in Stuck : \A m \in Stuck : n <= m
    BY LeastNumber
  <2>2. n # 0
    <3>1. Runs([i \in 0 .. 0 |-> Outcome(t, "ok")], 0)
      OBVIOUS
    <3>. QED
      BY <3>1
  <2>3. PICK f : Runs(f, n - 1)
    <3>1. n \in Nat
      OBVIOUS
    <3>2. n - 1 \in Nat /\ ~ (n <= n - 1)
      BY <2>2, <3>1
    <3>3. n - 1 \notin Stuck
      BY <2>1, <3>2
    <3>. QED
      BY <3>2, <3>3
  <2>. DEFINE g == [i \in 0 .. n |-> IF i = n THEN insert_next(f[n - 1], objs[n]) ELSE f[i]]
  <2>4. ASSUME NEW i \in 0 .. n
        PROVE  g[i] = IF i = 0 THEN Outcome(t, "ok") ELSE insert_next(g[i - 1], objs[i])
    <3>. n \in Nat
      OBVIOUS
    <3>1. CASE i = n
      BY <2>2, <3>1
    <3>2. CASE i # n
      <4>1. i \in 0 .. n - 1
        BY <3>2
      <4>2. f[i] = IF i = 0 THEN Outcome(t, "ok") ELSE insert_next(f[i - 1], objs[i])
        BY <2>3, <4>1
      <4>3. g[i] = f[i] /\ (i # 0 => g[i - 1] = f[i - 1])
        BY <4>1
      <4>. QED
        BY <4>2, <4>3
    <3>. QED
      BY <3>1, <3>2
  <2>5. Runs(g, n)
    BY <2>4, Zenon
  <2>. QED
    BY <2>5
<1>2. PICK f : Runs(f, Len(objs))
  BY <1>1
<1>. DEFINE upto[i \in 0 .. Len(objs)] ==
              IF i = 0 THEN Outcome(t, "ok") ELSE insert_next(upto[i - 1], objs[i])
<1>3. upto = [i \in 0 .. Len(objs) |->
                IF i = 0 THEN Outcome(t, "ok") ELSE insert_next(upto[i - 1], objs[i])]
  BY <1>2, Zenon DEF upto
<1>. QED
  BY <1>3, Zenon DEF insert_each

\* The objects in a table.
Objects(t) == {t.table[i] : i \in LiveBuckets(t)}

\* Some size has room for as many objects as there can be.
RoomFor(s) == \E n \in BucketCounts : MaxSize < enlarge_size(s, n)

\* The buckets with the deleted key, which are deleted if that is in use.
Marked(t) ==
  IF t.settings.use_deleted THEN {i \in Buckets(t) : t.table[i].key = t.delkey} ELSE {}

\* A table with buckets: counters, keys and searches are right.
Populated(t) ==
  /\ t.table \in [Buckets(t) -> Slot]
  /\ t.settings.use_deleted => t.delkey # t.emptykey
  /\ t.num_elements = Cardinality(InUse(t.table, t.num_buckets, t.emptykey))
  /\ t.num_deleted = Cardinality(Marked(t))
  /\ NoneTwice(t.table, LiveBuckets(t))
  /\ \A j \in LiveBuckets(t) : Reached(t.table, t.num_buckets, t.emptykey, j)

\* A table before set_empty_key.
Blank(t) == t.table = NULL /\ t.num_elements = 0 /\ t.num_deleted = 0

Sound(t) ==
  /\ IsTable(t)
  /\ RoomFor(t.settings)
  /\ size(t) <= MaxSize
  /\ IF t.settings.use_empty THEN Populated(t) ELSE Blank(t)

-----------------------------------------------------------------------------
(* Types and counts.                                                       *)

\* The fields of a table, named.
LEMMA Fields ==
  ASSUME NEW t, IsTable(t)
  PROVE  /\ t.num_buckets \in BucketCounts /\ t.num_buckets \in Nat
         /\ t \in TableOf(t.num_buckets)
         /\ t.settings \in Settings /\ t.settings.enlarge_factor \in Percent
         /\ t.emptykey \in Key /\ t.delkey \in Key
         /\ t.num_elements \in Nat /\ t.num_deleted \in Nat
  BY BucketCountIsPower DEF IsTable, TableOf, Settings

\* New thresholds are numbers; nothing else changes but consider_shrink.
LEMMA ResetTyped ==
  ASSUME NEW s \in Settings, NEW n \in Nat
  PROVE  /\ reset_thresholds(s, n) \in Settings
         /\ reset_thresholds(s, n).enlarge_factor = s.enlarge_factor
         /\ reset_thresholds(s, n).use_empty = s.use_empty
         /\ reset_thresholds(s, n).use_deleted = s.use_deleted
<1>1. \A f \in Percent : (n * f) \div 100 \in Nat
  <2>1. \A f \in Percent : n * f \in Nat
    BY DEF Percent
  <2>2. \A x \in Nat : x \div 100 \in Nat
    OBVIOUS
  <2>. QED
    BY <2>1, <2>2
<1>2. enlarge_size(s, n) \in Nat /\ shrink_size(s, n) \in Nat
  BY <1>1 DEF enlarge_size, shrink_size, Settings
<1>. QED
  BY <1>2 DEF reset_thresholds, Settings

\* Only the grow factor matters for room.
LEMMA SameRoom ==
  ASSUME NEW s, NEW u, RoomFor(s), u.enlarge_factor = s.enlarge_factor
  PROVE  RoomFor(u)
  BY DEF RoomFor, enlarge_size

\* Where num_deleted counts, the live buckets are those in use and not marked.
LEMMA LiveAreUnmarked ==
  ASSUME NEW t, IsTable(t), t.table \in [Buckets(t) -> Slot],
         t.settings.use_deleted => t.delkey # t.emptykey,
         t.num_deleted = Cardinality(Marked(t))
  PROVE  /\ LiveBuckets(t) = InUse(t.table, t.num_buckets, t.emptykey) \ Marked(t)
         /\ Marked(t) \subseteq InUse(t.table, t.num_buckets, t.emptykey)
         /\ \A i \in Buckets(t) : test_deleted(t, i) <=> i \in Marked(t)
<1>. DEFINE used == InUse(t.table, t.num_buckets, t.emptykey)
<1>1. t.num_buckets \in Nat /\ t.num_deleted \in Nat
  BY Fields
<1>2. used = {i \in Buckets(t) : ~test_empty(t, i)}
  BY DEF InUse, Buckets, test_empty
<1>3. Marked(t) \subseteq used
  BY DEF Marked, InUse, Buckets
<1>4. IsFiniteSet(Marked(t))
  BY <1>1, <1>3, InUseFinite, FS_Subset
<1>5. \A i \in Buckets(t) : test_deleted(t, i) <=> i \in Marked(t)
  <2>1. ASSUME NEW i \in Marked(t) PROVE t.num_deleted > 0 /\ t.table[i].key = t.delkey
    <3>1. Cardinality(Marked(t)) # 0
      BY <1>4, <2>1, FS_EmptySet
    <3>. QED
      BY <1>1, <3>1 DEF Marked
  <2>2. ASSUME NEW i \in Buckets(t), i \notin Marked(t), test_deleted(t, i) PROVE FALSE
    <3>1. t.num_deleted > 0 /\ t.table[i].key = t.delkey
      BY <2>2 DEF test_deleted
    <3>2. Marked(t) = {}
      BY <2>2, <3>1 DEF Marked
    <3>3. Cardinality(Marked(t)) = 0
      BY <3>2, FS_EmptySet
    <3>. QED
      BY <3>1, <3>3
  <2>. QED
    BY <2>1, <2>2 DEF test_deleted
<1>6. t.table # NULL
  BY KeysAssumption, Fields DEF Buckets, Slot
<1>7. LiveBuckets(t) = used \ Marked(t)
  BY <1>2, <1>5, <1>6 DEF LiveBuckets
<1>. QED
  BY <1>3, <1>5, <1>7

\* So size() counts them.
LEMMA LiveCount ==
  ASSUME NEW t, IsTable(t), Populated(t)
  PROVE  /\ LiveBuckets(t) = InUse(t.table, t.num_buckets, t.emptykey) \ Marked(t)
         /\ Marked(t) \subseteq InUse(t.table, t.num_buckets, t.emptykey)
         /\ Cardinality(LiveBuckets(t)) = size(t)
         /\ size(t) \in Nat
         /\ \A i \in Buckets(t) : test_deleted(t, i) <=> i \in Marked(t)
<1>. DEFINE used == InUse(t.table, t.num_buckets, t.emptykey)
<1>1. /\ LiveBuckets(t) = used \ Marked(t) /\ Marked(t) \subseteq used
      /\ \A i \in Buckets(t) : test_deleted(t, i) <=> i \in Marked(t)
  BY LiveAreUnmarked DEF Populated
<1>2. IsFiniteSet(used)
  BY Fields, InUseFinite
<1>3. Cardinality(LiveBuckets(t)) = Cardinality(used) - Cardinality(Marked(t))
  <2>1. Cardinality(used \ Marked(t)) = Cardinality(used) - Cardinality(used \cap Marked(t))
    BY <1>2, FS_Difference
  <2>2. used \cap Marked(t) = Marked(t)
    BY <1>1
  <2>. QED
    BY <1>1, <2>1, <2>2
<1>4. Cardinality(LiveBuckets(t)) \in Nat
  BY <1>1, <1>2, FS_Subset, FS_CardinalityType
<1>. QED
  BY <1>1, <1>3, <1>4 DEF size, Populated

-----------------------------------------------------------------------------
(* Rehashing.                                                              *)

\* As long as there is room for MaxSize objects, min_buckets finds a size.
LEMMA RoomyEnough ==
  ASSUME NEW s \in Settings, RoomFor(s), NEW num \in Nat, num <= MaxSize,
         NEW m \in BucketCounts, NEW wanted \in Nat, wanted <= m
  PROVE  /\ min_buckets(s, num, wanted) \in BucketCounts
         /\ wanted <= min_buckets(s, num, wanted)
         /\ num < enlarge_size(s, min_buckets(s, num, wanted))
         /\ num < min_buckets(s, num, wanted)
<1>1. s.enlarge_factor \in Percent
  BY DEF Settings
<1>2. PICK n \in BucketCounts : MaxSize < enlarge_size(s, n)
  BY DEF RoomFor
<1>3. num < enlarge_size(s, n)
  <2>1. n \in Nat /\ enlarge_size(s, n) \in Nat
    BY <1>1, BucketCountIsPower, EnlargeGrows
  <2>. QED
    BY <1>2, <2>1, KeysAssumption
<1>. DEFINE b == min_buckets(s, num, wanted)
<1>4. b \in BucketCounts /\ wanted <= b /\ num < enlarge_size(s, b)
  BY <1>1, <1>3, MinBuckets
<1>. HIDE DEF b
<1>5. b \in Nat /\ enlarge_size(s, b) \in Nat /\ enlarge_size(s, b) <= b
  BY <1>1, <1>4, BucketCountIsPower, EnlargeGrows
<1>6. num < b
  BY <1>4, <1>5
<1>. QED
  BY <1>4, <1>6 DEF b

\* The fields of a rehashed table.
LEMMA CopyFields ==
  ASSUME NEW t, IsTable(t), NEW from, NEW n \in BucketCounts,
         rehashed(t, n, from) \in [0 .. n - 1 -> Slot],
         Cardinality(LiveBuckets(from)) \in Nat
  PROVE  LET u == copy_to_size(t, from, n)
         IN  /\ IsTable(u)
             /\ u.settings = reset_thresholds(t.settings, n)
             /\ u.emptykey = t.emptykey /\ u.delkey = t.delkey
             /\ u.num_deleted = 0 /\ u.num_elements = Cardinality(LiveBuckets(from))
             /\ u.num_buckets = n /\ u.table = rehashed(t, n, from)
<1>1. reset_thresholds(t.settings, n) \in Settings
  BY Fields, BucketCountIsPower, ResetTyped
<1>2. t \in TableOf(t.num_buckets)
  BY Fields
<1>3. copy_to_size(t, from, n) \in TableOf(n)
  BY <1>1, <1>2 DEF copy_to_size, clear_to_size, TableOf
<1>4. IsTable(copy_to_size(t, from, n))
  BY <1>3 DEF IsTable
<1>. QED
  BY <1>2, <1>4 DEF copy_to_size, clear_to_size, TableOf

\* A copy, into a size with room, is as sound as the original, and has its
\* objects and no deleted buckets.
LEMMA CopyToSizeSound ==
  ASSUME NEW from, IsTable(from), Populated(from), size(from) <= MaxSize,
         NEW t, IsTable(t), RoomFor(t.settings), t.settings.use_empty,
         t.settings.use_deleted = from.settings.use_deleted,
         t.emptykey = from.emptykey, t.delkey = from.delkey,
         NEW n \in BucketCounts, size(from) < n
  PROVE  LET u == copy_to_size(t, from, n)
         IN  /\ Sound(u) /\ u.num_deleted = 0 /\ u.num_elements = size(from)
             /\ u.num_buckets = n
             /\ u.settings = reset_thresholds(t.settings, n)
             /\ u.emptykey = t.emptykey /\ u.delkey = t.delkey
             /\ Objects(u) = Objects(from)
<1>. DEFINE u   == copy_to_size(t, from, n)
            tab == rehashed(t, n, from)
            e   == from.emptykey
<1>1. /\ from.num_buckets \in Nat /\ e \in Key
      /\ Cardinality(LiveBuckets(from)) = size(from) /\ size(from) \in Nat
      /\ LiveBuckets(from) = InUse(from.table, from.num_buckets, e) \ Marked(from)
  BY Fields, LiveCount
<1>2. Copyable(from, n)
  BY <1>1 DEF Copyable, Populated, Buckets
<1>3. Filled(tab, n, from, from.num_buckets)
  BY <1>2, RehashFills
<1>4. {l \in LiveBuckets(from) : l < from.num_buckets} = LiveBuckets(from)
  BY <1>1, LiveBucketsFinite
<1>. HIDE DEF tab
<1>5. /\ tab \in [0 .. n - 1 -> Slot]
      /\ Cardinality(InUse(tab, n, e)) = Cardinality(LiveBuckets(from))
      /\ \A j \in InUse(tab, n, e) : \E l \in LiveBuckets(from) : tab[j] = from.table[l]
      /\ \A l \in LiveBuckets(from) : \E j \in InUse(tab, n, e) : tab[j] = from.table[l]
      /\ NoneTwice(tab, InUse(tab, n, e))
      /\ \A j \in InUse(tab, n, e) : Reached(tab, n, e, j)
  BY <1>3, <1>4 DEF Filled
<1>6. /\ IsTable(u)
      /\ u.settings = reset_thresholds(t.settings, n)
      /\ u.emptykey = e /\ u.delkey = from.delkey
      /\ u.num_deleted = 0 /\ u.num_elements = size(from)
      /\ u.num_buckets = n /\ u.table = tab
  <2>1. Cardinality(LiveBuckets(from)) \in Nat /\ rehashed(t, n, from) \in [0 .. n - 1 -> Slot]
    BY <1>1, <1>5 DEF tab
  <2>2. /\ IsTable(u)
        /\ u.settings = reset_thresholds(t.settings, n)
        /\ u.emptykey = t.emptykey /\ u.delkey = t.delkey
        /\ u.num_deleted = 0 /\ u.num_elements = Cardinality(LiveBuckets(from))
        /\ u.num_buckets = n /\ u.table = rehashed(t, n, from)
    BY <2>1, CopyFields
  <2>. HIDE DEF u
  <2>. QED
    BY <1>1, <2>2 DEF tab
<1>. HIDE DEF u
<1>7. /\ u.settings.use_empty /\ u.settings.use_deleted = from.settings.use_deleted
      /\ RoomFor(u.settings)
  <2>1. t.settings \in Settings /\ n \in Nat
    BY Fields, BucketCountIsPower
  <2>. QED
    BY <1>6, <2>1, ResetTyped, SameRoom
<1>8. Marked(u) = {}
  <2>. SUFFICES ASSUME NEW j \in Marked(u) PROVE FALSE
    OBVIOUS
  <2>1. /\ from.settings.use_deleted /\ j \in 0 .. n - 1 /\ tab[j].key = from.delkey
        /\ from.delkey # e
    BY <1>6, <1>7 DEF Marked, Buckets, Populated
  <2>2. j \in InUse(tab, n, e)
    BY <2>1 DEF InUse
  <2>3. PICK l \in LiveBuckets(from) : tab[j] = from.table[l]
    BY <1>5, <2>2
  <2>4. l \in Buckets(from)
    BY <1>1 DEF InUse, Buckets
  <2>5. l \in Marked(from)
    BY <2>1, <2>3, <2>4 DEF Marked
  <2>. QED
    BY <1>1, <2>3, <2>5
<1>9. LiveBuckets(u) = InUse(tab, n, e)
  <2>1. tab # NULL
    BY <1>5, KeysAssumption DEF Slot
  <2>. QED
    BY <1>6, <2>1 DEF LiveBuckets, InUse, Buckets, test_empty, test_deleted
<1>10. Populated(u)
  <2>1. Cardinality(Marked(u)) = 0
    BY <1>8, FS_EmptySet
  <2>2. u.table \in [Buckets(u) -> Slot]
    BY <1>5, <1>6 DEF Buckets
  <2>3. u.settings.use_deleted => u.delkey # u.emptykey
    BY <1>6, <1>7 DEF Populated
  <2>. QED
    BY <1>1, <1>5, <1>6, <1>9, <2>1, <2>2, <2>3 DEF Populated
<1>11. size(u) <= MaxSize
  BY <1>1, <1>6 DEF size
<1>12. Objects(u) = Objects(from)
  BY <1>5, <1>6, <1>9 DEF Objects
<1>13. Sound(u)
  BY <1>6, <1>7, <1>10, <1>11 DEF Sound
<1>. QED
  BY <1>6, <1>12, <1>13 DEF u

-----------------------------------------------------------------------------
(* Copying, exchanging and clearing.                                       *)

\* u has the objects, the reserved keys and the grow factor of t.
SameMap(u, t) ==
  /\ u.emptykey = t.emptykey /\ u.delkey = t.delkey
  /\ u.settings.use_empty = t.settings.use_empty
  /\ u.settings.use_deleted = t.settings.use_deleted
  /\ u.settings.enlarge_factor = t.settings.enlarge_factor
  /\ Objects(u) = Objects(t)
  /\ size(u) = size(t)

\* A sound table's size is a number the allocator allows.
LEMMA SizeFits ==
  ASSUME NEW t, Sound(t)
  PROVE  size(t) \in Nat /\ size(t) <= MaxSize
<1>1. CASE t.settings.use_empty
  BY <1>1, LiveCount DEF Sound
<1>2. CASE ~t.settings.use_empty
  BY <1>2, KeysAssumption DEF Sound, Blank, size
<1>. QED
  BY <1>1, <1>2

\* A change of thresholds, or of the wish to shrink, changes nothing else.
LEMMA SettingsOnly ==
  ASSUME NEW t, Sound(t), NEW u, IsTable(u),
         u.table = t.table, u.num_buckets = t.num_buckets,
         u.emptykey = t.emptykey, u.delkey = t.delkey,
         u.num_elements = t.num_elements, u.num_deleted = t.num_deleted,
         u.settings.enlarge_factor = t.settings.enlarge_factor,
         u.settings.use_empty = t.settings.use_empty,
         u.settings.use_deleted = t.settings.use_deleted
  PROVE  Sound(u) /\ SameMap(u, t)
<1>1. LiveBuckets(u) = LiveBuckets(t) /\ Buckets(u) = Buckets(t) /\ Marked(u) = Marked(t)
      /\ size(u) = size(t)
  BY DEF LiveBuckets, Buckets, Marked, test_empty, test_deleted, size
<1>2. Populated(t) => Populated(u)
  BY <1>1 DEF Populated
<1>3. Blank(t) => Blank(u)
  BY DEF Blank
<1>4. RoomFor(u.settings)
  BY SameRoom DEF Sound
<1>. QED
  BY <1>1, <1>2, <1>3, <1>4 DEF Sound, SameMap, Objects

\* What swap hands over.
LEMMA SwappedSound ==
  ASSUME NEW t, Sound(t)
  PROVE  /\ Sound(swapped(t)) /\ SameMap(swapped(t), t)
         /\ swapped(t).num_deleted = t.num_deleted
         /\ swapped(t).num_elements = t.num_elements
         /\ swapped(t).num_buckets = t.num_buckets
         /\ swapped(t).settings = reset_thresholds(t.settings, t.num_buckets)
<1>. DEFINE u == swapped(t)
<1>1. t.settings \in Settings /\ t.num_buckets \in Nat /\ t \in TableOf(t.num_buckets)
      /\ t.num_buckets \in BucketCounts
  BY Fields DEF Sound
<1>2. reset_thresholds(t.settings, t.num_buckets) \in Settings
  BY <1>1, ResetTyped
<1>3. /\ u.table = t.table /\ u.num_buckets = t.num_buckets
      /\ u.emptykey = t.emptykey /\ u.delkey = t.delkey
      /\ u.num_elements = t.num_elements /\ u.num_deleted = t.num_deleted
      /\ u.settings = reset_thresholds(t.settings, t.num_buckets)
  BY <1>1 DEF swapped, TableOf
<1>4. IsTable(u)
  BY <1>1, <1>2 DEF swapped, TableOf, IsTable
<1>. HIDE DEF u
<1>5. Sound(u) /\ SameMap(u, t)
  BY <1>1, <1>3, <1>4, ResetTyped, SettingsOnly
<1>. QED
  BY <1>3, <1>5 DEF u

\* The copy of a table, into another with the same settings and reserved keys.
LEMMA CopyFromSound ==
  ASSUME NEW from, Sound(from), from.settings.use_empty,
         NEW t, IsTable(t), t.settings = from.settings,
         t.emptykey = from.emptykey, t.delkey = from.delkey,
         NEW wanted \in BucketCounts
  PROVE  LET u == copy_from(t, from, wanted)
         IN  /\ Sound(u) /\ SameMap(u, from) /\ u.num_deleted = 0
             /\ wanted <= u.num_buckets /\ u.num_elements < u.num_buckets
<1>. DEFINE n == min_buckets(t.settings, size(from), wanted)
            u == copy_to_size(t, from, n)
<1>1. size(from) \in Nat /\ size(from) <= MaxSize /\ t.settings \in Settings
      /\ RoomFor(t.settings)
  BY SizeFits, Fields DEF Sound
<1>2. wanted \in Nat /\ wanted <= wanted
  BY BucketCountIsPower
<1>3. n \in BucketCounts /\ wanted <= n /\ size(from) < n
  BY <1>1, <1>2, RoomyEnough
<1>. HIDE DEF n
<1>4. /\ Sound(u) /\ u.num_deleted = 0 /\ u.num_elements = size(from)
      /\ u.num_buckets = n
      /\ u.settings = reset_thresholds(t.settings, n)
      /\ u.emptykey = t.emptykey /\ u.delkey = t.delkey
      /\ Objects(u) = Objects(from)
  <2>1. IsTable(from) /\ Populated(from) /\ t.settings.use_empty
        /\ t.settings.use_deleted = from.settings.use_deleted
    BY DEF Sound
  <2>. QED
    BY <1>1, <1>3, <2>1, CopyToSizeSound DEF u
<1>. HIDE DEF u
<1>5. size(u) = size(from)
  BY <1>1, <1>4 DEF size
<1>6. u.settings.use_empty = from.settings.use_empty
      /\ u.settings.use_deleted = from.settings.use_deleted
      /\ u.settings.enlarge_factor = from.settings.enlarge_factor
  <2>1. n \in Nat
    BY <1>3, BucketCountIsPower
  <2>2. /\ reset_thresholds(t.settings, n).use_empty = t.settings.use_empty
        /\ reset_thresholds(t.settings, n).use_deleted = t.settings.use_deleted
        /\ reset_thresholds(t.settings, n).enlarge_factor = t.settings.enlarge_factor
    BY <1>1, <2>1, ResetTyped
  <2>. QED
    BY <1>4, <2>2
<1>7. /\ Sound(u) /\ SameMap(u, from) /\ u.num_deleted = 0
      /\ wanted <= u.num_buckets /\ u.num_elements < u.num_buckets
  BY <1>3, <1>4, <1>5, <1>6 DEF SameMap
<1>. QED
  BY <1>7 DEF copy_from, u, n

\* The copy constructor, with an empty key or without.
LEMMA CopyOfSound ==
  ASSUME NEW from, Sound(from), NEW wanted \in BucketCounts
  PROVE  LET u == copy_of(from, wanted)
         IN  /\ Sound(u) /\ SameMap(u, from) /\ u.num_deleted = 0
             /\ wanted <= u.num_buckets /\ u.num_elements < u.num_buckets
<1>. DEFINE n == min_buckets(from.settings, size(from), wanted)
            u == no_table_of(from, n)
<1>1. CASE from.settings.use_empty
  BY <1>1, CopyFromSound DEF copy_of, Sound
<1>2. CASE ~from.settings.use_empty
  <2>1. size(from) \in Nat /\ size(from) <= MaxSize /\ from.settings \in Settings
        /\ RoomFor(from.settings) /\ from \in TableOf(from.num_buckets)
    BY SizeFits, Fields DEF Sound
  <2>2. wanted \in Nat /\ wanted <= wanted
    BY BucketCountIsPower
  <2>3. n \in BucketCounts /\ n \in Nat /\ wanted <= n /\ size(from) < n
    BY <2>1, <2>2, RoomyEnough, BucketCountIsPower
  <2>. HIDE DEF n
  <2>4. reset_thresholds(from.settings, n) \in Settings
    BY <2>1, <2>3, ResetTyped
  <2>5. IsTable(u)
    BY <2>1, <2>3, <2>4 DEF no_table_of, TableOf, IsTable
  <2>6. /\ u.table = NULL /\ u.num_elements = 0 /\ u.num_deleted = 0
        /\ u.emptykey = from.emptykey /\ u.delkey = from.delkey
        /\ u.settings = reset_thresholds(from.settings, n) /\ u.num_buckets = n
    BY <2>1 DEF no_table_of, TableOf
  <2>. HIDE DEF u
  <2>7. /\ u.settings.enlarge_factor = from.settings.enlarge_factor
        /\ u.settings.use_empty = from.settings.use_empty
        /\ u.settings.use_deleted = from.settings.use_deleted
    BY <2>1, <2>3, <2>6, ResetTyped
  <2>8. from.table = NULL /\ size(from) = 0 /\ size(u) = 0
    BY <1>2, <2>6 DEF Sound, Blank, size
  <2>9. Objects(u) = Objects(from)
    BY <2>6, <2>8 DEF Objects, LiveBuckets
  <2>10. RoomFor(u.settings)
    BY <2>1, <2>7, SameRoom
  <2>11. size(u) <= MaxSize
    BY <2>8, KeysAssumption
  <2>12. Sound(u)
    BY <1>2, <2>5, <2>6, <2>7, <2>10, <2>11 DEF Sound, Blank
  <2>13. SameMap(u, from)
    BY <2>6, <2>7, <2>8, <2>9 DEF SameMap
  <2>. QED
    BY <1>2, <2>3, <2>6, <2>8, <2>12, <2>13 DEF copy_of, u, n
<1>. QED
  BY <1>1, <1>2

\* What every rehash of a table leaves in its place.
LEMMA RehashSound ==
  ASSUME NEW t, Sound(t), NEW wanted \in BucketCounts
  PROVE  LET u == swapped(copy_of(t, wanted))
         IN  /\ Sound(u) /\ SameMap(u, t) /\ u.num_deleted = 0
             /\ wanted <= u.num_buckets /\ u.num_elements < u.num_buckets
             /\ u.settings.enlarge_threshold = enlarge_size(u.settings, u.num_buckets)
<1>. DEFINE c == copy_of(t, wanted)
            u == swapped(c)
<1>1. /\ Sound(c) /\ SameMap(c, t) /\ c.num_deleted = 0
      /\ wanted <= c.num_buckets /\ c.num_elements < c.num_buckets
  BY CopyOfSound
<1>. HIDE DEF c
<1>2. /\ Sound(u) /\ SameMap(u, c) /\ u.num_deleted = 0
      /\ u.num_elements = c.num_elements /\ u.num_buckets = c.num_buckets
      /\ u.settings = reset_thresholds(c.settings, c.num_buckets)
  BY <1>1, SwappedSound
<1>. HIDE DEF u
<1>3. SameMap(u, t)
  BY <1>1, <1>2 DEF SameMap
<1>4. u.settings.enlarge_threshold = enlarge_size(u.settings, u.num_buckets)
  <2>1. c.settings \in Settings
    BY <1>1, Fields DEF Sound
  <2>. QED
    BY <1>2, <2>1 DEF reset_thresholds, Settings, enlarge_size
<1>. QED
  BY <1>1, <1>2, <1>3, <1>4 DEF u, c

\* A table of empty buckets is sound, if no bucket can be taken for deleted.
LEMMA EmptiedSound ==
  ASSUME NEW u, IsTable(u), RoomFor(u.settings), u.settings.use_empty,
         u.settings.use_deleted => u.delkey # u.emptykey,
         u.table \in [Buckets(u) -> Slot],
         \A i \in Buckets(u) : u.table[i].key = u.emptykey,
         u.num_elements = 0, u.num_deleted = 0
  PROVE  Sound(u)
<1>1. InUse(u.table, u.num_buckets, u.emptykey) = {} /\ LiveBuckets(u) = {}
      /\ Marked(u) = {}
  BY DEF InUse, LiveBuckets, Marked, test_empty, Buckets
<1>2. Cardinality({}) = 0
  BY FS_EmptySet
<1>3. Populated(u)
  BY <1>1, <1>2 DEF Populated, NoneTwice
<1>4. size(u) <= MaxSize
  BY KeysAssumption DEF size
<1>. QED
  BY <1>3, <1>4 DEF Sound

\* clear and clear_no_resize.
LEMMA ClearSound ==
  ASSUME NEW t, Sound(t), t.settings.use_empty
  PROVE  Sound(clear(t)) /\ Sound(clear_no_resize(t))
<1>1. /\ t.settings \in Settings /\ t.num_buckets \in Nat
      /\ t \in TableOf(t.num_buckets) /\ t.num_buckets \in BucketCounts
      /\ RoomFor(t.settings) /\ Populated(t) /\ t.emptykey \in Key
  BY Fields DEF Sound
<1>2. ASSUME NEW n \in BucketCounts PROVE Sound(clear_to_size(t, n))
  <2>. DEFINE u == clear_to_size(t, n)
  <2>1. n \in Nat /\ reset_thresholds(t.settings, n) \in Settings
    BY <1>1, ResetTyped, BucketCountIsPower
  <2>2. /\ u.table = [i \in 0 .. n - 1 |-> EmptyBucket(t)] /\ u.num_buckets = n
        /\ u.settings = reset_thresholds(t.settings, n)
        /\ u.emptykey = t.emptykey /\ u.delkey = t.delkey
        /\ u.num_elements = 0 /\ u.num_deleted = 0
    BY <1>1 DEF clear_to_size, TableOf
  <2>3. [i \in 0 .. n - 1 |-> EmptyBucket(t)] \in [0 .. n - 1 -> Slot]
    BY <1>1, KeysAssumption DEF EmptyBucket, Slot
  <2>4. IsTable(u)
    BY <1>1, <2>1, <2>3 DEF clear_to_size, TableOf, IsTable
  <2>. HIDE DEF u
  <2>5. RoomFor(u.settings) /\ u.settings.use_empty
        /\ u.settings.use_deleted = t.settings.use_deleted
    <3>1. /\ reset_thresholds(t.settings, n).enlarge_factor = t.settings.enlarge_factor
          /\ reset_thresholds(t.settings, n).use_empty = t.settings.use_empty
          /\ reset_thresholds(t.settings, n).use_deleted = t.settings.use_deleted
      BY <1>1, <2>1, ResetTyped
    <3>. QED
      BY <1>1, <2>2, <3>1, SameRoom
  <2>6. u.table \in [Buckets(u) -> Slot] /\ \A i \in Buckets(u) : u.table[i].key = u.emptykey
    BY <2>2, <2>3 DEF Buckets, EmptyBucket
  <2>7. Sound(u)
    BY <1>1, <2>2, <2>4, <2>5, <2>6, EmptiedSound DEF Populated
  <2>. QED
    BY <2>7 DEF u
<1>3. Sound(clear(t))
  <2>1. HT_MIN_BUCKETS \in BucketCounts /\ 0 \in Nat /\ 0 <= HT_MIN_BUCKETS
        /\ 0 <= MaxSize
    BY StartingSizes, BucketCountIsPower, KeysAssumption
  <2>2. min_buckets(t.settings, 0, 0) \in BucketCounts
    BY <1>1, <2>1, RoomyEnough
  <2>. QED
    BY <1>2, <2>2 DEF clear
<1>4. Sound(clear_no_resize(t))
  <2>. DEFINE n   == t.num_buckets
              tab == IF t.num_elements > 0
                     THEN [i \in Buckets(t) |-> EmptyBucket(t)]
                     ELSE t.table
              u   == clear_no_resize(t)
  <2>1. reset_thresholds(t.settings, n) \in Settings
    BY <1>1, ResetTyped
  <2>2. tab \in [Buckets(t) -> Slot] /\ \A i \in Buckets(t) : tab[i].key = t.emptykey
    <3>1. CASE t.num_elements > 0
      BY <1>1, <3>1, KeysAssumption DEF EmptyBucket, Slot
    <3>2. CASE ~(t.num_elements > 0)
      <4>1. t.num_elements = 0
        BY <3>2, Fields DEF Sound
      <4>2. Cardinality(InUse(t.table, n, t.emptykey)) = 0
        BY <1>1, <4>1 DEF Populated
      <4>3. InUse(t.table, n, t.emptykey) = {}
        BY <1>1, <4>2, InUseFinite, FS_EmptySet
      <4>4. \A i \in Buckets(t) : t.table[i].key = t.emptykey
        BY <4>3 DEF InUse, Buckets
      <4>. QED
        BY <1>1, <3>2, <4>4 DEF Populated
    <3>. QED
      BY <3>1, <3>2
  <2>3. /\ u.table = tab /\ u.num_buckets = n
        /\ u.settings = reset_thresholds(t.settings, n)
        /\ u.emptykey = t.emptykey /\ u.delkey = t.delkey
        /\ u.num_elements = 0 /\ u.num_deleted = 0
    BY <1>1 DEF clear_no_resize, TableOf
  <2>. HIDE DEF tab
  <2>4. IsTable(u)
    BY <1>1, <2>1, <2>2 DEF clear_no_resize, TableOf, IsTable, Buckets, tab
  <2>. HIDE DEF u
  <2>5. RoomFor(u.settings) /\ u.settings.use_empty
        /\ u.settings.use_deleted = t.settings.use_deleted
    <3>1. /\ reset_thresholds(t.settings, n).enlarge_factor = t.settings.enlarge_factor
          /\ reset_thresholds(t.settings, n).use_empty = t.settings.use_empty
          /\ reset_thresholds(t.settings, n).use_deleted = t.settings.use_deleted
      BY <1>1, ResetTyped
    <3>. QED
      BY <1>1, <2>3, <3>1, SameRoom
  <2>6. u.table \in [Buckets(u) -> Slot] /\ \A i \in Buckets(u) : u.table[i].key = u.emptykey
    BY <2>2, <2>3 DEF Buckets
  <2>7. Sound(u)
    BY <1>1, <2>3, <2>4, <2>5, <2>6, EmptiedSound DEF Populated
  <2>. QED
    BY <2>7 DEF u
<1>. QED
  BY <1>3, <1>4

\* operator= leaves a copy of the other table.
LEMMA AssignSound ==
  ASSUME NEW t, Sound(t), NEW from, Sound(from)
  PROVE  LET u == assign(t, from)
         IN  Sound(u) /\ SameMap(u, from) /\ u.num_elements < u.num_buckets
<1>. DEFINE u == [t EXCEPT !.settings = from.settings,
                           !.delkey   = from.delkey,
                           !.emptykey = from.emptykey]
<1>1. CASE from.settings.use_empty
  <2>1. /\ t \in TableOf(t.num_buckets) /\ t.num_buckets \in BucketCounts
        /\ from.settings \in Settings /\ from.delkey \in Key /\ from.emptykey \in Key
    BY Fields DEF Sound
  <2>2. IsTable(u) /\ u.settings = from.settings /\ u.emptykey = from.emptykey
        /\ u.delkey = from.delkey
    BY <2>1 DEF TableOf, IsTable
  <2>. HIDE DEF u
  <2>3. Sound(copy_from(u, from, HT_MIN_BUCKETS))
        /\ SameMap(copy_from(u, from, HT_MIN_BUCKETS), from)
        /\ copy_from(u, from, HT_MIN_BUCKETS).num_elements <
             copy_from(u, from, HT_MIN_BUCKETS).num_buckets
    BY <1>1, <2>2, StartingSizes, CopyFromSound
  <2>. QED
    BY <1>1, <2>3 DEF assign, u
<1>2. CASE ~from.settings.use_empty
  BY <1>2, StartingSizes, CopyOfSound DEF assign
<1>. QED
  BY <1>1, <1>2

\* The constructor.
LEMMA NewTableSound ==
  ASSUME \E n \in BucketCounts : MaxSize < (n * HT_OCCUPANCY_PCT) \div 100,
         NEW num \in Nat,
         num > 0 => ~min_buckets_overflows(new_table(0).settings, num, 0)
  PROVE  Sound(new_table(num))
<1>. DEFINE s == new_settings(HT_OCCUPANCY_PCT, HT_EMPTY_PCT)
            n == IF num = 0 THEN HT_DEFAULT_STARTING_BUCKETS ELSE min_buckets(s, num, 0)
            u == new_table(num)
<1>1. s \in Settings /\ ~s.use_empty /\ s.enlarge_factor = HT_OCCUPANCY_PCT
  BY DEF new_settings, Settings, Percent, HT_OCCUPANCY_PCT, HT_EMPTY_PCT
<1>2. new_table(0).settings.enlarge_factor = s.enlarge_factor
  BY DEF new_table, reset_thresholds, new_settings
<1>3. n \in BucketCounts
  <2>1. CASE num = 0
    BY <2>1, StartingSizes
  <2>2. CASE num # 0
    <3>1. roomy_sizes(s, num, 0) # {}
      BY <1>2, <2>2 DEF min_buckets_overflows, roomy_sizes, enlarge_size
    <3>2. PICK m \in BucketCounts : num < enlarge_size(s, m)
      BY <3>1 DEF roomy_sizes
    <3>3. s.enlarge_factor \in Percent /\ 0 <= m /\ 0 \in Nat
      BY <1>1, BucketCountIsPower DEF Settings
    <3>4. min_buckets(s, num, 0) \in BucketCounts
      BY <3>2, <3>3, MinBuckets
    <3>. QED
      BY <2>2, <3>4
  <2>. QED
    BY <2>1, <2>2
<1>4. u = [ settings |-> reset_thresholds(s, n),
            emptykey |-> DefaultKey, delkey |-> DefaultKey,
            num_deleted |-> 0, num_elements |-> 0, num_buckets |-> n, table |-> NULL ]
  BY DEF new_table
<1>. HIDE DEF s, n, u
<1>5. n \in Nat
  BY <1>3, BucketCountIsPower
<1>6. /\ reset_thresholds(s, n) \in Settings
      /\ reset_thresholds(s, n).enlarge_factor = HT_OCCUPANCY_PCT
      /\ ~reset_thresholds(s, n).use_empty
  BY <1>1, <1>5, ResetTyped
<1>7. IsTable(u)
  BY <1>3, <1>4, <1>5, <1>6, KeysAssumption DEF IsTable, TableOf
<1>8. RoomFor(u.settings)
  BY <1>4, <1>6 DEF RoomFor, enlarge_size
<1>9. size(u) <= MaxSize
  BY <1>4, KeysAssumption DEF size
<1>10. Blank(u) /\ ~u.settings.use_empty
  BY <1>4, <1>6 DEF Blank
<1>. QED
  BY <1>7, <1>8, <1>9, <1>10 DEF Sound, u

-----------------------------------------------------------------------------
(* The reserved keys and the load factors.                                 *)

\* set_empty_key allocates the first buckets.
LEMMA SetEmptyKeySound ==
  ASSUME NEW t, Sound(t), ~t.settings.use_empty, NEW k \in Key,
         t.settings.use_deleted => k # t.delkey
  PROVE  Sound(set_empty_key(t, k))
<1>. DEFINE u == set_empty_key(t, k)
<1>1. /\ t \in TableOf(t.num_buckets) /\ t.num_buckets \in BucketCounts
      /\ t.settings \in Settings /\ RoomFor(t.settings) /\ Blank(t)
  BY Fields DEF Sound
<1>2. [i \in Buckets(t) |-> [key |-> k, val |-> DefaultVal]] \in [Buckets(t) -> Slot]
  BY KeysAssumption DEF Slot
<1>3. /\ u.table = [i \in Buckets(t) |-> [key |-> k, val |-> DefaultVal]]
      /\ u.num_buckets = t.num_buckets /\ u.emptykey = k /\ u.delkey = t.delkey
      /\ u.num_elements = 0 /\ u.num_deleted = 0
      /\ u.settings = [t.settings EXCEPT !.use_empty = TRUE]
  BY <1>1 DEF set_empty_key, TableOf, Blank
<1>4. IsTable(u)
  BY <1>1, <1>2 DEF set_empty_key, IsTable, TableOf, Settings, Buckets
<1>. HIDE DEF u
<1>5. u.settings.use_empty /\ u.settings.use_deleted = t.settings.use_deleted
      /\ u.settings.enlarge_factor = t.settings.enlarge_factor
  BY <1>1, <1>3 DEF Settings
<1>6. u.table \in [Buckets(u) -> Slot] /\ \A i \in Buckets(u) : u.table[i].key = u.emptykey
  BY <1>2, <1>3 DEF Buckets
<1>7. RoomFor(u.settings)
  BY <1>1, <1>5, SameRoom
<1>8. Sound(u)
  BY <1>3, <1>4, <1>5, <1>6, <1>7, EmptiedSound
<1>. QED
  BY <1>8 DEF u

\* Before the deleted key changes there are no deleted buckets left.
LEMMA SquashSound ==
  ASSUME NEW t, Sound(t)
  PROVE  LET u == squash_deleted(t)
         IN  Sound(u) /\ SameMap(u, t) /\ u.num_deleted = 0
<1>1. CASE t.num_deleted > 0
  BY <1>1, StartingSizes, RehashSound DEF squash_deleted
<1>2. CASE ~(t.num_deleted > 0)
  <2>1. t.num_deleted = 0
    BY <1>2, Fields DEF Sound
  <2>. QED
    BY <1>2, <2>1 DEF squash_deleted, SameMap
<1>. QED
  BY <1>1, <1>2

\* set_deleted_key, of a key no object has, and clear_deleted_key.
LEMMA DeletedKeySound ==
  ASSUME NEW t, Sound(t), NEW k \in Key, NEW using \in BOOLEAN,
         using => /\ t.settings.use_empty => k # t.emptykey
                  /\ k \notin Keys(t),
         NEW q, q = squash_deleted(t),
         NEW u, IsTable(u), u.settings.use_deleted = using, using => u.delkey = k,
         u.settings.use_empty = q.settings.use_empty,
         u.settings.enlarge_factor = q.settings.enlarge_factor,
         u.table = q.table, u.num_buckets = q.num_buckets, u.emptykey = q.emptykey,
         u.num_elements = q.num_elements, u.num_deleted = q.num_deleted
  PROVE  Sound(u)
<1>1. Sound(q) /\ SameMap(q, t) /\ q.num_deleted = 0
  BY SquashSound
<1>2. RoomFor(u.settings) /\ size(u) <= MaxSize
  BY <1>1, SameRoom DEF Sound, size
<1>3. CASE ~u.settings.use_empty
  BY <1>1, <1>2, <1>3 DEF Sound, Blank
<1>4. CASE u.settings.use_empty
  <2>1. IsTable(q) /\ Populated(q) /\ q.num_buckets \in Nat /\ q.emptykey = t.emptykey
        /\ t.settings.use_empty /\ Objects(q) = Objects(t)
    BY <1>1, <1>4, Fields DEF Sound, SameMap
  <2>. DEFINE used == InUse(q.table, q.num_buckets, q.emptykey)
  <2>2. LiveBuckets(q) = used /\ LiveBuckets(u) = used
    <3>1. q.table # NULL
      BY <2>1, Fields, KeysAssumption DEF Populated, Buckets, Slot
    <3>. QED
      BY <1>1, <3>1 DEF LiveBuckets, Buckets, InUse, test_empty, test_deleted
  <2>3. Marked(u) = {}
    <3>. SUFFICES ASSUME NEW i \in Marked(u) PROVE FALSE
      OBVIOUS
    <3>1. using /\ i \in Buckets(q) /\ q.table[i].key = k /\ k # q.emptykey
      BY <2>1 DEF Marked, Buckets
    <3>2. i \in LiveBuckets(q)
      BY <2>2, <3>1 DEF InUse, Buckets
    <3>3. q.table[i] \in Objects(t)
      BY <2>1, <3>2 DEF Objects
    <3>4. k \in Keys(t)
      BY <3>1, <3>3 DEF Keys, Objects
    <3>. QED
      BY <3>1, <3>4
  <2>4. Cardinality({}) = 0
    BY FS_EmptySet
  <2>5. u.settings.use_deleted => u.delkey # u.emptykey
    BY <2>1
  <2>6. Populated(u)
    BY <1>1, <2>1, <2>2, <2>3, <2>4, <2>5 DEF Populated, Buckets
  <2>. QED
    BY <1>2, <1>4, <2>6 DEF Sound
<1>. QED
  BY <1>3, <1>4

\* New load factors change nothing but the thresholds, as long as there is
\* room under the new grow factor.
LEMMA ParametersSound ==
  ASSUME NEW t, Sound(t), NEW shrink \in Percent, NEW grow \in Percent,
         \E n \in BucketCounts : MaxSize < (n * grow) \div 100
  PROVE  Sound(change_resizing_parameters(t, shrink, grow))
<1>. DEFINE s == set_resizing_parameters(t.settings, shrink, grow)
            v == reset_thresholds(s, t.num_buckets)
            u == change_resizing_parameters(t, shrink, grow)
<1>1. /\ t \in TableOf(t.num_buckets) /\ t.num_buckets \in BucketCounts
      /\ t.num_buckets \in Nat /\ t.settings \in Settings
  BY Fields DEF Sound
<1>2. s \in Settings /\ s.enlarge_factor = grow
      /\ s.use_empty = t.settings.use_empty /\ s.use_deleted = t.settings.use_deleted
  <2>1. grow \div 2 \in Percent
    BY DEF Percent
  <2>. QED
    BY <1>1, <2>1 DEF set_resizing_parameters, Settings
<1>. HIDE DEF s
<1>3. v \in Settings /\ v.enlarge_factor = grow
      /\ v.use_empty = t.settings.use_empty /\ v.use_deleted = t.settings.use_deleted
  BY <1>1, <1>2, ResetTyped
<1>. HIDE DEF v
<1>4. u = [t EXCEPT !.settings = v]
  BY DEF change_resizing_parameters, v, s
<1>5. IsTable(u) /\ u.settings = v /\ u.table = t.table /\ u.num_buckets = t.num_buckets
      /\ u.emptykey = t.emptykey /\ u.delkey = t.delkey
      /\ u.num_elements = t.num_elements /\ u.num_deleted = t.num_deleted
  BY <1>1, <1>3, <1>4 DEF IsTable, TableOf
<1>. HIDE DEF u
<1>6. RoomFor(u.settings)
  BY <1>3, <1>5 DEF RoomFor, enlarge_size
<1>7. LiveBuckets(u) = LiveBuckets(t) /\ Buckets(u) = Buckets(t) /\ Marked(u) = Marked(t)
      /\ size(u) = size(t)
  BY <1>3, <1>5 DEF LiveBuckets, Buckets, Marked, test_empty, test_deleted, size
<1>8. Populated(t) => Populated(u)
  BY <1>3, <1>5, <1>7 DEF Populated
<1>9. Blank(t) => Blank(u)
  BY <1>5 DEF Blank
<1>10. Sound(u)
  BY <1>3, <1>5, <1>6, <1>7, <1>8, <1>9 DEF Sound
<1>. QED
  BY <1>10 DEF u

-----------------------------------------------------------------------------
(***************************************************************************)
(* The methods that resize a table, insert into it and erase from it keep  *)
(* it sound.  An insertion is right because find_position answers a bucket *)
(* that the search for the new key comes by before any empty one; an       *)
(* erasure because a deleted bucket is not empty, so that no search ends   *)
(* there.                                                                  *)
(*                                                                         *)
(* Under a grow factor of less than 100% no table ever fills up: there is  *)
(* always an empty bucket to end a search.  resize_delta makes room for    *)
(* all the objects about to be inserted, deleted buckets counted in, and   *)
(* an insertion takes at most one bucket.                                  *)
(***************************************************************************)

\* Nothing but the settings of u may differ from t.
SameBuckets(u, t) ==
  /\ u.table = t.table /\ u.num_buckets = t.num_buckets
  /\ u.emptykey = t.emptykey /\ u.delkey = t.delkey
  /\ u.num_elements = t.num_elements /\ u.num_deleted = t.num_deleted

\* What resizing t may leave and answer: "kept" when no object moved.
Resized(r, t) ==
  /\ Sound(r.ht) /\ SameMap(r.ht, t)
  /\ r.res \in {"kept", "resized", "length_error"}
  /\ r.res = "kept" => SameBuckets(r.ht, t)

\* An object of key k may be put in bucket pos: no object has that key, the
\* bucket is free and the search for the key comes by.
Free(t, k, pos) ==
  /\ pos \in Buckets(t)
  /\ test_empty(t, pos) \/ test_deleted(t, pos)
  /\ \A j \in LiveBuckets(t) : t.table[j].key # k
  /\ \E p \in Buckets(t) :
       /\ Probe(k, p, t.num_buckets) = pos
       /\ \A q \in 0 .. p - 1 : t.table[Probe(k, q, t.num_buckets)].key # t.emptykey

-----------------------------------------------------------------------------
(* Resizing.                                                               *)

\* maybe_shrink, whether it shrinks or drops the request.
LEMMA MaybeShrinkSound ==
  ASSUME NEW t, Sound(t)
  PROVE  Resized(maybe_shrink(t), t)
<1>. DEFINE sizes == {n \in BucketCounts :
                        /\ HT_DEFAULT_STARTING_BUCKETS <= n /\ n < t.num_buckets
                        /\ \/ n = HT_DEFAULT_STARTING_BUCKETS
                           \/ size(t) * 100 >= n * t.settings.shrink_factor}
            u == [t EXCEPT !.settings.consider_shrink = FALSE]
<1>1. Resized(Outcome(u, "kept"), t)
  <2>1. /\ t \in TableOf(t.num_buckets) /\ t.num_buckets \in BucketCounts
        /\ t.settings \in Settings
    BY Fields DEF Sound
  <2>2. SameBuckets(u, t) /\ u.settings = [t.settings EXCEPT !.consider_shrink = FALSE]
    BY <2>1 DEF SameBuckets, TableOf
  <2>3. IsTable(u)
    BY <2>1 DEF IsTable, TableOf, Settings
  <2>. HIDE DEF u
  <2>4. /\ u.settings.enlarge_factor = t.settings.enlarge_factor
        /\ u.settings.use_empty = t.settings.use_empty
        /\ u.settings.use_deleted = t.settings.use_deleted
    BY <2>1, <2>2 DEF Settings
  <2>5. Sound(u) /\ SameMap(u, t)
    BY <2>2, <2>3, <2>4, SettingsOnly DEF SameBuckets
  <2>. QED
    BY <2>2, <2>5 DEF Resized, Outcome
<1>2. ASSUME t.num_buckets > HT_DEFAULT_STARTING_BUCKETS
      PROVE  Resized(Outcome(swapped(copy_of(t, Max(sizes))), "resized"), t)
  <2>1. sizes \in SUBSET (0 .. SizeMax) /\ SizeMax \in Nat
    BY SizesAssumption DEF BucketCounts
  <2>2. HT_DEFAULT_STARTING_BUCKETS \in sizes
    BY <1>2, StartingSizes, BucketCountIsPower, Fields DEF Sound
  <2>3. Max(sizes) \in sizes
    BY <2>1, <2>2, MaxIsMember
  <2>4. Max(sizes) \in BucketCounts
    BY <2>3
  <2>. HIDE DEF sizes
  <2>. DEFINE c == swapped(copy_of(t, Max(sizes)))
  <2>5. Sound(c) /\ SameMap(c, t)
    BY <2>4, RehashSound
  <2>. HIDE DEF c
  <2>6. Resized(Outcome(c, "resized"), t)
    BY <2>5 DEF Resized, Outcome
  <2>. QED
    BY <2>6 DEF c
<1>. QED
  BY <1>1, <1>2 DEF maybe_shrink

\* Where there is room for delta more objects, deleted buckets counted in,
\* resize_to is a size, and has room for them.
LEMMA ResizeToSize ==
  ASSUME NEW t, Sound(t), NEW delta \in Nat,
         ~min_buckets_overflows(t.settings, t.num_elements + delta, 0)
  PROVE  resize_to(t, delta) \in BucketCounts /\ size(t) + delta < resize_to(t, delta)
<1>. DEFINE s    == t.settings
            fits == min_buckets(s, size(t) + delta, t.num_buckets)
<1>1. /\ t.num_buckets \in BucketCounts /\ t.num_buckets \in Nat
      /\ t.num_elements \in Nat /\ t.num_deleted \in Nat /\ size(t) \in Nat
      /\ s.enlarge_factor \in Percent
  BY Fields, SizeFits DEF Sound
<1>2. PICK n \in BucketCounts : t.num_elements + delta < enlarge_size(s, n)
  BY DEF min_buckets_overflows, roomy_sizes
<1>3. size(t) + delta < enlarge_size(s, n) /\ size(t) + delta \in Nat
  <2>1. n \in Nat /\ enlarge_size(s, n) \in Nat
    BY <1>1, BucketCountIsPower, EnlargeGrows
  <2>2. size(t) <= t.num_elements
    BY <1>1 DEF size
  <2>. QED
    BY <1>1, <1>2, <2>1, <2>2
<1>4. fits \in BucketCounts /\ fits \in Nat /\ size(t) + delta < fits
  <2>1. t.num_buckets <= t.num_buckets
    BY <1>1
  <2>2. fits \in BucketCounts /\ size(t) + delta < enlarge_size(s, fits)
    BY <1>1, <1>3, <2>1, MinBuckets
  <2>. HIDE DEF fits
  <2>3. fits \in Nat /\ enlarge_size(s, fits) \in Nat /\ enlarge_size(s, fits) <= fits
    BY <1>1, <2>2, BucketCountIsPower, EnlargeGrows
  <2>. QED
    BY <1>1, <2>2, <2>3
<1>5. fits < SizeMax \div 2 => fits * 2 \in BucketCounts
  BY <1>4, TwiceASize
<1>6. size(t) + delta < fits * 2
  <2>. HIDE DEF fits
  <2>. QED
    BY <1>1, <1>4
<1>. QED
  BY <1>4, <1>5, <1>6 DEF resize_to

\* The rest of resize_delta, whatever considering to shrink left.
LEMMA GrowSound ==
  ASSUME NEW t, NEW u, Resized(u, t), NEW delta \in Nat
  PROVE  Resized(grow_if_needed(u, delta), t)
<1>1. Resized(Outcome(u.ht, "length_error"), t)
  BY DEF Resized, Outcome
<1>2. ASSUME ~min_buckets_overflows(u.ht.settings, u.ht.num_elements + delta, 0)
      PROVE  Resized(Outcome(swapped(copy_of(u.ht, resize_to(u.ht, delta))), "resized"), t)
  <2>. DEFINE c == swapped(copy_of(u.ht, resize_to(u.ht, delta)))
  <2>1. resize_to(u.ht, delta) \in BucketCounts
    BY <1>2, ResizeToSize DEF Resized
  <2>2. Sound(c) /\ SameMap(c, u.ht)
    BY <2>1, RehashSound DEF Resized
  <2>. HIDE DEF c
  <2>3. Resized(Outcome(c, "resized"), t)
    BY <2>2 DEF Resized, Outcome, SameMap
  <2>. QED
    BY <2>3 DEF c
<1>. QED
  BY <1>1, <1>2 DEF grow_if_needed

\* resize_delta: shrink, grow, both or neither.
LEMMA ResizeDeltaSound ==
  ASSUME NEW t, Sound(t), NEW delta \in Nat
  PROVE  Resized(resize_delta(t, delta), t)
<1>1. Resized(Outcome(t, "kept"), t)
  BY DEF Resized, Outcome, SameMap, SameBuckets
<1>2. Resized(maybe_shrink(t), t)
  BY MaybeShrinkSound
<1>. QED
  BY <1>1, <1>2, GrowSound DEF resize_delta

\* resize(n), for any n: a sound table of the same map, and one of three answers.
LEMMA ResizeSound ==
  ASSUME NEW t, Sound(t), NEW n \in Nat
  PROVE  LET r == resize(t, n)
         IN  /\ Sound(r.ht) /\ SameMap(r.ht, t)
             /\ r.res \in {"kept", "resized", "length_error"}
<1>. DEFINE OK(r) == /\ Sound(r.ht) /\ SameMap(r.ht, t)
                     /\ r.res \in {"kept", "resized", "length_error"}
            grown(u) == IF n > u.num_elements THEN resize_delta(u, n - u.num_elements)
                                              ELSE Outcome(u, "kept")
<1>1. ASSUME NEW u, Sound(u), SameMap(u, t) PROVE OK(grown(u))
  <2>1. CASE n > u.num_elements
    <3>1. n - u.num_elements \in Nat
      BY <1>1, <2>1, Fields DEF Sound
    <3>2. Resized(resize_delta(u, n - u.num_elements), u)
      BY <1>1, <3>1, ResizeDeltaSound
    <3>. QED
      BY <1>1, <2>1, <3>2 DEF Resized, SameMap
  <2>2. CASE ~(n > u.num_elements)
    BY <1>1, <2>2 DEF Outcome
  <2>. QED
    BY <2>1, <2>2
<1>2. Sound(maybe_shrink(t).ht) /\ SameMap(maybe_shrink(t).ht, t)
  BY MaybeShrinkSound DEF Resized
<1>3. SameMap(t, t)
  BY DEF SameMap
<1>4. resize(t, n) = grown(IF t.settings.consider_shrink \/ n = 0 THEN maybe_shrink(t).ht
                                                                  ELSE t)
  BY DEF resize
<1>. HIDE DEF OK, grown
<1>5. OK(resize(t, n))
  BY <1>1, <1>2, <1>3, <1>4
<1>. QED
  BY <1>5 DEF OK

-----------------------------------------------------------------------------
(* Insertion.                                                              *)

\* What find_position answers: the one bucket with the key, or one that is
\* free for it, or neither.
LEMMA FindPosition ==
  ASSUME NEW t, Sound(t), t.settings.use_empty, NEW k \in Key
  PROVE  LET p == find_position(t, k)
         IN  /\ p.first # ILLEGAL_BUCKET =>
                  p.first \in LiveBuckets(t) /\ t.table[p.first].key = k
             /\ p.first = ILLEGAL_BUCKET /\ p.second # ILLEGAL_BUCKET =>
                  Free(t, k, p.second)
<1>. DEFINE n        == t.num_buckets
            at(i)    == Probe(k, i, n)
            holds(i) == /\ ~test_empty(t, at(i)) /\ ~test_deleted(t, at(i))
                        /\ t.table[at(i)].key = k
            stops    == {i \in Buckets(t) : test_empty(t, at(i)) \/ holds(i)}
            last     == Min(stops)
            reusable == {i \in 0 .. last : test_deleted(t, at(i))} \cup {last}
            least    == Min(reusable)
            p        == find_position(t, k)
<1>1. n \in BucketCounts /\ n \in Nat /\ Populated(t) /\ t.table # NULL
  BY Fields, KeysAssumption DEF Sound, Populated, Buckets, Slot
<1>2. \A i \in Buckets(t) : at(i) \in Buckets(t) /\ at(i) # ILLEGAL_BUCKET
  <2>1. \A i \in Buckets(t) : at(i) \in Buckets(t)
    BY <1>1, ProbesEveryBucket DEF Buckets
  <2>2. \A b \in Buckets(t) : b # ILLEGAL_BUCKET
    BY <1>1, SizesAssumption DEF Buckets, ILLEGAL_BUCKET, BucketCounts
  <2>. QED
    BY <2>1, <2>2
<1>3. p = IF stops = {}
          THEN [first |-> ILLEGAL_BUCKET, second |-> ILLEGAL_BUCKET]
          ELSE IF holds(last)
          THEN [first |-> at(last), second |-> ILLEGAL_BUCKET]
          ELSE [first |-> ILLEGAL_BUCKET, second |-> at(least)]
  BY DEF find_position
<1>. HIDE DEF p
<1>4. CASE stops = {}
  <2>1. p = [first |-> ILLEGAL_BUCKET, second |-> ILLEGAL_BUCKET]
    BY <1>3, <1>4
  <2>2. p.first = ILLEGAL_BUCKET /\ p.second = ILLEGAL_BUCKET
    BY <2>1
  <2>. QED
    BY <2>2 DEF p
<1>5. CASE stops # {}
  <2>1. stops \in SUBSET Nat
    BY DEF Buckets
  <2>2. last \in stops /\ \A i \in stops : last <= i
    BY <1>5, <2>1, MinIsMember
  <2>3. last \in Buckets(t) /\ last \in Nat /\ last <= n - 1
    BY <1>1, <2>2 DEF Buckets
  <2>. HIDE DEF last
  <2>4. CASE holds(last)
    <3>1. at(last) \in LiveBuckets(t)
      BY <1>1, <1>2, <2>3, <2>4 DEF LiveBuckets
    <3>. QED
      BY <1>3, <1>5, <2>4, <3>1 DEF p
  <2>5. CASE ~holds(last)
    <3>1. test_empty(t, at(last))
      BY <2>2, <2>5
    <3>2. reusable \in SUBSET Nat /\ last \in reusable
      BY <2>3
    <3>3. least \in reusable /\ \A i \in reusable : least <= i
      BY <3>2, MinIsMember
    <3>4. least \in 0 .. last /\ least \in Buckets(t)
      BY <1>1, <2>3, <3>3 DEF Buckets
    <3>5. test_empty(t, at(least)) \/ test_deleted(t, at(least))
      BY <3>1, <3>3
    <3>. HIDE DEF least
    <3>6. ASSUME NEW q \in 0 .. last - 1 PROVE t.table[at(q)].key # t.emptykey
      <4>1. q \in Buckets(t) /\ ~(last <= q)
        BY <1>1, <2>3 DEF Buckets
      <4>2. ~test_empty(t, at(q))
        BY <2>2, <4>1
      <4>. QED
        BY <4>2 DEF test_empty
    <3>7. \A q \in 0 .. least - 1 : t.table[at(q)].key # t.emptykey
      BY <2>3, <3>4, <3>6
    <3>8. ASSUME NEW j \in LiveBuckets(t), t.table[j].key = k PROVE FALSE
      <4>1. PICK r \in 0 .. n - 1 :
              /\ at(r) = j
              /\ \A q \in 0 .. r - 1 : t.table[at(q)].key # t.emptykey
        BY <1>1, <3>8 DEF Populated, Reached
      <4>2. j \in Buckets(t) /\ ~test_empty(t, j) /\ ~test_deleted(t, j)
        BY <1>1 DEF LiveBuckets
      <4>3. r \in stops
        BY <3>8, <4>1, <4>2 DEF Buckets
      <4>4. last # r /\ last <= r
        BY <2>2, <3>1, <4>1, <4>2, <4>3
      <4>5. last \in 0 .. r - 1
        BY <2>3, <4>4
      <4>. QED
        BY <3>1, <4>1, <4>5 DEF test_empty
    <3>9. Free(t, k, at(least))
      BY <1>2, <3>4, <3>5, <3>7, <3>8 DEF Free
    <3>. QED
      BY <1>3, <1>5, <2>5, <3>9 DEF p
  <2>. QED
    BY <2>4, <2>5
<1>. QED
  BY <1>4, <1>5

\* Neither the empty nor the deleted key.
Allowed(t, k) ==
  /\ t.settings.use_empty /\ k # t.emptykey
  /\ t.settings.use_deleted => k # t.delkey

\* An object put in a free bucket, be it empty or deleted, is found there, and
\* everything else still is; nothing else comes or goes.
LEMMA InsertAtSound ==
  ASSUME NEW t, Sound(t), NEW obj \in Slot, Allowed(t, obj.key), NEW pos,
         Free(t, obj.key, pos)
  PROVE  LET u == insert_at(t, obj, pos).ht
         IN  /\ Sound(u)
             /\ size(t) < MaxSize => Objects(u) = Objects(t) \cup {obj}
<1>. DEFINE n    == t.num_buckets
            e    == t.emptykey
            used == InUse(t.table, n, e)
            tab  == [t.table EXCEPT ![pos] = obj]
<1>1. /\ n \in BucketCounts /\ n \in Nat /\ t \in TableOf(n) /\ IsTable(t)
      /\ Populated(t) /\ RoomFor(t.settings)
      /\ t.num_elements \in Nat /\ t.num_deleted \in Nat
      /\ size(t) \in Nat /\ pos \in 0 .. n - 1 /\ obj.key \in Key
  BY Fields, SizeFits DEF Sound, Allowed, Free, Buckets, Slot
<1>2. /\ t.table \in [0 .. n - 1 -> Slot] /\ tab \in [0 .. n - 1 -> Slot]
      /\ tab[pos] = obj /\ \A j \in 0 .. n - 1 : j # pos => tab[j] = t.table[j]
  BY <1>1 DEF Populated, Buckets
<1>. HIDE DEF tab
<1>3. tab # NULL
  BY <1>1, <1>2, KeysAssumption DEF Slot
<1>4. /\ LiveBuckets(t) = used \ Marked(t) /\ Marked(t) \subseteq used
      /\ \A i \in Buckets(t) : test_deleted(t, i) <=> i \in Marked(t)
      /\ IsFiniteSet(used) /\ IsFiniteSet(Marked(t))
  <2>1. IsFiniteSet(used) /\ Marked(t) \subseteq used
    BY <1>1, InUseFinite, LiveCount
  <2>. QED
    BY <1>1, <2>1, LiveCount, FS_Subset
<1>5. InUse(tab, n, e) = used \cup {pos}
  BY <1>1, <1>2 DEF InUse, Allowed
<1>6. NoneTwice(tab, LiveBuckets(t) \cup {pos})
  <2>1. pos \notin LiveBuckets(t)
    BY DEF Free, LiveBuckets
  <2>2. LiveBuckets(t) \subseteq 0 .. n - 1
    BY DEF LiveBuckets, Buckets
  <2>3. \A j \in LiveBuckets(t) : tab[j] = t.table[j]
    BY <1>2, <2>1, <2>2
  <2>4. \A j \in LiveBuckets(t) : tab[j].key # obj.key
    BY <2>3 DEF Free
  <2>5. \A i, j \in LiveBuckets(t) : tab[i].key = tab[j].key => i = j
    BY <1>1, <2>3 DEF Populated, NoneTwice
  <2>. QED
    BY <1>2, <2>4, <2>5 DEF NoneTwice
<1>7. ASSUME NEW j \in LiveBuckets(t) \cup {pos} PROVE Reached(tab, n, e, j)
  <2>1. \A x \in 0 .. n - 1 : t.table[x].key # e => tab[x].key # e
    BY <1>2 DEF Allowed
  <2>2. \A k \in Key : \A q \in 0 .. n - 1 : Probe(k, q, n) \in 0 .. n - 1
    BY <1>1, ProbesEveryBucket
  <2>3. CASE j = pos
    <3>1. PICK p \in 0 .. n - 1 :
            /\ Probe(obj.key, p, n) = pos
            /\ \A q \in 0 .. p - 1 : t.table[Probe(obj.key, q, n)].key # e
      BY DEF Free, Buckets
    <3>2. \A q \in 0 .. p - 1 : tab[Probe(obj.key, q, n)].key # e
      BY <1>1, <2>1, <2>2, <3>1
    <3>. QED
      BY <1>2, <2>3, <3>1, <3>2 DEF Reached
  <2>4. CASE j # pos
    <3>1. j \in LiveBuckets(t) /\ j \in 0 .. n - 1
      BY <2>4 DEF LiveBuckets, Buckets
    <3>2. PICK r \in 0 .. n - 1 :
            /\ Probe(t.table[j].key, r, n) = j
            /\ \A q \in 0 .. r - 1 : t.table[Probe(t.table[j].key, q, n)].key # e
      BY <1>1, <3>1 DEF Populated, Reached
    <3>3. tab[j] = t.table[j] /\ t.table[j].key \in Key
      BY <1>2, <2>4, <3>1 DEF Slot
    <3>4. ASSUME NEW q \in 0 .. r - 1 PROVE tab[Probe(t.table[j].key, q, n)].key # e
      <4>1. q \in 0 .. n - 1 /\ Probe(t.table[j].key, q, n) \in 0 .. n - 1
        BY <1>1, <2>2, <3>3
      <4>. QED
        BY <2>1, <3>2, <4>1
    <3>. QED
      BY <3>2, <3>3, <3>4 DEF Reached
  <2>. QED
    BY <2>3, <2>4
\* The table and the counters as insert_at leaves them.
<1>8. ASSUME NEW u, IsTable(u), u.table = tab, u.num_buckets = n,
             u.emptykey = e, u.delkey = t.delkey, u.settings = t.settings,
             size(t) < MaxSize,
             \/ /\ test_deleted(t, pos)
                /\ u.num_elements = t.num_elements /\ u.num_deleted = t.num_deleted - 1
             \/ /\ ~test_deleted(t, pos)
                /\ u.num_elements = t.num_elements + 1 /\ u.num_deleted = t.num_deleted
      PROVE  Sound(u) /\ Objects(u) = Objects(t) \cup {obj}
  <2>1. Marked(u) = Marked(t) \ {pos}
    BY <1>1, <1>2, <1>8 DEF Marked, Allowed, Buckets
  <2>2. u.num_elements = Cardinality(InUse(tab, n, e))
    <3>1. CASE test_deleted(t, pos)
      <4>1. pos \in used
        BY <1>1, <1>4, <3>1 DEF Buckets
      <4>. QED
        BY <1>1, <1>5, <1>8, <3>1, <4>1 DEF Populated
    <3>2. CASE ~test_deleted(t, pos)
      <4>1. pos \notin used
        BY <3>2 DEF Free, InUse, test_empty
      <4>2. Cardinality(used \cup {pos}) = Cardinality(used) + 1
        BY <1>4, <4>1, FS_AddElement
      <4>. QED
        BY <1>1, <1>5, <1>8, <3>2, <4>2 DEF Populated
    <3>. QED
      BY <3>1, <3>2
  <2>3. u.num_deleted = Cardinality(Marked(u))
    <3>1. CASE test_deleted(t, pos)
      <4>1. pos \in Marked(t)
        BY <1>1, <1>4, <3>1 DEF Buckets
      <4>2. Cardinality(Marked(t) \ {pos}) = Cardinality(Marked(t)) - 1
        BY <1>4, <4>1, FS_RemoveElement
      <4>. QED
        BY <1>1, <1>8, <2>1, <3>1, <4>2 DEF Populated
    <3>2. CASE ~test_deleted(t, pos)
      <4>1. Marked(u) = Marked(t)
        BY <1>1, <1>4, <2>1, <3>2 DEF Buckets
      <4>. QED
        BY <1>1, <1>8, <3>2, <4>1 DEF Populated
    <3>. QED
      BY <3>1, <3>2
  <2>4. LiveBuckets(u) = LiveBuckets(t) \cup {pos}
    <3>1. u.settings.use_deleted => u.delkey # u.emptykey
      BY <1>1, <1>8 DEF Populated
    <3>2. LiveBuckets(u) = InUse(tab, n, e) \ Marked(u)
      BY <1>2, <1>8, <2>3, <3>1, LiveAreUnmarked DEF Buckets
    <3>. QED
      BY <1>4, <1>5, <2>1, <3>2
  <2>5. u.settings.use_deleted => u.delkey # u.emptykey
    BY <1>1, <1>8 DEF Populated
  <2>6. Populated(u)
    BY <1>2, <1>6, <1>7, <1>8, <2>2, <2>3, <2>4, <2>5 DEF Populated, Buckets
  <2>7. size(u) <= MaxSize
    BY <1>1, <1>8, KeysAssumption DEF size
  <2>8. Objects(u) = Objects(t) \cup {obj}
    <3>1. LiveBuckets(t) \subseteq 0 .. n - 1 /\ pos \notin LiveBuckets(t)
      BY DEF Free, LiveBuckets, Buckets
    <3>2. \A j \in LiveBuckets(t) : u.table[j] = t.table[j]
      BY <1>2, <1>8, <3>1
    <3>3. u.table[pos] = obj
      BY <1>2, <1>8
    <3>. QED
      BY <2>4, <3>2, <3>3 DEF Objects
  <2>9. Sound(u)
    BY <1>1, <1>8, <2>6, <2>7 DEF Sound, Allowed
  <2>. QED
    BY <2>8, <2>9
<1>9. CASE size(t) >= MaxSize
  BY <1>1, <1>9, KeysAssumption DEF insert_at, Outcome
<1>10. CASE ~(size(t) >= MaxSize) /\ test_deleted(t, pos)
  <2>. DEFINE u == [t EXCEPT !.table[pos] = obj, !.num_deleted = @ - 1]
  <2>1. t.num_deleted - 1 \in Nat
    BY <1>1, <1>10 DEF test_deleted
  <2>2. /\ u.table = tab /\ u.num_buckets = n /\ u.emptykey = e /\ u.delkey = t.delkey
        /\ u.settings = t.settings /\ u.num_elements = t.num_elements
        /\ u.num_deleted = t.num_deleted - 1
    BY <1>1 DEF tab, TableOf
  <2>3. IsTable(u)
    BY <1>1, <1>2, <2>1 DEF IsTable, TableOf, tab
  <2>. HIDE DEF u
  <2>4. Sound(u) /\ Objects(u) = Objects(t) \cup {obj}
    BY <1>1, <1>8, <1>10, <2>2, <2>3, KeysAssumption
  <2>. QED
    BY <1>10, <2>4 DEF insert_at, Outcome, u
<1>11. CASE ~(size(t) >= MaxSize) /\ ~test_deleted(t, pos)
  <2>. DEFINE u == [t EXCEPT !.table[pos] = obj, !.num_elements = @ + 1]
  <2>1. /\ u.table = tab /\ u.num_buckets = n /\ u.emptykey = e /\ u.delkey = t.delkey
        /\ u.settings = t.settings /\ u.num_elements = t.num_elements + 1
        /\ u.num_deleted = t.num_deleted
    BY <1>1 DEF tab, TableOf
  <2>2. t.num_elements + 1 \in Nat
    BY <1>1
  <2>3. IsTable(u)
    BY <1>1, <1>2, <2>2 DEF IsTable, TableOf, tab
  <2>. HIDE DEF u
  <2>4. Sound(u) /\ Objects(u) = Objects(t) \cup {obj}
    BY <1>1, <1>8, <1>11, <2>1, <2>3, KeysAssumption
  <2>. QED
    BY <1>11, <2>4 DEF insert_at, Outcome, u
<1>. QED
  BY <1>9, <1>10, <1>11

\* The reserved keys, which may not be inserted, and the grow factor are the same.
SameReserved(u, t) ==
  /\ u.emptykey = t.emptykey /\ u.delkey = t.delkey
  /\ u.settings.use_empty = t.settings.use_empty
  /\ u.settings.use_deleted = t.settings.use_deleted
  /\ u.settings.enlarge_factor = t.settings.enlarge_factor

\* insert_at reserves no other keys.
LEMMA InsertAtReserves ==
  ASSUME NEW t, Sound(t), NEW obj, NEW pos
  PROVE  SameReserved(insert_at(t, obj, pos).ht, t)
<1>1. t \in TableOf(t.num_buckets)
  BY Fields DEF Sound
<1>2. SameReserved([t EXCEPT !.table[pos] = obj, !.num_deleted = @ - 1], t)
  BY <1>1 DEF SameReserved, TableOf
<1>3. SameReserved([t EXCEPT !.table[pos] = obj, !.num_elements = @ + 1], t)
  BY <1>1 DEF SameReserved, TableOf
<1>4. SameReserved(t, t)
  BY DEF SameReserved
<1>. QED
  BY <1>2, <1>3, <1>4 DEF insert_at, Outcome

\* insert_noresize puts the object where find_position says, or nowhere.
LEMMA InsertNoresizeSound ==
  ASSUME NEW t, Sound(t), NEW obj \in Slot, Allowed(t, obj.key)
  PROVE  LET u == insert_noresize(t, obj).ht IN Sound(u) /\ SameReserved(u, t)
<1>. DEFINE p == find_position(t, obj.key)
            u == insert_noresize(t, obj).ht
<1>1. obj.key \in Key /\ t.settings.use_empty
  BY DEF Slot, Allowed
<1>2. p.first = ILLEGAL_BUCKET /\ p.second # ILLEGAL_BUCKET => Free(t, obj.key, p.second)
  BY <1>1, FindPosition
<1>. HIDE DEF p
<1>3. CASE search_fails(p) \/ p.first # ILLEGAL_BUCKET
  <2>1. u = t
    BY <1>3 DEF insert_noresize, Outcome, p
  <2>. QED
    BY <2>1 DEF SameReserved
<1>4. CASE ~search_fails(p) /\ p.first = ILLEGAL_BUCKET
  <2>1. u = insert_at(t, obj, p.second).ht
    BY <1>4 DEF insert_noresize, p
  <2>2. Free(t, obj.key, p.second)
    BY <1>2, <1>4 DEF search_fails
  <2>. QED
    BY <2>1, <2>2, InsertAtSound, InsertAtReserves
<1>. QED
  BY <1>3, <1>4

\* insert of one object: resize_delta, then insert_noresize.
LEMMA InsertSound ==
  ASSUME NEW t, Sound(t), NEW obj \in Slot, Allowed(t, obj.key)
  PROVE  Sound(insert(t, obj).ht)
<1>1. Sound(resize_delta(t, 1).ht) /\ SameMap(resize_delta(t, 1).ht, t)
  BY ResizeDeltaSound DEF Resized
<1>2. Allowed(resize_delta(t, 1).ht, obj.key)
  BY <1>1 DEF Allowed, SameMap
<1>3. Sound(insert_noresize(resize_delta(t, 1).ht, obj).ht)
  BY <1>1, <1>2, InsertNoresizeSound
<1>. QED
  BY <1>1, <1>3 DEF insert

\* operator[] uses the position it found only if no object has moved since.
LEMMA FindOrInsertSound ==
  ASSUME NEW t, Sound(t), NEW k \in Key, Allowed(t, k)
  PROVE  LET u == find_or_insert(t, k).ht IN Sound(u) /\ SameReserved(u, t)
<1>. DEFINE obj == [key |-> k, val |-> DefaultVal]
            p   == find_position(t, k)
            r   == resize_delta(t, 1)
<1>1. obj \in Slot /\ obj.key = k
  BY KeysAssumption DEF Slot
<1>2. Resized(r, t)
  BY ResizeDeltaSound
<1>3. p.first = ILLEGAL_BUCKET /\ p.second # ILLEGAL_BUCKET => Free(t, k, p.second)
  BY FindPosition DEF Allowed
<1>. HIDE DEF obj, p, r
<1>4. Allowed(r.ht, k)
  BY <1>2 DEF Allowed, Resized, SameMap
<1>. DEFINE OK(u) == Sound(u.ht) /\ SameReserved(u.ht, t)
<1>5. OK(r) /\ OK(Outcome(t, "table_full")) /\ OK(Outcome(t, "present"))
  BY <1>2 DEF Resized, SameMap, SameReserved, Outcome
<1>6. OK(insert_noresize(r.ht, obj))
  <2>1. Sound(insert_noresize(r.ht, obj).ht) /\ SameReserved(insert_noresize(r.ht, obj).ht, r.ht)
    BY <1>1, <1>2, <1>4, InsertNoresizeSound DEF Resized
  <2>. QED
    BY <1>5, <2>1 DEF SameReserved
<1>7. ASSUME r.res = "kept", Free(t, k, p.second)
      PROVE  OK(insert_at(r.ht, obj, p.second))
  <2>1. SameBuckets(r.ht, t)
    BY <1>2, <1>7 DEF Resized
  <2>2. LiveBuckets(r.ht) = LiveBuckets(t) /\ Buckets(r.ht) = Buckets(t)
    BY <2>1 DEF SameBuckets, LiveBuckets, Buckets, test_empty, test_deleted
  <2>3. Free(r.ht, k, p.second)
    BY <1>7, <2>1, <2>2 DEF SameBuckets, Free, test_empty, test_deleted
  <2>4. /\ Sound(insert_at(r.ht, obj, p.second).ht)
        /\ SameReserved(insert_at(r.ht, obj, p.second).ht, r.ht)
    BY <1>1, <1>2, <1>4, <2>3, InsertAtSound, InsertAtReserves DEF Resized
  <2>. QED
    BY <1>5, <2>4 DEF SameReserved
<1>. HIDE DEF OK
<1>8. find_or_insert(t, k) =
        IF search_fails(p) THEN Outcome(t, "table_full")
        ELSE IF p.first # ILLEGAL_BUCKET THEN Outcome(t, "present")
        ELSE IF r.res = "length_error" THEN r
        ELSE IF r.res = "resized" THEN insert_noresize(r.ht, obj)
        ELSE insert_at(r.ht, obj, p.second)
  BY DEF find_or_insert, obj, p, r
<1>9. OK(find_or_insert(t, k))
  BY <1>2, <1>3, <1>5, <1>6, <1>7, <1>8 DEF Resized, search_fails
<1>. QED
  BY <1>9 DEF OK

\* insert_noresize of one object after the other, up to a throw.
LEMMA InsertEachSound ==
  ASSUME NEW t, Sound(t), NEW objs, Len(objs) \in Nat,
         \A i \in 1 .. Len(objs) : objs[i] \in Slot /\ Allowed(t, objs[i].key)
  PROVE  Sound(insert_each(t, objs)[Len(objs)].ht)
<1>. DEFINE each  == insert_each(t, objs)
            OK(r) == Sound(r.ht) /\ SameReserved(r.ht, t)
            Bad   == {n \in 0 .. Len(objs) : ~OK(each[n])}
<1>1. /\ each[0] = Outcome(t, "ok")
      /\ \A i \in 1 .. Len(objs) : each[i] = insert_next(each[i - 1], objs[i])
  BY InsertEachUnfolds
<1>. HIDE DEF each
<1>2. OK(each[0])
  BY <1>1 DEF Outcome, SameReserved
<1>3. ASSUME NEW i \in 1 .. Len(objs), OK(each[i - 1]) PROVE OK(each[i])
  <2>. DEFINE r == each[i - 1]
              u == insert_noresize(r.ht, objs[i])
  <2>1. Allowed(r.ht, objs[i].key)
    BY <1>3 DEF Allowed, SameReserved
  <2>2. Sound(u.ht) /\ SameReserved(u.ht, r.ht)
    BY <1>3, <2>1, InsertNoresizeSound
  <2>. HIDE DEF u
  <2>3. OK(u)
    BY <1>3, <2>2 DEF SameReserved
  <2>4. insert_next(r, objs[i]) =
          IF r.res = "ok"
          THEN IF u.res \in {"inserted", "present"} THEN Outcome(u.ht, "ok") ELSE u
          ELSE r
    BY DEF insert_next, u
  <2>5. OK(Outcome(u.ht, "ok"))
    BY <2>3 DEF Outcome
  <2>. QED
    BY <1>1, <1>3, <2>3, <2>4, <2>5
<1>. HIDE DEF OK
<1>4. Bad = {}
  <2>. SUFFICES ASSUME Bad # {} PROVE FALSE
    OBVIOUS
  <2>. Bad \in SUBSET Nat
    OBVIOUS
  <2>1. PICK n \in Bad : \A m \in Bad : n <= m
    BY LeastNumber
  <2>2. n # 0
    BY <1>2
  <2>3. n \in 1 .. Len(objs) /\ n - 1 \in 0 .. Len(objs) /\ ~ (n <= n - 1)
    BY <2>2
  <2>4. OK(each[n - 1])
    BY <2>1, <2>3
  <2>. QED
    BY <1>3, <2>3, <2>4
<1>5. Len(objs) \in 0 .. Len(objs)
  OBVIOUS
<1>6. OK(each[Len(objs)])
  BY <1>4, <1>5
<1>. QED
  BY <1>6 DEF each, OK

\* insert of a range: one resize for all of it.
LEMMA InsertRangeSound ==
  ASSUME NEW t, Sound(t), NEW objs, Len(objs) \in Nat,
         \A i \in 1 .. Len(objs) : objs[i] \in Slot /\ Allowed(t, objs[i].key)
  PROVE  Sound(insert_range(t, objs).ht)
<1>. DEFINE r == resize_delta(t, Len(objs))
<1>1. Sound(r.ht) /\ SameMap(r.ht, t)
  BY ResizeDeltaSound DEF Resized
<1>. HIDE DEF r
<1>2. \A i \in 1 .. Len(objs) : objs[i] \in Slot /\ Allowed(r.ht, objs[i].key)
  BY <1>1 DEF Allowed, SameMap
<1>3. Sound(insert_each(r.ht, objs)[Len(objs)].ht)
  BY <1>1, <1>2, InsertEachSound
<1>. QED
  BY <1>1, <1>3 DEF insert_range, Outcome, r

-----------------------------------------------------------------------------
(* What is done to objects in the table.                                   *)

\* u is sound, and its live buckets are those of S.
SoundWith(u, S) == Sound(u) /\ LiveBuckets(u) = S

\* A table whose buckets are in use as before, with the same keys in those
\* that are live and were before, and whose counters count, is sound; no other
\* bucket is live.
LEMMA FewerLiveSound ==
  ASSUME NEW t, Sound(t), t.settings.use_empty, NEW u, IsTable(u),
         u.table \in [Buckets(t) -> Slot], u.num_buckets = t.num_buckets,
         u.emptykey = t.emptykey, u.delkey = t.delkey,
         u.settings.enlarge_factor = t.settings.enlarge_factor,
         u.settings.use_empty = t.settings.use_empty,
         u.settings.use_deleted = t.settings.use_deleted,
         u.num_elements = t.num_elements, u.num_deleted >= t.num_deleted,
         u.num_deleted = Cardinality(Marked(u)), Marked(t) \subseteq Marked(u),
         \A i \in Buckets(t) \ Marked(u) : u.table[i].key = t.table[i].key,
         \A i \in Buckets(t) : u.table[i].key = t.emptykey <=> t.table[i].key = t.emptykey
  PROVE  SoundWith(u, LiveBuckets(t) \ Marked(u))
<1>. DEFINE n    == t.num_buckets
            e    == t.emptykey
            used == InUse(t.table, n, e)
<1>1. /\ n \in BucketCounts /\ n \in Nat /\ IsTable(t) /\ Populated(t)
      /\ u.num_elements \in Nat /\ u.num_deleted \in Nat /\ t.num_deleted \in Nat
      /\ size(t) \in Nat /\ size(t) <= MaxSize /\ RoomFor(t.settings)
      /\ Buckets(t) = 0 .. n - 1 /\ Buckets(u) = 0 .. n - 1
  BY Fields, SizeFits DEF Sound, Buckets
<1>2. InUse(u.table, n, e) = used
  BY <1>1 DEF InUse
<1>3. LiveBuckets(t) = used \ Marked(t) /\ LiveBuckets(u) = used \ Marked(u)
  <2>1. u.settings.use_deleted => u.delkey # u.emptykey
    BY <1>1 DEF Populated
  <2>2. u.table \in [Buckets(u) -> Slot]
    BY <1>1
  <2>3. LiveBuckets(u) = InUse(u.table, u.num_buckets, u.emptykey) \ Marked(u)
    BY <2>1, <2>2, LiveAreUnmarked
  <2>. QED
    BY <1>1, <1>2, <2>3, LiveCount
<1>4. \A i \in LiveBuckets(u) :
        /\ i \in 0 .. n - 1 /\ i \in LiveBuckets(t)
        /\ u.table[i].key = t.table[i].key /\ t.table[i].key \in Key
  <2>1. \A i \in LiveBuckets(u) :
          i \in 0 .. n - 1 /\ i \in LiveBuckets(t) /\ i \in Buckets(t) \ Marked(u)
    BY <1>1, <1>3 DEF InUse
  <2>. QED
    BY <1>1, <2>1 DEF Populated, Slot
<1>5. NoneTwice(u.table, LiveBuckets(u))
  <2>1. NoneTwice(t.table, LiveBuckets(t))
    BY <1>1 DEF Populated
  <2>. QED
    BY <1>4, <2>1 DEF NoneTwice
<1>6. ASSUME NEW j \in LiveBuckets(u) PROVE Reached(u.table, n, e, j)
  <2>. DEFINE k == t.table[j].key
  <2>1. PICK p \in 0 .. n - 1 :
          /\ Probe(k, p, n) = j
          /\ \A q \in 0 .. p - 1 : t.table[Probe(k, q, n)].key # e
    BY <1>1, <1>4 DEF Populated, Reached
  <2>2. k \in Key /\ u.table[j].key = k
    BY <1>4
  <2>. HIDE DEF k
  <2>3. ASSUME NEW q \in 0 .. p - 1 PROVE u.table[Probe(k, q, n)].key # e
    <3>1. q \in 0 .. n - 1 /\ Probe(k, q, n) \in 0 .. n - 1
      BY <1>1, <2>2, ProbesEveryBucket
    <3>. QED
      BY <1>1, <2>1, <3>1
  <2>. QED
    BY <2>1, <2>2, <2>3 DEF Reached
<1>7. u.num_elements = Cardinality(InUse(u.table, n, e))
  BY <1>1, <1>2 DEF Populated
<1>8. Populated(u)
  BY <1>1, <1>5, <1>6, <1>7 DEF Populated
<1>9. size(u) <= MaxSize
  BY <1>1, KeysAssumption DEF size
<1>10. RoomFor(u.settings)
  BY <1>1, SameRoom
<1>11. LiveBuckets(u) = LiveBuckets(t) \ Marked(u)
  BY <1>3
<1>. QED
  BY <1>8, <1>9, <1>10, <1>11 DEF Sound, SoundWith

\* Live buckets that become deleted ones, as many as are counted.
LEMMA DeletedSound ==
  ASSUME NEW t, Sound(t), t.settings.use_empty, t.settings.use_deleted,
         NEW gone \in SUBSET LiveBuckets(t), NEW u, IsTable(u),
         u.table = [i \in Buckets(t) |-> IF i \in gone THEN DeletedBucket(t) ELSE t.table[i]],
         u.num_buckets = t.num_buckets,
         u.emptykey = t.emptykey, u.delkey = t.delkey,
         u.settings.enlarge_factor = t.settings.enlarge_factor,
         u.settings.use_empty, u.settings.use_deleted,
         u.num_elements = t.num_elements,
         u.num_deleted = t.num_deleted + Cardinality(gone)
  PROVE  SoundWith(u, LiveBuckets(t) \ gone)
<1>1. /\ IsTable(t) /\ Populated(t) /\ t.num_buckets \in Nat /\ t.num_deleted \in Nat
      /\ t.delkey \in Key /\ t.delkey # t.emptykey
  BY Fields DEF Sound, Populated
<1>2. /\ LiveBuckets(t) = InUse(t.table, t.num_buckets, t.emptykey) \ Marked(t)
      /\ LiveBuckets(t) \subseteq Buckets(t)
      /\ IsFiniteSet(InUse(t.table, t.num_buckets, t.emptykey))
      /\ Marked(t) \subseteq InUse(t.table, t.num_buckets, t.emptykey)
  BY <1>1, LiveCount, InUseFinite, LiveBucketsFinite DEF Buckets
<1>3. IsFiniteSet(gone) /\ IsFiniteSet(Marked(t)) /\ gone \cap Marked(t) = {}
      /\ Cardinality(gone) \in Nat
  BY <1>1, <1>2, LiveBucketsFinite, FS_Subset
<1>4. Marked(u) = Marked(t) \cup gone
  <2>1. Buckets(u) = Buckets(t) /\ gone \subseteq Buckets(t)
    BY <1>2 DEF Buckets
  <2>2. \A i \in Buckets(t) : u.table[i].key = t.delkey <=> i \in gone \/ t.table[i].key = t.delkey
    BY DEF DeletedBucket
  <2>. QED
    BY <2>1, <2>2 DEF Marked
<1>5. u.num_deleted = Cardinality(Marked(u))
  <2>1. Cardinality(Marked(t) \cup gone) =
          Cardinality(Marked(t)) + Cardinality(gone) - Cardinality(Marked(t) \cap gone)
    BY <1>3, FS_Union
  <2>2. Cardinality(Marked(t) \cap gone) = 0
    <3>1. Marked(t) \cap gone = {}
      BY <1>3
    <3>. QED
      BY <3>1, FS_EmptySet
  <2>3. t.num_deleted = Cardinality(Marked(t))
    BY <1>1 DEF Populated
  <2>. QED
    BY <1>1, <1>3, <1>4, <2>1, <2>2, <2>3
<1>6. u.table \in [Buckets(t) -> Slot]
  <2>1. DeletedBucket(t) \in Slot
    BY <1>1, KeysAssumption DEF DeletedBucket, Slot
  <2>. QED
    BY <1>1, <2>1 DEF Populated
<1>7. \A i \in Buckets(t) \ Marked(u) : u.table[i].key = t.table[i].key
  BY <1>4
<1>8. \A i \in Buckets(t) : u.table[i].key = t.emptykey <=> t.table[i].key = t.emptykey
  <2>1. \A i \in gone : t.table[i].key # t.emptykey
    BY <1>2 DEF InUse
  <2>. QED
    BY <1>1, <2>1 DEF DeletedBucket
<1>9. u.num_deleted >= t.num_deleted
  BY <1>1, <1>3
<1>10. Marked(t) \subseteq Marked(u)
  BY <1>4
<1>11. LiveBuckets(t) \ Marked(u) = LiveBuckets(t) \ gone
  BY <1>2, <1>4
<1>12. SoundWith(u, LiveBuckets(t) \ Marked(u))
  BY <1>5, <1>6, <1>7, <1>8, <1>9, <1>10, FewerLiveSound
<1>. QED
  BY <1>11, <1>12

\* erase(iterator), of a live object or of a bucket deleted before.
LEMMA EraseAtSound ==
  ASSUME NEW t, Sound(t), t.settings.use_empty, t.settings.use_deleted,
         NEW pos \in Buckets(t), pos \in LiveBuckets(t) \/ test_deleted(t, pos)
  PROVE  LET u == erase_at(t, pos)
         IN  Sound(u) /\ LiveBuckets(u) = LiveBuckets(t) \ {pos}
<1>1. /\ t \in TableOf(t.num_buckets) /\ t.num_buckets \in BucketCounts
      /\ t.settings \in Settings /\ t.num_deleted \in Nat /\ t.delkey \in Key
      /\ IsTable(t) /\ Populated(t) /\ t.table \in [Buckets(t) -> Slot]
  BY Fields DEF Sound, Populated
<1>2. DeletedBucket(t) \in Slot /\ DeletedBucket(t).key = t.delkey
  BY <1>1, KeysAssumption DEF DeletedBucket, Slot
<1>. DEFINE tab == [t.table EXCEPT ![pos] = DeletedBucket(t)]
<1>3. tab \in [Buckets(t) -> Slot]
  BY <1>1, <1>2
<1>4. CASE test_deleted(t, pos)
  <2>. DEFINE u == [t EXCEPT !.table[pos] = DeletedBucket(t)]
  <2>1. /\ u.table = tab /\ u.num_buckets = t.num_buckets
        /\ u.emptykey = t.emptykey /\ u.delkey = t.delkey /\ u.settings = t.settings
        /\ u.num_elements = t.num_elements /\ u.num_deleted = t.num_deleted
    BY <1>1 DEF TableOf
  <2>2. IsTable(u)
    BY <1>1, <1>3 DEF IsTable, TableOf, Buckets
  <2>. HIDE DEF u
  <2>3. \A i \in Buckets(t) : u.table[i].key = t.table[i].key
    BY <1>1, <1>2, <1>4, <2>1 DEF test_deleted
  <2>4. Marked(u) = Marked(t)
    BY <2>1, <2>3 DEF Marked, Buckets
  <2>5. u.num_deleted >= t.num_deleted /\ u.num_deleted = Cardinality(Marked(u))
    BY <1>1, <2>1, <2>4 DEF Populated
  <2>6. SoundWith(u, LiveBuckets(t) \ Marked(u))
    BY <1>3, <2>1, <2>2, <2>3, <2>4, <2>5, FewerLiveSound
  <2>7. LiveBuckets(t) \ Marked(t) = LiveBuckets(t) /\ pos \notin LiveBuckets(t)
    BY <1>1, <1>4, LiveCount DEF LiveBuckets
  <2>8. Sound(u) /\ LiveBuckets(u) = LiveBuckets(t) \ {pos}
    BY <2>4, <2>6, <2>7 DEF SoundWith
  <2>. QED
    BY <1>4, <2>8 DEF erase_at, u
<1>5. CASE ~test_deleted(t, pos)
  <2>. DEFINE u == [t EXCEPT !.table[pos] = DeletedBucket(t), !.num_deleted = @ + 1,
                             !.settings.consider_shrink = TRUE]
  <2>1. /\ u.table = tab /\ u.num_buckets = t.num_buckets
        /\ u.emptykey = t.emptykey /\ u.delkey = t.delkey
        /\ u.settings = [t.settings EXCEPT !.consider_shrink = TRUE]
        /\ u.num_elements = t.num_elements /\ u.num_deleted = t.num_deleted + 1
    BY <1>1 DEF TableOf
  <2>2. t.num_deleted + 1 \in Nat /\ [t.settings EXCEPT !.consider_shrink = TRUE] \in Settings
    <3>1. t.num_deleted + 1 \in Nat
      BY <1>1
    <3>2. [t.settings EXCEPT !.consider_shrink = TRUE] \in Settings
      BY <1>1 DEF Settings
    <3>. QED
      BY <3>1, <3>2
  <2>3. IsTable(u)
    BY <1>1, <1>3, <2>2 DEF IsTable, TableOf, Buckets
  <2>. HIDE DEF u
  <2>4. /\ u.settings.enlarge_factor = t.settings.enlarge_factor
        /\ u.settings.use_empty /\ u.settings.use_deleted
    BY <1>1, <2>1 DEF Settings
  <2>5. {pos} \in SUBSET LiveBuckets(t) /\ Cardinality({pos}) = 1
    BY <1>5, FS_Singleton
  <2>6. u.table = [i \in Buckets(t) |-> IF i \in {pos} THEN DeletedBucket(t) ELSE t.table[i]]
    BY <1>1, <2>1
  <2>7. u.num_deleted = t.num_deleted + Cardinality({pos})
    BY <2>1, <2>5
  <2>8. SoundWith(u, LiveBuckets(t) \ {pos})
    BY <2>1, <2>3, <2>4, <2>5, <2>6, <2>7, DeletedSound
  <2>. QED
    BY <1>5, <2>8 DEF erase_at, u, SoundWith
<1>. QED
  BY <1>4, <1>5

\* erase(key).
LEMMA EraseSound ==
  ASSUME NEW t, Sound(t), t.settings.use_deleted, NEW k \in Key
  PROVE  Sound(erase(t, k).ht)
<1>. DEFINE p == find_position(t, k)
<1>1. CASE size(t) = 0
  BY <1>1 DEF erase, Outcome
<1>2. CASE size(t) # 0
  <2>1. t.settings.use_empty
    BY <1>2 DEF Sound, Blank, size
  <2>2. p.first # ILLEGAL_BUCKET => p.first \in LiveBuckets(t)
    BY <2>1, FindPosition
  <2>. HIDE DEF p
  <2>3. LiveBuckets(t) \subseteq Buckets(t)
    BY DEF LiveBuckets
  <2>4. p.first # ILLEGAL_BUCKET => Sound(erase_at(t, p.first))
    BY <2>1, <2>2, <2>3, EraseAtSound
  <2>. QED
    BY <1>2, <2>4 DEF erase, Outcome, p
<1>. QED
  BY <1>1, <1>2

\* erase(f, l).
LEMMA EraseRangeSound ==
  ASSUME NEW t, Sound(t), t.settings.use_empty, t.settings.use_deleted, NEW f, NEW l
  PROVE  LET u == erase_range(t, f, l)
         IN  /\ Sound(u)
             /\ LiveBuckets(u) = LiveBuckets(t) \ {i \in LiveBuckets(t) : f <= i /\ i < l}
<1>. DEFINE gone == {i \in LiveBuckets(t) : f <= i /\ i < l}
            tab  == [i \in Buckets(t) |->
                       IF i \in gone THEN DeletedBucket(t) ELSE t.table[i]]
            u    == erase_range(t, f, l)
<1>1. /\ t \in TableOf(t.num_buckets) /\ t.num_buckets \in BucketCounts
      /\ t.num_buckets \in Nat
      /\ t.settings \in Settings /\ t.num_deleted \in Nat /\ t.delkey \in Key
      /\ t.table \in [Buckets(t) -> Slot]
  BY Fields DEF Sound, Populated
<1>2. gone \in SUBSET LiveBuckets(t) /\ Cardinality(gone) \in Nat
  BY <1>1, LiveBucketsFinite
<1>. HIDE DEF gone
<1>3. tab \in [Buckets(t) -> Slot]
  <2>1. DeletedBucket(t) \in Slot
    BY <1>1, KeysAssumption DEF DeletedBucket, Slot
  <2>. QED
    BY <1>1, <2>1
<1>4. u = [t EXCEPT !.table = tab, !.num_deleted = t.num_deleted + Cardinality(gone),
                    !.settings = [t.settings EXCEPT !.consider_shrink = TRUE]]
  BY <1>1 DEF erase_range, gone, TableOf
<1>. HIDE DEF u, tab
<1>5. /\ u.table = tab /\ u.num_buckets = t.num_buckets
      /\ u.emptykey = t.emptykey /\ u.delkey = t.delkey
      /\ u.settings = [t.settings EXCEPT !.consider_shrink = TRUE]
      /\ u.num_elements = t.num_elements
      /\ u.num_deleted = t.num_deleted + Cardinality(gone)
  BY <1>1, <1>4 DEF TableOf
<1>6. t.num_deleted + Cardinality(gone) \in Nat
      /\ [t.settings EXCEPT !.consider_shrink = TRUE] \in Settings
  <2>1. t.num_deleted + Cardinality(gone) \in Nat
    BY <1>1, <1>2
  <2>2. [t.settings EXCEPT !.consider_shrink = TRUE] \in Settings
    BY <1>1 DEF Settings
  <2>. QED
    BY <2>1, <2>2
<1>7. IsTable(u)
  BY <1>1, <1>3, <1>4, <1>6 DEF IsTable, TableOf, Buckets
<1>8. /\ u.settings.enlarge_factor = t.settings.enlarge_factor
      /\ u.settings.use_empty /\ u.settings.use_deleted
  BY <1>1, <1>5 DEF Settings
<1>9. u.table = [i \in Buckets(t) |-> IF i \in gone THEN DeletedBucket(t) ELSE t.table[i]]
  BY <1>5 DEF tab
<1>10. SoundWith(u, LiveBuckets(t) \ gone)
  BY <1>2, <1>5, <1>7, <1>8, <1>9, DeletedSound
<1>. QED
  BY <1>10 DEF u, gone, SoundWith

\* An assignment through a reference changes a value, never a key.
LEMMA ValueSound ==
  ASSUME NEW t, Sound(t), t.settings.use_empty, NEW pos, NEW v \in Val
  PROVE  LET u == [t EXCEPT !.table[pos].val = v]
         IN  Sound(u) /\ LiveBuckets(u) = LiveBuckets(t)
<1>. DEFINE tab == [t.table EXCEPT ![pos].val = v]
            u   == [t EXCEPT !.table[pos].val = v]
<1>1. /\ t \in TableOf(t.num_buckets) /\ t.num_buckets \in BucketCounts
      /\ IsTable(t) /\ Populated(t) /\ t.table \in [Buckets(t) -> Slot]
      /\ t.num_deleted \in Nat
  BY Fields DEF Sound, Populated
<1>2. tab \in [Buckets(t) -> Slot] /\ \A i \in Buckets(t) : tab[i].key = t.table[i].key
  BY <1>1 DEF Slot
<1>3. /\ u.table = tab /\ u.num_buckets = t.num_buckets
      /\ u.emptykey = t.emptykey /\ u.delkey = t.delkey /\ u.settings = t.settings
      /\ u.num_elements = t.num_elements /\ u.num_deleted = t.num_deleted
  BY <1>1 DEF TableOf
<1>4. IsTable(u)
  BY <1>1, <1>2 DEF IsTable, TableOf, Buckets
<1>. HIDE DEF u, tab
<1>5. Marked(u) = Marked(t)
  BY <1>2, <1>3 DEF Marked, Buckets
<1>6. u.num_deleted >= t.num_deleted /\ u.num_deleted = Cardinality(Marked(u))
  BY <1>1, <1>3, <1>5 DEF Populated
<1>7. SoundWith(u, LiveBuckets(t) \ Marked(u))
  BY <1>2, <1>3, <1>4, <1>5, <1>6, FewerLiveSound
<1>8. LiveBuckets(t) \ Marked(t) = LiveBuckets(t)
  BY <1>1, LiveCount
<1>9. Sound(u) /\ LiveBuckets(u) = LiveBuckets(t)
  BY <1>5, <1>7, <1>8 DEF SoundWith
<1>. QED
  BY <1>9 DEF u

-----------------------------------------------------------------------------
(* What the methods do to the objects.                                     *)

\* The keys in a table are those of its objects.
LEMMA KeysOfObjects ==
  ASSUME NEW t
  PROVE  Keys(t) = {obj.key : obj \in Objects(t)}
  BY DEF Keys, Objects

\* What an insertion of obj into t may do: the key is new and the object is
\* there now, or the key was there, or nothing happened.
Inserted(r, t, obj) ==
  \/ /\ r.res = "inserted"
     /\ obj.key \notin Keys(t) /\ Objects(r.ht) = Objects(t) \cup {obj}
  \/ /\ r.res = "present"
     /\ obj.key \in Keys(t) /\ Objects(r.ht) = Objects(t)
  \/ /\ r.res \in {"length_error", "table_full"}
     /\ Objects(r.ht) = Objects(t)

\* Only the objects of t matter.
LEMMA InsertedInto ==
  ASSUME NEW r, NEW t, NEW u, NEW obj, Inserted(r, u, obj), Objects(u) = Objects(t)
  PROVE  Inserted(r, t, obj)
<1>1. Keys(u) = Keys(t)
  BY KeysOfObjects
<1>. QED
  BY <1>1 DEF Inserted

\* insert_at, into a free bucket.
LEMMA InsertAtInserts ==
  ASSUME NEW t, Sound(t), NEW obj \in Slot, Allowed(t, obj.key), NEW pos,
         Free(t, obj.key, pos)
  PROVE  Inserted(insert_at(t, obj, pos), t, obj)
<1>. DEFINE r == insert_at(t, obj, pos)
<1>1. obj.key \notin Keys(t)
  BY DEF Free, Keys
<1>2. CASE size(t) >= MaxSize
  BY <1>2 DEF insert_at, Outcome, Inserted
<1>3. CASE ~(size(t) >= MaxSize)
  <2>1. size(t) < MaxSize
    BY <1>3, SizeFits, KeysAssumption
  <2>2. Objects(r.ht) = Objects(t) \cup {obj}
    BY <2>1, InsertAtSound
  <2>3. r.res = "inserted"
    BY <1>3 DEF insert_at, Outcome
  <2>. QED
    BY <1>1, <2>2, <2>3 DEF Inserted
<1>. QED
  BY <1>2, <1>3

\* insert_noresize: the search tells a key that is there from one that is not.
LEMMA InsertNoresizeInserts ==
  ASSUME NEW t, Sound(t), NEW obj \in Slot, Allowed(t, obj.key)
  PROVE  Inserted(insert_noresize(t, obj), t, obj)
<1>. DEFINE p == find_position(t, obj.key)
<1>1. /\ p.first # ILLEGAL_BUCKET =>
           p.first \in LiveBuckets(t) /\ t.table[p.first].key = obj.key
      /\ p.first = ILLEGAL_BUCKET /\ p.second # ILLEGAL_BUCKET =>
           Free(t, obj.key, p.second)
  BY FindPosition DEF Slot, Allowed
<1>. HIDE DEF p
<1>2. insert_noresize(t, obj) = IF search_fails(p) THEN Outcome(t, "table_full")
                                ELSE IF p.first # ILLEGAL_BUCKET THEN Outcome(t, "present")
                                ELSE insert_at(t, obj, p.second)
  BY DEF insert_noresize, p
<1>3. CASE search_fails(p)
  BY <1>2, <1>3 DEF Outcome, Inserted
<1>4. CASE ~search_fails(p) /\ p.first # ILLEGAL_BUCKET
  <2>1. obj.key \in Keys(t)
    BY <1>1, <1>4 DEF Keys
  <2>. QED
    BY <1>2, <1>4, <2>1 DEF Outcome, Inserted
<1>5. CASE ~search_fails(p) /\ p.first = ILLEGAL_BUCKET
  <2>1. Inserted(insert_at(t, obj, p.second), t, obj)
    BY <1>1, <1>5, InsertAtInserts DEF search_fails
  <2>. QED
    BY <1>2, <1>5, <2>1
<1>. QED
  BY <1>3, <1>4, <1>5

\* insert, whatever it resized first.
LEMMA InsertInserts ==
  ASSUME NEW t, Sound(t), NEW obj \in Slot, Allowed(t, obj.key)
  PROVE  Inserted(insert(t, obj), t, obj)
<1>. DEFINE r == resize_delta(t, 1)
<1>1. Sound(r.ht) /\ SameMap(r.ht, t) /\ r.res \in {"kept", "resized", "length_error"}
  BY ResizeDeltaSound DEF Resized
<1>2. insert(t, obj) = IF r.res = "length_error" THEN r ELSE insert_noresize(r.ht, obj)
  BY DEF insert
<1>. HIDE DEF r
<1>3. CASE r.res = "length_error"
  BY <1>1, <1>2, <1>3 DEF Inserted, SameMap
<1>4. CASE r.res # "length_error"
  <2>1. Allowed(r.ht, obj.key)
    BY <1>1 DEF Allowed, SameMap
  <2>2. Inserted(insert_noresize(r.ht, obj), r.ht, obj)
    BY <1>1, <2>1, InsertNoresizeInserts
  <2>. QED
    BY <1>1, <1>2, <1>4, <2>2, InsertedInto DEF SameMap
<1>. QED
  BY <1>3, <1>4

\* The keys of the objects in the buckets of S.
KeysIn(t, S) == {t.table[i].key : i \in S}

\* The objects of a table some buckets of which were erased.
LEMMA ErasedObjects ==
  ASSUME NEW t, Sound(t), NEW u, NEW S \in SUBSET LiveBuckets(t),
         LiveBuckets(u) = LiveBuckets(t) \ S,
         \A i \in LiveBuckets(t) \ S : u.table[i] = t.table[i]
  PROVE  \A obj : obj \in Objects(u) <=> obj \in Objects(t) /\ obj.key \notin KeysIn(t, S)
<1>1. \A i, j \in LiveBuckets(t) : t.table[i].key = t.table[j].key => i = j
  BY DEF Sound, Populated, NoneTwice, Blank, LiveBuckets
<1>2. \A i \in LiveBuckets(t) : i \in S <=> t.table[i].key \in KeysIn(t, S)
  BY <1>1 DEF KeysIn
<1>3. ASSUME NEW obj \in Objects(u) PROVE obj \in Objects(t) /\ obj.key \notin KeysIn(t, S)
  <2>1. PICK i \in LiveBuckets(t) \ S : obj = t.table[i]
    BY DEF Objects
  <2>. QED
    BY <1>2, <2>1 DEF Objects
<1>4. ASSUME NEW obj \in Objects(t), obj.key \notin KeysIn(t, S) PROVE obj \in Objects(u)
  <2>1. PICK i \in LiveBuckets(t) : obj = t.table[i]
    BY DEF Objects
  <2>. QED
    BY <1>2, <1>4, <2>1 DEF Objects
<1>. QED
  BY <1>3, <1>4

\* erase_at touches no other bucket.
LEMMA EraseAtErases ==
  ASSUME NEW t, Sound(t), t.settings.use_empty, t.settings.use_deleted,
         NEW pos \in Buckets(t), pos \in LiveBuckets(t) \/ test_deleted(t, pos)
  PROVE  /\ Sound(erase_at(t, pos))
         /\ LiveBuckets(erase_at(t, pos)) = LiveBuckets(t) \ {pos}
         /\ erase_at(t, pos).num_buckets = t.num_buckets
         /\ \A i \in LiveBuckets(t) \ {pos} : erase_at(t, pos).table[i] = t.table[i]
<1>. DEFINE u == erase_at(t, pos)
<1>1. /\ Sound(u)
      /\ LiveBuckets(u) = LiveBuckets(t) \ {pos}
  BY EraseAtSound
<1>2. t \in TableOf(t.num_buckets) /\ t.table \in [Buckets(t) -> Slot]
  BY Fields DEF Sound, Populated
<1>3. u.num_buckets = t.num_buckets /\ u.table = [t.table EXCEPT ![pos] = DeletedBucket(t)]
  BY <1>2 DEF erase_at, TableOf, Settings
<1>. HIDE DEF u
<1>4. \A i \in LiveBuckets(t) \ {pos} : u.table[i] = t.table[i]
  BY <1>2, <1>3 DEF LiveBuckets
<1>. QED
  BY <1>1, <1>3, <1>4 DEF u

-----------------------------------------------------------------------------
(* No table ever fills up.                                                 *)

\* After d more buckets are taken there is still an empty one.
Spare(t, d) == t.settings.enlarge_factor < 100 /\ t.num_elements + d < t.num_buckets

\* The table grows when it should for its size.
InTime(t) == t.settings.enlarge_threshold = enlarge_size(t.settings, t.num_buckets)

-----------------------------------------------------------------------------
(* Resizing.                                                               *)

\* A rehash leaves an empty bucket, whatever it was asked for.
LEMMA RehashSpare ==
  ASSUME NEW t, Sound(t), t.settings.enlarge_factor < 100, NEW wanted \in BucketCounts
  PROVE  LET u == swapped(copy_of(t, wanted))
         IN  Sound(u) /\ Spare(u, 0) /\ InTime(u) /\ u.num_elements = size(t)
             /\ wanted <= u.num_buckets
<1>. DEFINE u == swapped(copy_of(t, wanted))
<1>1. /\ Sound(u) /\ SameMap(u, t) /\ u.num_deleted = 0
      /\ wanted <= u.num_buckets /\ u.num_elements < u.num_buckets
      /\ u.settings.enlarge_threshold = enlarge_size(u.settings, u.num_buckets)
  BY RehashSound
<1>. HIDE DEF u
<1>2. u.num_elements \in Nat /\ u.num_buckets \in Nat
  BY <1>1, Fields DEF Sound
<1>3. u.num_elements = size(t)
  BY <1>1, <1>2 DEF SameMap, size
<1>4. Spare(u, 0)
  BY <1>1, <1>2 DEF Spare, SameMap
<1>. QED
  BY <1>1, <1>3, <1>4 DEF u, InTime

\* maybe_shrink.
LEMMA MaybeShrinkSpare ==
  ASSUME NEW t, Sound(t), Spare(t, 0), InTime(t)
  PROVE  LET u == maybe_shrink(t).ht IN Spare(u, 0) /\ InTime(u)
<1>. DEFINE sizes == {n \in BucketCounts :
                        /\ HT_DEFAULT_STARTING_BUCKETS <= n /\ n < t.num_buckets
                        /\ \/ n = HT_DEFAULT_STARTING_BUCKETS
                           \/ size(t) * 100 >= n * t.settings.shrink_factor}
            u == [t EXCEPT !.settings.consider_shrink = FALSE]
            OK(r) == Spare(r.ht, 0) /\ InTime(r.ht)
<1>1. OK(Outcome(u, "kept"))
  <2>1. t \in TableOf(t.num_buckets) /\ t.settings \in Settings
    BY Fields DEF Sound
  <2>2. /\ u.settings = [t.settings EXCEPT !.consider_shrink = FALSE]
        /\ u.num_elements = t.num_elements /\ u.num_buckets = t.num_buckets
    BY <2>1 DEF TableOf
  <2>. HIDE DEF u
  <2>3. /\ u.settings.enlarge_factor = t.settings.enlarge_factor
        /\ u.settings.enlarge_threshold = t.settings.enlarge_threshold
    BY <2>1, <2>2 DEF Settings
  <2>. QED
    BY <2>2, <2>3 DEF Spare, InTime, enlarge_size, Outcome
<1>2. ASSUME t.num_buckets > HT_DEFAULT_STARTING_BUCKETS
      PROVE  OK(Outcome(swapped(copy_of(t, Max(sizes))), "resized"))
  <2>1. sizes \in SUBSET (0 .. SizeMax) /\ SizeMax \in Nat
    BY SizesAssumption DEF BucketCounts
  <2>2. HT_DEFAULT_STARTING_BUCKETS \in sizes
    BY <1>2, StartingSizes, BucketCountIsPower, Fields DEF Sound
  <2>3. Max(sizes) \in sizes
    BY <2>1, <2>2, MaxIsMember
  <2>4. Max(sizes) \in BucketCounts
    BY <2>3
  <2>. HIDE DEF sizes
  <2>. QED
    BY <2>4, RehashSpare DEF Spare, Outcome
<1>. HIDE DEF OK
<1>3. OK(maybe_shrink(t))
  BY <1>1, <1>2 DEF maybe_shrink
<1>. QED
  BY <1>3 DEF OK

\* The rest of resize_delta makes room for delta objects, or throws.
LEMMA GrowSpare ==
  ASSUME NEW u, Sound(u.ht), Spare(u.ht, 0), InTime(u.ht), NEW delta \in Nat
  PROVE  LET r == grow_if_needed(u, delta)
         IN  Spare(r.ht, 0) /\ (r.res # "length_error" => Spare(r.ht, delta))
<1>. DEFINE t == u.ht
            s == t.settings
            n == t.num_elements
            c == swapped(copy_of(t, resize_to(t, delta)))
            OK(r) == Spare(r.ht, 0) /\ (r.res # "length_error" => Spare(r.ht, delta))
<1>1. /\ n \in Nat /\ t.num_buckets \in Nat /\ t.num_buckets \in BucketCounts
      /\ s.enlarge_factor \in Percent /\ s.enlarge_factor < 100 /\ n + delta \in Nat
  BY Fields DEF Sound, Spare
<1>2. ASSUME n + delta <= s.enlarge_threshold PROVE OK(u)
  <2>1. enlarge_size(s, t.num_buckets) < t.num_buckets
    BY <1>1, GrowsBeforeFull
  <2>2. enlarge_size(s, t.num_buckets) \in Nat
    BY <1>1, EnlargeGrows
  <2>3. n + delta < t.num_buckets
    BY <1>1, <1>2, <2>1, <2>2 DEF InTime
  <2>. QED
    BY <1>1, <2>3 DEF Spare
<1>3. ASSUME ~min_buckets_overflows(s, n + delta, 0),
             min_buckets(s, n + delta, 0) <= t.num_buckets
      PROVE  OK(u)
  <2>. DEFINE b == min_buckets(s, n + delta, 0)
  <2>1. PICK m \in BucketCounts : n + delta < enlarge_size(s, m)
    BY <1>3 DEF min_buckets_overflows, roomy_sizes
  <2>2. 0 \in Nat /\ 0 <= m
    BY BucketCountIsPower
  <2>3. b \in BucketCounts /\ n + delta < enlarge_size(s, b)
    BY <1>1, <2>1, <2>2, MinBuckets
  <2>4. b <= t.num_buckets
    BY <1>3
  <2>. HIDE DEF b
  <2>5. enlarge_size(s, b) \in Nat /\ enlarge_size(s, b) < b /\ b \in Nat
    BY <1>1, <2>3, GrowsBeforeFull, EnlargeGrows, BucketCountIsPower
  <2>6. n + delta < t.num_buckets
    BY <1>1, <2>3, <2>4, <2>5
  <2>. QED
    BY <1>1, <2>6 DEF Spare
<1>4. ASSUME ~min_buckets_overflows(s, n + delta, 0) PROVE OK(Outcome(c, "resized"))
  <2>. DEFINE wanted == resize_to(t, delta)
  <2>1. wanted \in BucketCounts /\ size(t) + delta < wanted
    BY <1>4, ResizeToSize
  <2>. HIDE DEF wanted
  <2>2. Sound(c) /\ Spare(c, 0) /\ c.num_elements = size(t) /\ wanted <= c.num_buckets
    BY <1>1, <2>1, RehashSpare DEF wanted
  <2>. HIDE DEF c
  <2>3. size(t) \in Nat /\ wanted \in Nat /\ c.num_buckets \in Nat
    BY <2>1, <2>2, SizeFits, Fields, BucketCountIsPower DEF Sound
  <2>4. c.num_elements + delta < c.num_buckets
    BY <2>1, <2>2, <2>3
  <2>. QED
    BY <2>2, <2>4 DEF Spare, Outcome
<1>5. OK(Outcome(t, "length_error"))
  BY DEF Outcome
<1>. HIDE DEF OK, c
<1>6. OK(grow_if_needed(u, delta))
  BY <1>2, <1>3, <1>4, <1>5 DEF grow_if_needed, c
<1>. QED
  BY <1>6 DEF OK

\* resize_delta makes room for delta objects, or throws.
LEMMA ResizeDeltaSpare ==
  ASSUME NEW t, Sound(t), Spare(t, 0), InTime(t), NEW delta \in Nat
  PROVE  LET r == resize_delta(t, delta)
         IN  Spare(r.ht, 0) /\ (r.res # "length_error" => Spare(r.ht, delta))
<1>. DEFINE u == IF t.settings.consider_shrink THEN maybe_shrink(t) ELSE Outcome(t, "kept")
<1>1. Sound(u.ht) /\ Spare(u.ht, 0) /\ InTime(u.ht)
  BY MaybeShrinkSound, MaybeShrinkSpare DEF Outcome, Resized
<1>. HIDE DEF u
<1>2. LET r == grow_if_needed(u, delta)
      IN  Spare(r.ht, 0) /\ (r.res # "length_error" => Spare(r.ht, delta))
  BY <1>1, GrowSpare
<1>. QED
  BY <1>2 DEF resize_delta, u

\* resize(n), for any n.
LEMMA ResizeSpare ==
  ASSUME NEW t, Sound(t), Spare(t, 0), InTime(t), NEW n \in Nat
  PROVE  Spare(resize(t, n).ht, 0)
<1>1. ASSUME NEW u, Sound(u), Spare(u, 0), InTime(u)
      PROVE  Spare((IF n > u.num_elements THEN resize_delta(u, n - u.num_elements)
                                          ELSE Outcome(u, "kept")).ht, 0)
  <2>1. CASE n > u.num_elements
    <3>1. n - u.num_elements \in Nat
      BY <1>1, <2>1, Fields DEF Sound
    <3>2. Spare(resize_delta(u, n - u.num_elements).ht, 0)
      BY <1>1, <3>1, ResizeDeltaSpare
    <3>. QED
      BY <2>1, <3>2
  <2>2. CASE ~(n > u.num_elements)
    BY <1>1, <2>2 DEF Outcome
  <2>. QED
    BY <2>1, <2>2
<1>2. Sound(maybe_shrink(t).ht) /\ Spare(maybe_shrink(t).ht, 0) /\ InTime(maybe_shrink(t).ht)
  BY MaybeShrinkSound, MaybeShrinkSpare DEF Resized
<1>. QED
  BY <1>1, <1>2 DEF resize

-----------------------------------------------------------------------------
(* Insertion.                                                              *)

\* Putting an object in a bucket takes at most that one.
LEMMA InsertAtSpare ==
  ASSUME NEW t, Sound(t), NEW d \in Nat, Spare(t, d + 1), NEW obj, NEW pos
  PROVE  Spare(insert_at(t, obj, pos).ht, d)
<1>1. /\ t \in TableOf(t.num_buckets) /\ t.num_elements \in Nat
      /\ t.num_buckets \in Nat
  BY Fields DEF Sound
<1>2. Spare(t, d)
  BY <1>1 DEF Spare
<1>3. ASSUME NEW u, u.settings = t.settings, u.num_buckets = t.num_buckets,
             u.num_elements \in {t.num_elements, t.num_elements + 1}
      PROVE  Spare(u, d)
  BY <1>1, <1>3 DEF Spare
<1>4. Spare([t EXCEPT !.table[pos] = obj, !.num_deleted = @ - 1], d)
  BY <1>1, <1>3 DEF TableOf
<1>5. Spare([t EXCEPT !.table[pos] = obj, !.num_elements = @ + 1], d)
  BY <1>1, <1>3 DEF TableOf
<1>. QED
  BY <1>2, <1>4, <1>5 DEF insert_at, Outcome

\* So does insert_noresize.
LEMMA InsertNoresizeSpare ==
  ASSUME NEW t, Sound(t), NEW d \in Nat, Spare(t, d + 1), NEW obj
  PROVE  Spare(insert_noresize(t, obj).ht, d)
<1>1. Spare(t, d)
  BY Fields DEF Spare, Sound
<1>2. \A pos : Spare(insert_at(t, obj, pos).ht, d)
  BY InsertAtSpare
<1>. QED
  BY <1>1, <1>2 DEF insert_noresize, Outcome

\* insert of one object, and operator[].
LEMMA InsertSpare ==
  ASSUME NEW t, Sound(t), Spare(t, 0), InTime(t), NEW obj, NEW k
  PROVE  Spare(insert(t, obj).ht, 0) /\ Spare(find_or_insert(t, k).ht, 0)
<1>. DEFINE r == resize_delta(t, 1)
            new == [key |-> k, val |-> DefaultVal]
            p == find_position(t, k)
<1>1. /\ Sound(r.ht) /\ Spare(r.ht, 0)
      /\ r.res # "length_error" => Spare(r.ht, 0 + 1)
  <2>1. 1 \in Nat /\ 0 + 1 = 1
    OBVIOUS
  <2>. QED
    BY <2>1, ResizeDeltaSpare, ResizeDeltaSound DEF Resized
<1>. HIDE DEF r, p
<1>2. ASSUME r.res # "length_error", NEW any, NEW pos
      PROVE  /\ Spare(insert_noresize(r.ht, any).ht, 0)
             /\ Spare(insert_at(r.ht, any, pos).ht, 0)
  BY <1>1, <1>2, InsertNoresizeSpare, InsertAtSpare
<1>3. Spare(insert(t, obj).ht, 0)
  BY <1>1, <1>2 DEF insert, r
<1>4. find_or_insert(t, k) =
        IF search_fails(p) THEN Outcome(t, "table_full")
        ELSE IF p.first # ILLEGAL_BUCKET THEN Outcome(t, "present")
        ELSE IF r.res = "length_error" THEN r
        ELSE IF r.res = "resized" THEN insert_noresize(r.ht, new)
        ELSE insert_at(r.ht, new, p.second)
  BY DEF find_or_insert, r, p
<1>5. Spare(Outcome(t, "table_full").ht, 0) /\ Spare(Outcome(t, "present").ht, 0)
  BY DEF Outcome
<1>. QED
  BY <1>1, <1>2, <1>3, <1>4, <1>5

\* insert of a range: room was made for all of it.
LEMMA InsertRangeSpare ==
  ASSUME NEW t, Sound(t), Spare(t, 0), InTime(t), NEW objs, Len(objs) \in Nat,
         \A i \in 1 .. Len(objs) : objs[i] \in Slot /\ Allowed(t, objs[i].key)
  PROVE  Spare(insert_range(t, objs).ht, 0)
<1>. DEFINE N == Len(objs)
            s == resize_delta(t, N)
            each == insert_each(s.ht, objs)
            OK(r, i) == Sound(r.ht) /\ SameReserved(r.ht, t) /\ Spare(r.ht, N - i)
            Bad == {n \in 0 .. N : ~OK(each[n], n)}
<1>1. Resized(s, t) /\ Spare(s.ht, 0) /\ (s.res # "length_error" => Spare(s.ht, N))
  BY ResizeDeltaSpare, ResizeDeltaSound
<1>2. /\ each[0] = Outcome(s.ht, "ok")
      /\ \A i \in 1 .. N : each[i] = insert_next(each[i - 1], objs[i])
  BY InsertEachUnfolds
<1>. HIDE DEF each, s
<1>3. ASSUME s.res # "length_error" PROVE OK(each[0], 0)
  <2>1. N - 0 = N
    OBVIOUS
  <2>. QED
    BY <1>1, <1>2, <1>3, <2>1 DEF Outcome, SameReserved, Resized, SameMap
<1>4. ASSUME NEW i \in 1 .. N, OK(each[i - 1], i - 1) PROVE OK(each[i], i)
  <2>. DEFINE r == each[i - 1]
              u == insert_noresize(r.ht, objs[i])
  <2>1. Allowed(r.ht, objs[i].key)
    BY <1>4 DEF Allowed, SameReserved
  <2>2. Sound(u.ht) /\ SameReserved(u.ht, r.ht)
    BY <1>4, <2>1, InsertNoresizeSound
  <2>3. N - i \in Nat /\ N - (i - 1) = (N - i) + 1
    OBVIOUS
  <2>4. Spare(u.ht, N - i) /\ Spare(r.ht, N - i)
    <3>1. Spare(r.ht, (N - i) + 1)
      BY <1>4, <2>3
    <3>2. r.ht.num_elements \in Nat /\ r.ht.num_buckets \in Nat
      BY <1>4, Fields DEF Sound
    <3>3. Spare(r.ht, N - i)
      BY <2>3, <3>1, <3>2 DEF Spare
    <3>4. Spare(u.ht, N - i)
      BY <1>4, <2>3, <3>1, InsertNoresizeSpare
    <3>. QED
      BY <3>3, <3>4
  <2>. HIDE DEF u
  <2>5. OK(u, i) /\ OK(r, i)
    BY <1>4, <2>2, <2>4 DEF SameReserved
  <2>6. insert_next(r, objs[i]) =
          IF r.res = "ok"
          THEN IF u.res \in {"inserted", "present"} THEN Outcome(u.ht, "ok") ELSE u
          ELSE r
    BY DEF insert_next, u
  <2>7. OK(Outcome(u.ht, "ok"), i)
    BY <2>5 DEF Outcome
  <2>. HIDE DEF OK
  <2>. QED
    BY <1>2, <2>5, <2>6, <2>7
<1>. HIDE DEF OK
<1>5. ASSUME s.res # "length_error" PROVE Bad = {}
  <2>. SUFFICES ASSUME Bad # {} PROVE FALSE
    OBVIOUS
  <2>. Bad \in SUBSET Nat
    OBVIOUS
  <2>1. PICK n \in Bad : \A m \in Bad : n <= m
    BY LeastNumber
  <2>2. n # 0
    BY <1>3, <1>5
  <2>3. n \in 1 .. N /\ n - 1 \in 0 .. N /\ ~ (n <= n - 1)
    BY <2>2
  <2>4. OK(each[n - 1], n - 1)
    BY <2>1, <2>3
  <2>. QED
    BY <1>4, <2>3, <2>4
<1>6. ASSUME s.res # "length_error" PROVE Spare(each[N].ht, 0)
  <2>1. N \in 0 .. N /\ N - N = 0
    OBVIOUS
  <2>2. OK(each[N], N)
    BY <1>5, <1>6, <2>1
  <2>. QED
    BY <2>1, <2>2 DEF OK
<1>7. Spare(Outcome(t, "length_error").ht, 0)
  BY DEF Outcome
<1>. QED
  BY <1>1, <1>6, <1>7 DEF insert_range, each, s

-----------------------------------------------------------------------------
(* The other methods.                                                      *)

\* Erasing takes no bucket, and gives none back.
LEMMA EraseSpare ==
  ASSUME NEW t, Sound(t), Spare(t, 0)
  PROVE  /\ \A pos : Spare(erase_at(t, pos), 0)
         /\ \A k : Spare(erase(t, k).ht, 0)
         /\ \A f, l : Spare(erase_range(t, f, l), 0)
         /\ \A pos, v : Spare([t EXCEPT !.table[pos].val = v], 0)
<1>1. t \in TableOf(t.num_buckets) /\ t.settings \in Settings
  BY Fields DEF Sound
<1>2. ASSUME NEW u, u.settings.enlarge_factor = t.settings.enlarge_factor,
             u.num_buckets = t.num_buckets, u.num_elements = t.num_elements
      PROVE  Spare(u, 0)
  BY <1>2 DEF Spare
<1>3. ASSUME NEW pos PROVE Spare(erase_at(t, pos), 0)
  BY <1>1, <1>2 DEF erase_at, TableOf, Settings
<1>4. ASSUME NEW k PROVE Spare(erase(t, k).ht, 0)
  BY <1>3 DEF erase, Outcome
<1>5. ASSUME NEW f, NEW l PROVE Spare(erase_range(t, f, l), 0)
  BY <1>1, <1>2 DEF erase_range, TableOf, Settings
<1>6. ASSUME NEW pos, NEW v PROVE Spare([t EXCEPT !.table[pos].val = v], 0)
  BY <1>1, <1>2 DEF TableOf
<1>. QED
  BY <1>3, <1>4, <1>5, <1>6

\* Clearing gives every bucket back.
LEMMA ClearSpare ==
  ASSUME NEW t, Sound(t), Spare(t, 0)
  PROVE  Spare(clear(t), 0) /\ Spare(clear_no_resize(t), 0)
<1>1. /\ t \in TableOf(t.num_buckets) /\ t.settings \in Settings
      /\ t.num_buckets \in BucketCounts /\ RoomFor(t.settings)
  BY Fields DEF Sound
<1>2. \A n \in BucketCounts : n \in Nat /\ 0 < n
  BY BucketCountIsPower
<1>3. min_buckets(t.settings, 0, 0) \in BucketCounts
  <2>1. HT_MIN_BUCKETS \in BucketCounts /\ 0 \in Nat /\ 0 <= HT_MIN_BUCKETS
        /\ 0 <= MaxSize
    BY StartingSizes, BucketCountIsPower, KeysAssumption
  <2>. QED
    BY <1>1, <2>1, RoomyEnough
<1>4. ASSUME NEW n \in BucketCounts PROVE Spare(clear_to_size(t, n), 0)
  <2>. DEFINE u == clear_to_size(t, n)
  <2>1. /\ u.num_elements = 0 /\ u.num_buckets = n
        /\ u.settings = reset_thresholds(t.settings, n)
    BY <1>1 DEF clear_to_size, TableOf
  <2>2. u.settings.enlarge_factor = t.settings.enlarge_factor
    BY <1>1, <1>2, <2>1, ResetTyped
  <2>. HIDE DEF u
  <2>3. Spare(u, 0)
    BY <1>2, <2>1, <2>2 DEF Spare
  <2>. QED
    BY <2>3 DEF u
<1>5. Spare(clear(t), 0)
  BY <1>3, <1>4 DEF clear
<1>. DEFINE w == clear_no_resize(t)
<1>6. /\ w.num_elements = 0 /\ w.num_buckets = t.num_buckets
      /\ w.settings = reset_thresholds(t.settings, t.num_buckets)
  BY <1>1 DEF clear_no_resize, TableOf
<1>7. reset_thresholds(t.settings, t.num_buckets).enlarge_factor = t.settings.enlarge_factor
  BY <1>1, <1>2, ResetTyped
<1>. HIDE DEF w
<1>8. Spare(w, 0)
  BY <1>1, <1>2, <1>6, <1>7 DEF Spare
<1>. QED
  BY <1>5, <1>8 DEF w

-----------------------------------------------------------------------------
(* Searches.                                                               *)

\* In a table with an empty bucket every search ends, and finds what is there.
LEMMA Lookups ==
  ASSUME NEW t, Sound(t), t.num_elements < t.num_buckets, t.settings.use_empty,
         NEW k \in Key
  PROVE  LET p      == find_position(t, k)
             places == {i \in LiveBuckets(t) : t.table[i].key = k}
         IN  /\ ~search_fails(p)
             /\ places = {} => p.first = ILLEGAL_BUCKET /\ p.second \in Buckets(t)
             /\ places # {} => places = {p.first} /\ p.first # ILLEGAL_BUCKET
<1>. DEFINE n      == t.num_buckets
            p      == find_position(t, k)
            places == {i \in LiveBuckets(t) : t.table[i].key = k}
<1>1. n \in BucketCounts /\ n \in Nat /\ t \in TableOf(n) /\ Populated(t)
  BY Fields DEF Sound
<1>2. ~search_fails(p)
  <2>1. Cardinality(InUse(t.table, n, t.emptykey)) < n
    BY <1>1 DEF Populated
  <2>2. PICK b \in 0 .. n - 1 : t.table[b].key = t.emptykey
    BY <1>1, <2>1, SomeEmpty
  <2>. QED
    BY <1>1, <2>2, SearchFindsRoom DEF Buckets, test_empty
<1>3. /\ p.first # ILLEGAL_BUCKET => p.first \in LiveBuckets(t) /\ t.table[p.first].key = k
      /\ p.first = ILLEGAL_BUCKET /\ p.second # ILLEGAL_BUCKET => Free(t, k, p.second)
  BY FindPosition
<1>. HIDE DEF p
<1>4. CASE p.first = ILLEGAL_BUCKET
  <2>1. Free(t, k, p.second)
    BY <1>2, <1>3, <1>4 DEF search_fails
  <2>2. places = {} /\ p.second \in Buckets(t)
    BY <2>1 DEF Free
  <2>. QED
    BY <1>2, <1>4, <2>2 DEF p
<1>5. CASE p.first # ILLEGAL_BUCKET
  <2>1. p.first \in places
    BY <1>3, <1>5
  <2>2. \A i \in places : i = p.first
    BY <1>1, <2>1 DEF Populated, NoneTwice
  <2>3. places = {p.first}
    BY <2>1, <2>2
  <2>. QED
    BY <1>2, <1>5, <2>3 DEF p
<1>. QED
  BY <1>4, <1>5

=============================================================================
