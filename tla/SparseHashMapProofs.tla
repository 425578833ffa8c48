------------------------ MODULE SparseHashMapProofs ------------------------
(***************************************************************************)
(* Every call of a sparse_hash_map leaves its tables sound, and changes    *)
(* the maps as a map's call does.  SparseHashtableProofs says what each    *)
(* method of a table does to its objects; what is added here is the map    *)
(* the objects are, and the table that is moved object by object: it and   *)
(* the one it is moved into are a loop under way over some sound table,    *)
(* the table as it was when the call began, and hold its objects between   *)
(* them.                                                                   *)
(***************************************************************************)
EXTENDS SparseHashMap, SparseHashtableProofs, SequenceTheorems

-----------------------------------------------------------------------------
(* The map a set of objects is.                                            *)

MapOf(X) == [k \in Key |-> IF \E x \in X : x.key = k
                           THEN (CHOOSE x \in X : x.key = k).val ELSE MISSING]

OneEach(X) == X \subseteq Slot /\ \A x, y \in X : x.key = y.key => x = y

\* A set of objects with one for each key is a map, whose keys are its objects'.
LEMMA MapOfIs ==
  ASSUME NEW X, OneEach(X)
  PROVE  /\ MapOf(X) = [k \in Key |-> MapOf(X)[k]]
         /\ \A x \in X : x.key \in Key /\ x.val \in Val /\ MapOf(X)[x.key] = x.val
         /\ \A k \in Key : HasKey(X, k) <=> MapOf(X)[k] # MISSING
<1>1. \A x \in X : x.key \in Key /\ x.val \in Val /\ x.val # MISSING
  BY ClientAssumption DEF OneEach, Slot
<1>2. \A k \in Key : MapOf(X)[k] = IF \E x \in X : x.key = k
                                   THEN (CHOOSE x \in X : x.key = k).val ELSE MISSING
  BY DEF MapOf
<1>3. \A x \in X : (CHOOSE y \in X : y.key = x.key) = x
  BY DEF OneEach
<1>4. \A x \in X : MapOf(X)[x.key] = x.val
  BY <1>1, <1>2, <1>3
<1>5. \A k \in Key : HasKey(X, k) <=> MapOf(X)[k] # MISSING
  <2>1. \A k \in Key : HasKey(X, k) => MapOf(X)[k] # MISSING
    BY <1>1, <1>4 DEF HasKey
  <2>2. \A k \in Key : ~HasKey(X, k) => MapOf(X)[k] = MISSING
    BY <1>2 DEF HasKey
  <2>. QED
    BY <2>1, <2>2
<1>6. MapOf(X) = [k \in Key |-> MapOf(X)[k]]
  BY DEF MapOf
<1>. QED
  BY <1>1, <1>4, <1>5, <1>6

\* No object at all is the empty map.
LEMMA MapOfNone ==
  OneEach({}) /\ MapOf({}) = [k \in Key |-> MISSING]
BY DEF OneEach, MapOf

\* An object of a new key.
LEMMA MapOfAdded ==
  ASSUME NEW X, OneEach(X), NEW obj \in Slot, ~HasKey(X, obj.key),
         NEW Y, Y = X \cup {obj}
  PROVE  OneEach(Y) /\ MapOf(Y) = [MapOf(X) EXCEPT ![obj.key] = obj.val]
<1>. DEFINE m == MapOf(X)
            u == [m EXCEPT ![obj.key] = obj.val]
<1>1. OneEach(Y)
  BY DEF OneEach, HasKey
<1>2. /\ m = [k \in Key |-> m[k]] /\ \A x \in X : x.key \in Key /\ m[x.key] = x.val
      /\ \A k \in Key : HasKey(X, k) <=> m[k] # MISSING
  BY MapOfIs
<1>3. /\ MapOf(Y) = [k \in Key |-> MapOf(Y)[k]]
      /\ \A x \in Y : x.key \in Key /\ MapOf(Y)[x.key] = x.val
      /\ \A k \in Key : HasKey(Y, k) <=> MapOf(Y)[k] # MISSING
  BY <1>1, MapOfIs
<1>. HIDE DEF m
<1>4. u = [k \in Key |-> u[k]] /\ \A k \in Key : u[k] = IF k = obj.key THEN obj.val ELSE m[k]
  BY <1>2
<1>. HIDE DEF u
<1>5. ASSUME NEW k \in Key PROVE MapOf(Y)[k] = u[k]
  <2>1. CASE k = obj.key
    BY <1>3, <1>4, <2>1
  <2>2. CASE k # obj.key /\ HasKey(X, k)
    <3>1. PICK x \in X : x.key = k
      BY <2>2 DEF HasKey
    <3>2. x \in Y /\ m[k] = x.val /\ MapOf(Y)[k] = x.val
      BY <1>2, <1>3, <3>1
    <3>. QED
      BY <1>4, <2>2, <3>2
  <2>3. CASE k # obj.key /\ ~HasKey(X, k)
    <3>1. ~HasKey(Y, k)
      BY <2>3 DEF HasKey
    <3>. QED
      BY <1>2, <1>3, <1>4, <2>3, <3>1
  <2>. QED
    BY <2>1, <2>2, <2>3
<1>6. MapOf(Y) = u
  BY <1>3, <1>4, <1>5
<1>. QED
  BY <1>1, <1>6 DEF u, m

\* The objects of some keys are gone.
LEMMA MapOfWithout ==
  ASSUME NEW X, OneEach(X), NEW S, NEW Y, Y = {x \in X : x.key \notin S}
  PROVE  OneEach(Y) /\ MapOf(Y) = Map!Without(MapOf(X), S)
<1>. DEFINE m == MapOf(X)
            u == Map!Without(m, S)
<1>1. OneEach(Y)
  BY DEF OneEach
<1>2. /\ \A x \in X : x.key \in Key /\ m[x.key] = x.val
      /\ \A k \in Key : HasKey(X, k) <=> m[k] # MISSING
  BY MapOfIs
<1>3. /\ MapOf(Y) = [k \in Key |-> MapOf(Y)[k]]
      /\ \A x \in Y : x.key \in Key /\ MapOf(Y)[x.key] = x.val
      /\ \A k \in Key : HasKey(Y, k) <=> MapOf(Y)[k] # MISSING
  BY <1>1, MapOfIs
<1>. HIDE DEF m
<1>4. u = [k \in Key |-> IF k \in S THEN MISSING ELSE m[k]]
  BY DEF Map!Without
<1>5. ASSUME NEW k \in Key PROVE MapOf(Y)[k] = IF k \in S THEN MISSING ELSE m[k]
  <2>1. CASE HasKey(X, k) /\ k \notin S
    BY <1>2, <1>3, <2>1 DEF HasKey
  <2>2. CASE ~HasKey(X, k) \/ k \in S
    <3>1. ~HasKey(Y, k)
      BY <2>2 DEF HasKey
    <3>. QED
      BY <1>2, <1>3, <2>2, <3>1
  <2>. QED
    BY <2>1, <2>2
<1>. HIDE DEF u
<1>6. MapOf(Y) = u
  BY <1>3, <1>4, <1>5
<1>. QED
  BY <1>1, <1>6 DEF u, m

\* A key is taken out of a map.
LEMMA WithoutOne ==
  ASSUME NEW X, NEW k \in Key
  PROVE  Map!Without(MapOf(X), {k}) = [MapOf(X) EXCEPT ![k] = MISSING]
<1>1. MapOf(X) = [j \in Key |-> MapOf(X)[j]]
  BY DEF MapOf
<1>. QED
  BY <1>1 DEF Map!Without

\* A key has another value, or one for the first time.
LEMMA MapOfChanged ==
  ASSUME NEW X, OneEach(X), NEW k \in Key, NEW v \in Val,
         NEW Y, Y = {x \in X : x.key # k} \cup {[key |-> k, val |-> v]}
  PROVE  OneEach(Y) /\ MapOf(Y) = [MapOf(X) EXCEPT ![k] = v]
<1>. DEFINE W == {x \in X : x.key \notin {k}}
            obj == [key |-> k, val |-> v]
<1>1. OneEach(W) /\ MapOf(W) = [MapOf(X) EXCEPT ![k] = MISSING]
  <2>1. W = {x \in X : x.key \notin {k}}
    OBVIOUS
  <2>. HIDE DEF W
  <2>2. OneEach(W) /\ MapOf(W) = Map!Without(MapOf(X), {k})
    BY <2>1, MapOfWithout
  <2>. QED
    BY <2>2, WithoutOne
<1>2. obj \in Slot /\ ~HasKey(W, obj.key) /\ Y = W \cup {obj} /\ obj.key = k /\ obj.val = v
  BY DEF Slot, HasKey
<1>. HIDE DEF W, obj
<1>3. OneEach(Y) /\ MapOf(Y) = [MapOf(W) EXCEPT ![obj.key] = obj.val]
  <2>1. OneEach(W) /\ obj \in Slot /\ ~HasKey(W, obj.key) /\ Y = W \cup {obj}
    BY <1>1, <1>2
  <2>. QED
    BY <2>1, MapOfAdded, Zenon
<1>4. MapOf(X) = [j \in Key |-> MapOf(X)[j]]
  BY DEF MapOf
<1>. QED
  BY <1>1, <1>2, <1>3, <1>4

\* Different objects are different maps.
LEMMA MapOfEqual ==
  ASSUME NEW X, OneEach(X), NEW Y, OneEach(Y)
  PROVE  MapOf(X) = MapOf(Y) <=> X = Y
<1>1. ASSUME NEW A, OneEach(A), NEW B, OneEach(B), MapOf(A) = MapOf(B), NEW x \in A
      PROVE  x \in B
  <2>1. x.key \in Key /\ MapOf(A)[x.key] = x.val /\ HasKey(A, x.key)
    BY <1>1, MapOfIs DEF HasKey
  <2>2. HasKey(B, x.key)
    BY <1>1, <2>1, MapOfIs
  <2>3. PICK y \in B : y.key = x.key
    BY <2>2 DEF HasKey
  <2>4. y.val = x.val
    BY <1>1, <2>1, <2>3, MapOfIs
  <2>5. x \in Slot /\ y \in Slot
    BY <1>1 DEF OneEach
  <2>. QED
    BY <2>3, <2>4, <2>5 DEF Slot
<1>. QED
  BY <1>1

\* A sound table holds a map.
LEMMA SoundOneEach ==
  ASSUME NEW t, Sound(t)
  PROVE  OneEach(Objects(t))
<1>1. \A i \in LiveBuckets(t) : object(t, i) \in Slot
  BY SoundLive
<1>2. \A i, j \in LiveBuckets(t) : object(t, i).key = object(t, j).key => i = j
  BY DEF Sound, NoneTwice
<1>. QED
  BY <1>1, <1>2 DEF OneEach, Objects

-----------------------------------------------------------------------------
(* A range of objects.                                                     *)

\* m after the first n of objs are inserted: InsertedAll of that part.
UpTo(m, objs, n) ==
  [k \in Key |->
     LET places == {i \in 1 .. n : objs[i].key = k}
     IN  IF m[k] # MISSING \/ places = {} THEN m[k] ELSE objs[Min(places)].val]

\* The map's insertion of the first n objects of a range, written with UpTo.
LEMMA UpToIsInsertedAll ==
  ASSUME NEW m, NEW objs \in Seq(Slot), NEW n \in 0 .. Len(objs)
  PROVE  Map!InsertedAll(m, SubSeq(objs, 1, n)) = UpTo(m, objs, n)
<1>. DEFINE part == SubSeq(objs, 1, n)
            places(k) == {i \in DOMAIN part : part[i].key = k}
            ahead(k)  == {i \in 1 .. n : objs[i].key = k}
<1>1. DOMAIN part = 1 .. n /\ \A i \in 1 .. n : part[i] = objs[i]
  OBVIOUS
<1>. HIDE DEF part
<1>2. \A k : places(k) = ahead(k)
  BY <1>1
<1>3. \A S : Min(S) = CHOOSE i \in S : \A j \in S : i <= j
  BY Zenon DEF Min
<1>4. ASSUME NEW k \in Key, ahead(k) # {} PROVE part[Min(ahead(k))] = objs[Min(ahead(k))]
  <2>1. ahead(k) \in SUBSET Nat
    OBVIOUS
  <2>2. Min(ahead(k)) \in 1 .. n
    BY <1>4, <2>1, MinIsMember
  <2>. QED
    BY <1>1, <2>2
<1>. DEFINE first(k) == CHOOSE i \in places(k) : \A j \in places(k) : i <= j
            this(k)  == IF m[k] # MISSING \/ places(k) = {} THEN m[k] ELSE part[first(k)].val
            that(k)  == IF m[k] # MISSING \/ ahead(k) = {} THEN m[k] ELSE objs[Min(ahead(k))].val
<1>5. Map!InsertedAll(m, part) = [k \in Key |-> this(k)]
  BY DEF Map!InsertedAll
<1>6. UpTo(m, objs, n) = [k \in Key |-> that(k)]
  BY DEF UpTo
<1>7. \A k \in Key : first(k) = Min(ahead(k))
  BY <1>2, <1>3
<1>. HIDE DEF places, ahead, first
<1>8. \A k \in Key : this(k) = that(k)
  BY <1>2, <1>4, <1>7
<1>. HIDE DEF this, that
<1>9. Map!InsertedAll(m, part) = UpTo(m, objs, n)
  BY <1>5, <1>6, <1>8
<1>. QED
  BY <1>9 DEF part

\* Inserting the next object is inserting a longer part of the range.
LEMMA UpToNext ==
  ASSUME NEW m, NEW objs, NEW i \in Nat, i > 0, \A j \in 1 .. i : objs[j] \in Slot
  PROVE  LET w == UpTo(m, objs, i - 1)
         IN  UpTo(m, objs, i) = IF w[objs[i].key] = MISSING
                                THEN [w EXCEPT ![objs[i].key] = objs[i].val] ELSE w
<1>. DEFINE w == UpTo(m, objs, i - 1)
            x == objs[i].key
            before(k) == {j \in 1 .. i - 1 : objs[j].key = k}
            ahead(k)  == {j \in 1 .. i : objs[j].key = k}
            joined == IF w[x] = MISSING THEN [w EXCEPT ![x] = objs[i].val] ELSE w
<1>1. x \in Key /\ \A j \in 1 .. i : objs[j].val # MISSING
  BY ClientAssumption DEF Slot
<1>2. /\ w = [k \in Key |-> w[k]]
      /\ \A k \in Key : w[k] = IF m[k] # MISSING \/ before(k) = {}
                               THEN m[k] ELSE objs[Min(before(k))].val
  BY DEF UpTo
<1>3. UpTo(m, objs, i) =
        [k \in Key |-> IF m[k] # MISSING \/ ahead(k) = {}
                       THEN m[k] ELSE objs[Min(ahead(k))].val]
  BY DEF UpTo
<1>4. \A k : before(k) \in SUBSET Nat /\ ahead(k) \in SUBSET Nat
            /\ ahead(k) = before(k) \cup (IF k = x THEN {i} ELSE {})
  OBVIOUS
<1>5. ASSUME NEW k, before(k) # {}
      PROVE  Min(ahead(k)) = Min(before(k)) /\ Min(before(k)) \in 1 .. i
  <2>1. Min(before(k)) \in before(k) /\ \A j \in before(k) : Min(before(k)) <= j
    BY <1>4, <1>5, MinIsMember
  <2>2. Min(ahead(k)) \in ahead(k) /\ \A j \in ahead(k) : Min(ahead(k)) <= j
    BY <1>4, <1>5, MinIsMember
  <2>3. Min(before(k)) \in 1 .. i - 1
    BY <2>1
  <2>4. \A j \in ahead(k) : Min(before(k)) <= j
    BY <1>4, <2>1, <2>3
  <2>5. Min(before(k)) \in ahead(k) /\ Min(ahead(k)) \in 1 .. i
    BY <1>4, <2>1, <2>2
  <2>. QED
    BY <2>2, <2>3, <2>4, <2>5
<1>6. before(x) = {} => Min(ahead(x)) = i
  BY <1>4, MinIsMember
<1>7. \A k : ahead(k) = {} => before(k) = {}
  BY <1>4
<1>8. \A k : k # x => ahead(k) = before(k)
  BY <1>4
<1>9. ahead(x) # {}
  BY <1>4
<1>. HIDE DEF before, ahead, w, x
<1>10. /\ joined = [k \in Key |-> joined[k]]
       /\ \A k \in Key : joined[k] = IF w[x] = MISSING /\ k = x THEN objs[i].val ELSE w[k]
  BY <1>1, <1>2
<1>. HIDE DEF joined
<1>11. ASSUME NEW k \in Key
       PROVE  joined[k] = IF m[k] # MISSING \/ ahead(k) = {}
                        THEN m[k] ELSE objs[Min(ahead(k))].val
  <2>1. CASE k # x
    BY <1>2, <1>8, <1>10, <2>1
  <2>2. CASE k = x /\ before(x) = {}
    BY <1>1, <1>2, <1>6, <1>9, <1>10, <2>2
  <2>3. CASE k = x /\ before(x) # {}
    BY <1>1, <1>2, <1>5, <1>9, <1>10, <2>3
  <2>. QED
    BY <2>1, <2>2, <2>3
<1>12. UpTo(m, objs, i) = joined
  BY <1>3, <1>10, <1>11
<1>. QED
  BY <1>12 DEF joined, w, x

\* Nothing of the range is inserted yet.
LEMMA UpToNone ==
  ASSUME NEW X, NEW objs
  PROVE  UpTo(MapOf(X), objs, 0) = MapOf(X)
<1>. DEFINE m == MapOf(X)
<1>1. UpTo(m, objs, 0) = [k \in Key |-> m[k]]
  <2>1. \A k : {i \in 1 .. 0 : objs[i].key = k} = {}
    OBVIOUS
  <2>. QED
    BY <2>1 DEF UpTo
<1>2. m = [k \in Key |-> m[k]]
  BY DEF MapOf
<1>. HIDE DEF m
<1>3. UpTo(m, objs, 0) = m
  BY <1>1, <1>2
<1>. QED
  BY <1>3 DEF m

\* The objects a range insertion reaches are the map it promises.
LEMMA ReachesMap ==
  ASSUME NEW A, OneEach(A), NEW objs, NEW N \in Nat, \A i \in 1 .. N : objs[i] \in Slot,
         NEW B, Reaches(A, objs, N, B)
  PROVE  OneEach(B) /\ MapOf(B) = UpTo(MapOf(A), objs, N)
<1>1. PICK X : /\ X[0] = A /\ X[N] = B
               /\ \A i \in 1 .. N : X[i] = Joined(X[i - 1], objs[i])
  BY DEF Reaches
<1>. DEFINE OK(i) == OneEach(X[i]) /\ MapOf(X[i]) = UpTo(MapOf(A), objs, i)
            Bad   == {n \in 0 .. N : ~OK(n)}
<1>2. OK(0)
  BY <1>1, UpToNone
<1>3. ASSUME NEW i \in 1 .. N, OK(i - 1) PROVE OK(i)
  <2>. DEFINE W   == X[i - 1]
              obj == objs[i]
              m   == MapOf(A)
              w   == UpTo(m, objs, i - 1)
  <2>1. OneEach(W) /\ MapOf(W) = w /\ obj \in Slot /\ X[i] = Joined(W, obj)
    BY <1>1, <1>3
  <2>2. UpTo(m, objs, i) = IF w[obj.key] = MISSING
                           THEN [w EXCEPT ![obj.key] = obj.val] ELSE w
    <3>1. i \in Nat /\ i > 0 /\ \A j \in 1 .. i : objs[j] \in Slot
      OBVIOUS
    <3>. QED
      BY <3>1, UpToNext
  <2>3. obj.key \in Key
    BY <2>1 DEF Slot
  <2>4. SUFFICES OneEach(X[i]) /\ MapOf(X[i]) = UpTo(m, objs, i)
    OBVIOUS
  <2>. HIDE DEF W, obj, m, w
  <2>5. HasKey(W, obj.key) <=> w[obj.key] # MISSING
    BY <2>1, <2>3, MapOfIs
  <2>6. CASE HasKey(W, obj.key)
    <3>1. X[i] = W
      BY <2>1, <2>6 DEF Joined
    <3>. QED
      BY <2>1, <2>2, <2>5, <2>6, <3>1
  <2>7. CASE ~HasKey(W, obj.key)
    <3>1. X[i] = W \cup {obj}
      BY <2>1, <2>7 DEF Joined
    <3>2. OneEach(X[i]) /\ MapOf(X[i]) = [w EXCEPT ![obj.key] = obj.val]
      BY <2>1, <2>7, <3>1, MapOfAdded
    <3>. QED
      BY <2>2, <2>5, <2>7, <3>2
  <2>. QED
    BY <2>6, <2>7
<1>. HIDE DEF OK
<1>4. Bad = {}
  <2>. SUFFICES ASSUME Bad # {} PROVE FALSE
    OBVIOUS
  <2>. Bad \in SUBSET Nat
    OBVIOUS
  <2>1. PICK n \in Bad : \A j \in Bad : n <= j
    BY LeastNumber
  <2>2. n # 0
    BY <1>2
  <2>3. n \in 1 .. N /\ n - 1 \in 0 .. N /\ ~ (n <= n - 1)
    BY <2>2
  <2>4. OK(n - 1)
    BY <2>1, <2>3
  <2>. QED
    BY <1>3, <2>3, <2>4
<1>5. OK(N)
  <2>1. N \in 0 .. N
    OBVIOUS
  <2>. QED
    BY <1>4, <2>1
<1>. QED
  BY <1>1, <1>5 DEF OK

-----------------------------------------------------------------------------
(* Answers.                                                                *)

\* An answer is the call with one more element.
LEMMA AppendToTwo ==
  ASSUME NEW a, NEW b, NEW c
  PROVE  Append(<<a, b>>, c) = <<a, b, c>>
<1>. DEFINE S == {a, b, c}
            u == Append(<<a, b>>, c)
            v == <<a, b, c>>
<1>1. u \in Seq(S) /\ Len(u) = 3 /\ u[1] = a /\ u[2] = b /\ u[3] = c
  OBVIOUS
<1>2. v \in Seq(S) /\ Len(v) = 3 /\ v[1] = a /\ v[2] = b /\ v[3] = c
  OBVIOUS
<1>. HIDE DEF u, v
<1>3. \A i \in 1 .. 3 : i = 1 \/ i = 2 \/ i = 3
  OBVIOUS
<1>4. u = v
  BY <1>1, <1>2, <1>3, SeqEqual
<1>. QED
  BY <1>4 DEF u, v

\* The answer of a call with what was thrown added.
LEMMA AppendToThree ==
  ASSUME NEW a, NEW b, NEW c, NEW d
  PROVE  Append(<<a, b, c>>, d) = <<a, b, c, d>>
<1>. DEFINE S == {a, b, c, d}
            u == Append(<<a, b, c>>, d)
            v == <<a, b, c, d>>
<1>1. u \in Seq(S) /\ Len(u) = 4 /\ u[1] = a /\ u[2] = b /\ u[3] = c /\ u[4] = d
  OBVIOUS
<1>2. v \in Seq(S) /\ Len(v) = 4 /\ v[1] = a /\ v[2] = b /\ v[3] = c /\ v[4] = d
  OBVIOUS
<1>. HIDE DEF u, v
<1>3. \A i \in 1 .. 4 : i = 1 \/ i = 2 \/ i = 3 \/ i = 4
  OBVIOUS
<1>4. u = v
  BY <1>1, <1>2, <1>3, SeqEqual
<1>. QED
  BY <1>4 DEF u, v

-----------------------------------------------------------------------------
(* A table that is moved away.                                             *)

\* In src without its first groups are the objects of the others.
LEMMA LeftLive ==
  ASSUME NEW src, Sound(src), NEW r \in 1 .. Rows(src.table) + 1
  PROVE  LET d == Left(src, r)
         IN  /\ LiveBuckets(d) = {i \in LiveBuckets(src) : r <= Spot(src.table, i).row}
             /\ \A i \in LiveBuckets(d) : /\ object(d, i) = object(src, i)
                                          /\ Spot(d.table, i) = Spot(src.table, i)
             /\ \A g \in 1 .. Len(d.table.groups) : g < r => d.table.groups[g] = T!new_group
<1>. DEFINE d   == Left(src, r)
            tab == src.table
            e   == Remains(tab, r)
<1>1. TabSound(tab)
  BY SoundFields DEF IsTable
<1>2. d.table = e /\ d.num_deleted = src.num_deleted /\ d.delkey = src.delkey
  BY LeftFields
<1>3. /\ e.table_size = tab.table_size /\ Rows(e) = Rows(tab)
      /\ \A g \in 1 .. Rows(tab) : g < r => e.groups[g] = T!new_group
      /\ Used(e) = {i \in Used(tab) : r <= Spot(tab, i).row}
      /\ \A i \in Used(e) : /\ T!unsafe_get(e, i) = T!unsafe_get(tab, i)
                            /\ Spot(e, i) = Spot(tab, i)
  BY <1>1, RemainsRead
<1>. HIDE DEF e, d
<1>4. Buckets(d) = Numbers(e) /\ Buckets(src) = Numbers(tab)
  BY <1>2, SameOperators DEF Buckets
<1>5. ASSUME NEW i
      PROVE  i \in LiveBuckets(d) <=> i \in LiveBuckets(src) /\ r <= Spot(tab, i).row
  <2>1. i \in LiveBuckets(d) <=>
          i \in Used(e) /\ ~(src.num_deleted > 0 /\ T!unsafe_get(e, i).key = src.delkey)
    BY <1>2, <1>4 DEF LiveBuckets, test_empty, test_deleted, object, Used
  <2>2. i \in LiveBuckets(src) <=>
          i \in Used(tab) /\ ~(src.num_deleted > 0 /\ T!unsafe_get(tab, i).key = src.delkey)
    BY <1>4 DEF LiveBuckets, test_empty, test_deleted, object, Used
  <2>3. i \in Used(e) <=> i \in Used(tab) /\ r <= Spot(tab, i).row
    BY <1>3
  <2>4. i \in Used(e) => T!unsafe_get(e, i) = T!unsafe_get(tab, i)
    BY <1>3
  <2>. QED
    BY <2>1, <2>2, <2>3, <2>4
<1>6. LiveBuckets(d) = {i \in LiveBuckets(src) : r <= Spot(tab, i).row}
  BY <1>5
<1>7. LiveBuckets(d) \subseteq Used(e)
  BY <1>2, <1>4 DEF LiveBuckets, test_empty, Used
<1>8. \A i \in LiveBuckets(d) : object(d, i) = object(src, i) /\ Spot(d.table, i) = Spot(tab, i)
  BY <1>2, <1>3, <1>7 DEF object
<1>9. \A g \in 1 .. Len(d.table.groups) : g < r => d.table.groups[g] = T!new_group
  BY <1>2, <1>3 DEF Rows
<1>. QED
  BY <1>6, <1>8, <1>9 DEF d

\* Where the iterator of a move is: what it has passed is behind it.
LEMMA MoveAt ==
  ASSUME NEW src, Sound(src), NEW n, NEW l, Underway(l, src, n, TRUE)
  PROVE  /\ l.it.row \in 1 .. Rows(src.table) + 1
         /\ l.from = Left(src, l.it.row)
         /\ Done(src, l.it) \subseteq LiveBuckets(src)
         /\ \A i \in LiveBuckets(src) :
              /\ Spot(src.table, i).row \in Nat
              /\ i \in Done(src, l.it) <=> Behind(Spot(src.table, i), l.it)
              /\ i \notin Done(src, l.it) => l.it.row <= Spot(src.table, i).row
<1>. DEFINE tab == src.table
<1>1. TabSound(tab) /\ LiveBuckets(src) \subseteq Used(tab)
  BY SoundFields, SoundLive DEF IsTable
<1>2. /\ Rows(tab) \in Nat /\ End(tab).row = Rows(tab) + 1
      /\ \A i \in Used(tab) : Spot(tab, i).row \in 1 .. Rows(tab) /\ Spot(tab, i).row \in Nat
  BY <1>1, SpotIs
<1>3. end(src) = End(tab)
  BY DEF end, End
<1>4. l.it = end(src) \/ \E i \in LiveBuckets(src) : l.it = Spot(tab, i)
  BY DEF Underway
<1>5. l.it.row \in 1 .. Rows(tab) + 1
  BY <1>1, <1>2, <1>3, <1>4
<1>6. ASSUME NEW i \in LiveBuckets(src)
      PROVE  Behind(Spot(tab, i), l.it) \/ l.it.row <= Spot(tab, i).row
  <2>1. CASE l.it = end(src)
    BY <1>1, <1>3, <2>1, SpotsOrdered
  <2>2. ASSUME NEW j \in LiveBuckets(src), l.it = Spot(tab, j)
        PROVE  Behind(Spot(tab, i), l.it) \/ l.it.row <= Spot(tab, i).row
    <3>1. i \in Used(tab) /\ j \in Used(tab) /\ i \in Nat /\ j \in Nat
      BY <1>1, SpotOf
    <3>2. CASE i < j
      BY <1>1, <2>2, <3>1, <3>2, SpotsOrdered
    <3>3. CASE j < i
      <4>1. Behind(Spot(tab, j), Spot(tab, i))
        BY <1>1, <3>1, <3>3, SpotsOrdered
      <4>2. Spot(tab, i).row \in Nat /\ Spot(tab, j).row \in Nat
        BY <1>2, <3>1
      <4>. QED
        BY <2>2, <4>1, <4>2 DEF Behind
    <3>4. CASE i = j
      <4>1. Spot(tab, i).row \in Nat
        BY <1>2, <3>1
      <4>. QED
        BY <2>2, <3>4, <4>1
    <3>. QED
      BY <3>1, <3>2, <3>3, <3>4
  <2>. QED
    BY <1>4, <2>1, <2>2
<1>7. \A i \in LiveBuckets(src) :
        i \in Done(src, l.it) <=> Behind(Spot(tab, i), l.it)
  BY DEF Done
<1>8. Done(src, l.it) \subseteq LiveBuckets(src) /\ l.from = Left(src, l.it.row)
  BY DEF Done, Underway
<1>. QED
  BY <1>1, <1>2, <1>5, <1>6, <1>7, <1>8

\* The two tables hold the objects between them.
LEMMA NothingLost ==
  ASSUME NEW src, Sound(src), NEW n, NEW l, Underway(l, src, n, TRUE)
  PROVE  Objects(l.from) \cup Objects(l.to) = Objects(src)
<1>1. /\ l.it.row \in 1 .. Rows(src.table) + 1 /\ l.from = Left(src, l.it.row)
      /\ Done(src, l.it) \subseteq LiveBuckets(src)
      /\ \A i \in LiveBuckets(src) :
           i \notin Done(src, l.it) => l.it.row <= Spot(src.table, i).row
  BY MoveAt
<1>2. /\ LiveBuckets(l.from) = {i \in LiveBuckets(src) : l.it.row <= Spot(src.table, i).row}
      /\ \A i \in LiveBuckets(l.from) : object(l.from, i) = object(src, i)
  BY <1>1, LeftLive
<1>3. Objects(l.to) = {object(src, x) : x \in Done(src, l.it)}
  BY DEF Underway
<1>4. Objects(l.from) = {object(src, x) : x \in LiveBuckets(l.from)}
  BY <1>2 DEF Objects
<1>5. LiveBuckets(l.from) \cup Done(src, l.it) = LiveBuckets(src)
  BY <1>1, <1>2
<1>. QED
  BY <1>3, <1>4, <1>5 DEF Objects

\* What is twice is in the iterator's group and behind it.
LEMMA TwiceBehind ==
  ASSUME NEW src, Sound(src), NEW n, NEW l, Underway(l, src, n, TRUE)
  PROVE  LET keys  == {object(l.to, i).key : i \in LiveBuckets(l.to)}
             twice == {i \in LiveBuckets(l.from) : object(l.from, i).key \in keys}
         IN  /\ \A g \in 1 .. Len(l.from.table.groups) :
                  g < l.it.row => l.from.table.groups[g] = T!new_group
             /\ \A i \in twice : T!get_iter(l.from.table, i).row = l.it.row
             /\ \A i \in LiveBuckets(l.from) :
                  i \in twice <=> /\ T!get_iter(l.from.table, i).row = l.it.row
                                  /\ T!get_iter(l.from.table, i).col < l.it.col
             /\ size(l.to) < bucket_count(l.to)
<1>. DEFINE keys  == {object(l.to, i).key : i \in LiveBuckets(l.to)}
            twice == {i \in LiveBuckets(l.from) : object(l.from, i).key \in keys}
            at(i) == Spot(src.table, i)
<1>1. /\ l.it.row \in 1 .. Rows(src.table) + 1 /\ l.from = Left(src, l.it.row)
      /\ Done(src, l.it) \subseteq LiveBuckets(src)
      /\ \A i \in LiveBuckets(src) : at(i).row \in Nat
      /\ \A i \in LiveBuckets(src) : i \in Done(src, l.it) <=> Behind(at(i), l.it)
  BY MoveAt
<1>2. /\ LiveBuckets(l.from) = {i \in LiveBuckets(src) : l.it.row <= at(i).row}
      /\ \A i \in LiveBuckets(l.from) :
           object(l.from, i) = object(src, i) /\ Spot(l.from.table, i) = at(i)
      /\ \A g \in 1 .. Len(l.from.table.groups) :
           g < l.it.row => l.from.table.groups[g] = T!new_group
  BY <1>1, LeftLive
<1>3. keys = {object(src, x).key : x \in Done(src, l.it)}
  <2>1. Objects(l.to) = {object(src, x) : x \in Done(src, l.it)}
    BY DEF Underway
  <2>2. keys = {x.key : x \in Objects(l.to)}
    BY DEF Objects
  <2>. HIDE DEF keys
  <2>. QED
    BY <2>1, <2>2
<1>4. \A i, j \in LiveBuckets(src) : object(src, i).key = object(src, j).key => i = j
  BY DEF Sound, NoneTwice
<1>. HIDE DEF keys
<1>5. \A i \in LiveBuckets(l.from) : i \in twice <=> i \in Done(src, l.it)
  BY <1>1, <1>2, <1>3, <1>4
<1>. HIDE DEF twice
<1>6. ASSUME NEW i \in LiveBuckets(l.from)
      PROVE  /\ Spot(l.from.table, i) = at(i)
             /\ i \in twice <=> at(i).row = l.it.row /\ at(i).col < l.it.col
  <2>1. i \in LiveBuckets(src) /\ l.it.row <= at(i).row /\ Spot(l.from.table, i) = at(i)
    BY <1>2
  <2>2. at(i).row \in Nat /\ l.it.row \in Int
    BY <1>1, <2>1
  <2>3. i \in twice <=> Behind(at(i), l.it)
    BY <1>1, <1>5, <2>1
  <2>. HIDE DEF at
  <2>. QED
    BY <2>1, <2>2, <2>3 DEF Behind
<1>7. size(l.to) < bucket_count(l.to)
  <2>1. bucket_count(l.to) = n /\ size(src) < n /\ size(l.to) = Cardinality(Done(src, l.it))
    BY DEF Underway
  <2>2. Cardinality(Done(src, l.it)) <= size(src) /\ Cardinality(Done(src, l.it)) \in Nat
    BY DoneGrows
  <2>3. size(src) \in Nat /\ bucket_count(l.to) \in Nat
    BY SoundFields DEF Underway
  <2>. DEFINE a == size(src)
              b == Cardinality(Done(src, l.it))
              c == bucket_count(l.to)
  <2>4. a < c /\ b <= a /\ a \in Nat /\ b \in Nat /\ c \in Nat /\ size(l.to) = b
    BY <2>1, <2>2, <2>3
  <2>. HIDE DEF a, b, c
  <2>5. b < c
    BY <2>4
  <2>. QED
    BY <2>4, <2>5 DEF c
<1>8. twice \subseteq LiveBuckets(l.from)
  BY DEF twice
<1>. QED
  BY <1>2, <1>6, <1>7, <1>8 DEF twice, keys, Spot

-----------------------------------------------------------------------------
(* The inductive invariant.                                                *)

\* Whatever load factors a program asks for, a table may not fill up.
FactorsLeaveRoom == \A f \in Factors : f[2] < 100

TableOK(t) == Sound(t) /\ (FactorsLeaveRoom => Spare(t, 0))

\* No call is under way, and h are the tables.
AllOK(h) == h = [o \in Obj |-> h[o]] /\ \A o \in Obj : TableOK(h[o])

\* The three calls that move a table object by object.
CallOK(call, src) ==
  \/ call = <<"maybe_shrink">>
  \/ call = <<"clear_deleted_key">>
  \/ \E k \in Key : call = <<"set_deleted_key", k>> /\ ~HasKey(Objects(src), k)

\* The move m is under way in the tables h: it began with the table src, and
\* ends with one of n buckets.
InMove(h, m, src, n) ==
  /\ m = [obj |-> m.obj, call |-> m.call, to |-> m.to, it |-> m.it]
  /\ m.obj \in Obj
  /\ h = [o \in Obj |-> h[o]] /\ \A o \in Obj \ {m.obj} : TableOK(h[o])
  /\ Sound(src) /\ (FactorsLeaveRoom => src.settings.enlarge_factor < 100)
  /\ Underway(Loop(h[m.obj], m.to, m.it), src, n, TRUE)
  /\ CallOK(m.call, src)

IInv ==
  \/ moving = NoMove /\ AllOK(ht)
  \/ \E src, n : InMove(ht, moving, src, n)

-----------------------------------------------------------------------------
(* The maps the objects are.                                               *)

maps == [o \in Obj |-> Contents(o)]

AllMaps(h, m) ==
  [o \in Obj |-> MapOf(Objects(h[o]) \cup IF o = m.obj THEN Objects(m.to) ELSE {})]

MapsOf(h) == [o \in Obj |-> MapOf(Objects(h[o]))]

\* The map of every object, and of the one being moved: the contents of both of
\* its tables.
LEMMA MapsAre == maps = AllMaps(ht, moving) /\ maps' = AllMaps(ht', moving')
BY DEF maps, AllMaps, Contents, Live, Objects, MapOf

\* No call is under way:
LEMMA Resting ==
  /\ moving = NoMove => (IInv <=> AllOK(ht)) /\ maps = MapsOf(ht)
  /\ moving' = NoMove => (IInv' <=> AllOK(ht')) /\ maps' = MapsOf(ht')
<1>1. NoMove.obj = NONE /\ \A o \in Obj : o # NONE
  BY ClientAssumption DEF NoMove
<1>2. ASSUME NEW h PROVE AllMaps(h, NoMove) = MapsOf(h)
  <2>1. \A o \in Obj : (Objects(h[o]) \cup IF o = NoMove.obj THEN Objects(NoMove.to) ELSE {})
                         = Objects(h[o])
    BY <1>1
  <2>. QED
    BY <2>1 DEF AllMaps, MapsOf
<1>3. ASSUME NEW h, NEW src, NEW n PROVE ~InMove(h, NoMove, src, n)
  BY <1>1 DEF InMove
<1>. QED
  BY <1>2, <1>3, MapsAre DEF IInv

\* A move is under way:
LEMMA MovingMaps ==
  ASSUME NEW h, NEW m, NEW src, NEW n, InMove(h, m, src, n)
  PROVE  AllMaps(h, m) = [o \in Obj |-> MapOf(Objects(IF o = m.obj THEN src ELSE h[o]))]
<1>. DEFINE l == Loop(h[m.obj], m.to, m.it)
<1>1. Underway(l, src, n, TRUE) /\ Sound(src)
  BY DEF InMove
<1>2. l.from = h[m.obj] /\ l.to = m.to
  BY DEF Loop
<1>. HIDE DEF l
<1>3. Objects(h[m.obj]) \cup Objects(m.to) = Objects(src)
  BY <1>1, <1>2, NothingLost
<1>4. \A o \in Obj : (Objects(h[o]) \cup IF o = m.obj THEN Objects(m.to) ELSE {})
                       = Objects(IF o = m.obj THEN src ELSE h[o])
  BY <1>3
<1>. QED
  BY <1>4 DEF AllMaps

\* A call that changes one object.
LEMMA Changed ==
  ASSUME IInv, Idle, NEW o \in Obj, NEW u, TableOK(u), ht' = [ht EXCEPT ![o] = u]
  PROVE  /\ IInv' /\ maps' = [maps EXCEPT ![o] = MapOf(Objects(u))]
         /\ maps[o] = MapOf(Objects(ht[o]))
         /\ Objects(u) = Objects(ht[o]) => maps' = maps
<1>1. /\ AllOK(ht) /\ maps = MapsOf(ht)
      /\ (IInv' <=> AllOK(ht')) /\ maps' = MapsOf(ht')
  BY Resting DEF Idle
<1>2. ht' = [p \in Obj |-> IF p = o THEN u ELSE ht[p]]
  BY <1>1 DEF AllOK
<1>3. AllOK(ht')
  BY <1>1, <1>2 DEF AllOK
<1>4. maps' = [maps EXCEPT ![o] = MapOf(Objects(u))] /\ maps[o] = MapOf(Objects(ht[o]))
  BY <1>1, <1>2 DEF MapsOf
<1>5. Objects(u) = Objects(ht[o]) => maps' = maps
  BY <1>1, <1>4 DEF MapsOf
<1>. QED
  BY <1>1, <1>3, <1>4, <1>5

\* What a call starts from.
LEMMA Started ==
  ASSUME IInv, Idle, NEW o \in Obj
  PROVE  /\ TableOK(ht[o]) /\ Sound(ht[o]) /\ OneEach(Objects(ht[o]))
         /\ FactorsLeaveRoom => Spare(ht[o], 0)
         /\ maps[o] = MapOf(Objects(ht[o])) /\ maps = MapsOf(ht)
<1>1. AllOK(ht) /\ maps = MapsOf(ht)
  BY Resting DEF Idle
<1>2. TableOK(ht[o]) /\ maps[o] = MapOf(Objects(ht[o]))
  BY <1>1 DEF AllOK, MapsOf
<1>. QED
  BY <1>1, <1>2, SoundOneEach DEF TableOK

\* A call that leaves the outcome r of one that kept the table sound.
LEMMA Answered ==
  ASSUME IInv, NEW o \in Obj, NEW call, NEW r, Answer(o, call, r), Sound(r.ht),
         Spare(ht[o], 0) => Spare(r.ht, 0)
  PROVE  /\ IInv' /\ maps' = [maps EXCEPT ![o] = MapOf(Objects(r.ht))]
         /\ maps[o] = MapOf(Objects(ht[o]))
         /\ Objects(r.ht) = Objects(ht[o]) => maps' = maps
         /\ r.res # "table_full" /\ ret' = Append(call, r.res)
<1>1. /\ Idle /\ r.res # "table_full"
      /\ ht' = [ht EXCEPT ![o] = r.ht] /\ ret' = Append(call, r.res)
  BY DEF Answer
<1>2. FactorsLeaveRoom => Spare(ht[o], 0)
  BY <1>1, Started
<1>3. TableOK(r.ht)
  BY <1>2 DEF TableOK
<1>. QED
  BY <1>1, <1>3, Changed

\* Some size has room under every grow factor a table may have.
LEMMA RoomUnderFactors ==
  /\ \A f \in Factors : \E n \in BucketCounts : MaxSize < (n * f[2]) \div 100
  /\ \E n \in BucketCounts : MaxSize < (n * HT_OCCUPANCY_PCT) \div 100
BY RoomAssumption

\* A sound table has room for MaxSize objects under its own load factor.
LEMMA RoomUnderOwnFactor ==
  ASSUME NEW t, Sound(t)
  PROVE  /\ \E n \in BucketCounts : MaxSize < (n * t.settings.enlarge_factor) \div 100
         /\ t.settings.enlarge_factor \in Percent /\ t.settings.shrink_factor \in Percent
BY SoundFields, Fields DEF RoomFor, enlarge_size

\* New tables are sound and empty.
LEMMA InitInv == Init => IInv /\ Map!Init
<1>. SUFFICES ASSUME Init PROVE IInv /\ Map!Init
  OBVIOUS
<1>. DEFINE t == new_table(0)
<1>1. /\ Sound(t) /\ Objects(t) = {} /\ num_nonempty(t) < bucket_count(t)
      /\ t.settings.enlarge_factor = HT_OCCUPANCY_PCT
  BY RoomUnderFactors, NewTableSound
<1>2. num_nonempty(t) + 0 = num_nonempty(t)
  BY <1>1, SoundFields
<1>. HIDE DEF t
<1>3. TableOK(t)
  BY <1>1, <1>2 DEF TableOK, Spare, HT_OCCUPANCY_PCT
<1>4. ht = [o \in Obj |-> t] /\ moving = NoMove /\ ret = <<"none">>
  BY DEF Init, t
<1>5. AllOK(ht)
  BY <1>3, <1>4 DEF AllOK
<1>6. IInv /\ maps = MapsOf(ht)
  BY <1>4, <1>5, Resting
<1>7. maps = [o \in Obj |-> [k \in Key |-> MISSING]]
  BY <1>1, <1>4, <1>6, MapOfNone DEF MapsOf
<1>. QED
  BY <1>4, <1>6, <1>7 DEF Map!Init, maps

-----------------------------------------------------------------------------
(* Insertion and deletion.                                                 *)

\* insert of one object.
LEMMA InsertImplements ==
  ASSUME IInv, NEW o \in Obj, NEW obj \in Items, Insert(o, obj)
  PROVE  IInv' /\ Map!Insert(o, obj)
<1>. DEFINE t == ht[o]
            r == insert(t, obj)
            call == <<"insert", o, obj.key>>
<1>1. obj \in Slot /\ obj.key \in Key /\ obj.val \in Val
  BY ClientAssumption DEF Slot
<1>2. Sound(t) /\ Allowed(t, obj.key) /\ OneEach(Objects(t))
  BY Started DEF Insert, Answer, Ordinary, Allowed
<1>3. Inserted(r, t, obj) /\ (Spare(t, 0) => Spare(r.ht, 0))
  BY <1>1, <1>2, InsertSound
<1>4. Answer(o, call, r) /\ Sound(r.ht)
  BY <1>3 DEF Insert, Inserted
<1>. HIDE DEF r, call
<1>5. /\ IInv' /\ maps' = [maps EXCEPT ![o] = MapOf(Objects(r.ht))]
      /\ maps[o] = MapOf(Objects(t)) /\ (Objects(r.ht) = Objects(t) => maps' = maps)
      /\ r.res # "table_full" /\ ret' = Append(call, r.res)
  BY <1>3, <1>4, Answered
<1>6. ret' = <<"insert", o, obj.key, r.res>>
  BY <1>5, AppendToThree DEF call
<1>7. HasKey(Objects(t), obj.key) <=> maps[o][obj.key] # MISSING
  BY <1>1, <1>2, <1>5, MapOfIs
<1>8. CASE r.res = "inserted"
  <2>1. ~HasKey(Objects(t), obj.key) /\ Objects(r.ht) = Objects(t) \cup {obj}
    BY <1>3, <1>8 DEF Inserted
  <2>2. MapOf(Objects(r.ht)) = [maps[o] EXCEPT ![obj.key] = obj.val]
    BY <1>1, <1>2, <1>5, <2>1, MapOfAdded
  <2>3. maps' = [maps EXCEPT ![o][obj.key] = obj.val]
    BY <1>5, <2>2
  <2>. QED
    BY <1>5, <1>6, <1>7, <1>8, <2>1, <2>3 DEF Map!Insert, maps
<1>9. CASE r.res = "present"
  <2>1. HasKey(Objects(t), obj.key) /\ Objects(r.ht) = Objects(t)
    BY <1>3, <1>9 DEF Inserted
  <2>. QED
    BY <1>5, <1>6, <1>7, <1>9, <2>1 DEF Map!Insert, maps
<1>10. CASE r.res = "length_error"
  <2>1. Objects(r.ht) = Objects(t)
    BY <1>3, <1>10 DEF Inserted
  <2>. QED
    BY <1>5, <1>6, <1>10, <2>1 DEF Map!Insert, maps
<1>. QED
  BY <1>3, <1>5, <1>8, <1>9, <1>10 DEF Inserted

\* insert of a range, all of it or up to the object it had no room for.
LEMMA InsertRangeImplements ==
  ASSUME IInv, NEW o \in Obj, NEW objs \in Ranges, InsertRange(o, objs)
  PROVE  IInv' /\ Map!InsertRange(o, objs)
<1>. DEFINE t == ht[o]
            r == insert_range(t, objs)
            call == <<"insert_range", o>>
            N == Len(objs)
<1>1. objs \in Seq(Slot) /\ N \in Nat /\ DOMAIN objs = 1 .. N
  <2>1. objs \in Seq(Slot)
    BY ClientAssumption DEF Slot
  <2>. QED
    BY <2>1, LenProperties
<1>2. /\ Sound(t) /\ OneEach(Objects(t))
      /\ \A i \in 1 .. N : objs[i] \in Slot /\ Allowed(t, objs[i].key)
  BY <1>1, Started DEF InsertRange, Answer, Ordinary, Allowed
<1>3. /\ Sound(r.ht) /\ (Spare(t, 0) => Spare(r.ht, 0))
      /\ r.res \in {"ok", "length_error", "table_full"}
      /\ \E n \in 0 .. N : /\ Reaches(Objects(t), objs, n, Objects(r.ht))
                           /\ r.res = "ok" => n = N
  BY <1>1, <1>2, InsertRangeSound
<1>4. Answer(o, call, r)
  BY DEF InsertRange
<1>. HIDE DEF r, call
<1>5. /\ IInv' /\ maps' = [maps EXCEPT ![o] = MapOf(Objects(r.ht))]
      /\ maps[o] = MapOf(Objects(t))
      /\ r.res # "table_full" /\ ret' = Append(call, r.res)
  BY <1>3, <1>4, Answered
<1>6. ret' = <<"insert_range", o, r.res>>
  BY <1>5, AppendToTwo DEF call
<1>7. PICK n \in 0 .. N : /\ Reaches(Objects(t), objs, n, Objects(r.ht))
                          /\ r.res = "ok" => n = N
  BY <1>3
<1>8. MapOf(Objects(r.ht)) = UpTo(maps[o], objs, n)
  <2>1. n \in Nat /\ \A i \in 1 .. n : objs[i] \in Slot
    BY <1>1, <1>2
  <2>. QED
    BY <1>2, <1>5, <1>7, <2>1, ReachesMap
<1>9. Map!InsertedAll(maps[o], SubSeq(objs, 1, n)) = UpTo(maps[o], objs, n)
  BY <1>1, UpToIsInsertedAll
<1>10. maps' = [maps EXCEPT ![o] = Map!InsertedAll(@, SubSeq(objs, 1, n))]
  BY <1>5, <1>8, <1>9
<1>11. CASE r.res = "ok"
  <2>1. SubSeq(objs, 1, n) = objs
    <3>1. n = N
      BY <1>7, <1>11
    <3>2. SubSeq(objs, 1, Len(objs)) = objs
      BY <1>1, SubSeqFull
    <3>. QED
      BY <3>1, <3>2
  <2>. QED
    BY <1>5, <1>6, <1>10, <1>11, <2>1 DEF Map!InsertRange, maps
<1>12. CASE r.res = "length_error"
  BY <1>5, <1>6, <1>10, <1>12 DEF Map!InsertRange, maps
<1>. QED
  BY <1>3, <1>5, <1>11, <1>12

\* operator[] refers to the one object of the key, put in if there was none,
\* and the assignment changes its value.
LEMMA SubscriptImplements ==
  ASSUME IInv, NEW o \in Obj, NEW k \in Key, NEW v \in Val, Subscript(o, k, v)
  PROVE  IInv' /\ Map!Subscript(o, k, v)
<1>. DEFINE t   == ht[o]
            obj == [key |-> k, val |-> DefaultVal]
            r   == find_or_insert(t, k)
            pos == find_position(r.ht, k).first
            w   == IF r.res \in {"inserted", "present"} THEN AssignThrough(r, k, v) ELSE r
            u   == [r.ht EXCEPT !.table = T!set(@, pos, [key |-> k, val |-> v])]
            old == object(r.ht, pos).val
            call == <<"subscript", o, k>>
<1>1. Sound(t) /\ Allowed(t, k) /\ OneEach(Objects(t)) /\ maps[o] = MapOf(Objects(t))
  BY Started DEF Subscript, Answer, Ordinary, Allowed
<1>2. Inserted(r, t, obj) /\ (Spare(t, 0) => Spare(r.ht, 0))
  BY <1>1, FindOrInsertSound
<1>3. Answer(o, call, w)
  BY DEF Subscript
<1>4. /\ AssignThrough(r, k, v).ht = u /\ AssignThrough(r, k, v).res = old
  BY DEF AssignThrough, Outcome
<1>5. obj \in Slot /\ obj.key = k /\ obj.val = DefaultVal
  BY KeysAssumption DEF Slot
<1>6. Sound(r.ht)
  BY <1>2 DEF Inserted
<1>7. CASE r.res \in {"inserted", "present"}
  <2>1. HasKey(Objects(r.ht), k)
    BY <1>2, <1>5, <1>7 DEF Inserted, HasKey
  <2>2. pos \in LiveBuckets(r.ht) /\ object(r.ht, pos).key = k
    <3>. DEFINE places == {i \in LiveBuckets(r.ht) : object(r.ht, i).key = k}
    <3>1. \E i \in LiveBuckets(r.ht) : object(r.ht, i).key = k
      BY <2>1, KeysOfObjects
    <3>2. places # {} => places = {pos}
      BY <1>6, <3>1, Lookups
    <3>. HIDE DEF pos
    <3>. QED
      BY <3>1, <3>2
  <2>. HIDE DEF r, pos
  <2>3. /\ Sound(u)
        /\ Objects(u) = {x \in Objects(r.ht) : x.key # k} \cup {[key |-> k, val |-> v]}
        /\ Spare(r.ht, 0) => Spare(u, 0)
    BY <1>6, <2>2, ValueSound
  <2>4. w.ht = u /\ w.res = old
    BY <1>4, <1>7
  <2>5. OneEach(Objects(r.ht)) /\ MapOf(Objects(u)) = [MapOf(Objects(r.ht)) EXCEPT ![k] = v]
    BY <1>6, <2>3, SoundOneEach, MapOfChanged
  <2>6. old \in Val /\ MapOf(Objects(r.ht))[k] = old
    <3>1. object(r.ht, pos) \in Objects(r.ht)
      BY <2>2 DEF Objects
    <3>. QED
      BY <2>2, <2>5, <3>1, MapOfIs
  <2>. HIDE DEF u, old, w, call
  <2>7. /\ IInv' /\ maps' = [maps EXCEPT ![o] = MapOf(Objects(u))]
        /\ ret' = Append(call, old)
    BY <1>2, <1>3, <2>3, <2>4, Answered
  <2>8. ret' = <<"subscript", o, k, old>>
    BY <2>7, AppendToThree DEF call
  <2>9. HasKey(Objects(t), k) <=> maps[o][k] # MISSING
    BY <1>1, MapOfIs
  <2>. DEFINE m == maps[o]
              q == MapOf(Objects(r.ht))
  <2>10. \/ m[k] = MISSING /\ q = [m EXCEPT ![k] = DefaultVal]
         \/ m[k] # MISSING /\ q = m
    <3>1. CASE r.res = "inserted"
      <4>1. ~HasKey(Objects(t), k) /\ Objects(r.ht) = Objects(t) \cup {obj}
        BY <1>2, <1>5, <3>1 DEF Inserted
      <4>2. ~HasKey(Objects(t), obj.key)
        BY <1>5, <4>1
      <4>. HIDE DEF obj
      <4>3. MapOf(Objects(r.ht)) = [MapOf(Objects(t)) EXCEPT ![obj.key] = obj.val]
        BY <1>1, <1>5, <4>1, <4>2, MapOfAdded
      <4>. QED
        BY <1>1, <1>5, <2>9, <4>1, <4>3
    <3>2. CASE r.res = "present"
      <4>1. HasKey(Objects(t), k) /\ Objects(r.ht) = Objects(t)
        BY <1>2, <1>5, <3>2 DEF Inserted
      <4>. QED
        BY <1>1, <2>9, <4>1
    <3>. QED
      BY <1>7, <3>1, <3>2
  <2>11. m = [x \in Key |-> m[x]]
    <3>1. MapOf(Objects(t)) = [x \in Key |-> MapOf(Objects(t))[x]]
      BY <1>1, MapOfIs
    <3>. QED
      BY <1>1, <3>1
  <2>12. maps' = [maps EXCEPT ![o] = [q EXCEPT ![k] = v]] /\ q[k] = old
    BY <2>5, <2>6, <2>7
  <2>13. m = maps[o]
    OBVIOUS
  <2>. HIDE DEF m, q
  <2>14. [q EXCEPT ![k] = v] = [m EXCEPT ![k] = v]
         /\ old = (IF m[k] = MISSING THEN DefaultVal ELSE m[k])
    BY <2>10, <2>11, <2>12
  <2>15. maps' = [maps EXCEPT ![o][k] = v]
    BY <2>12, <2>13, <2>14
  <2>. QED
    BY <2>6, <2>7, <2>8, <2>13, <2>14, <2>15 DEF Map!Subscript, maps
<1>8. CASE r.res \notin {"inserted", "present"}
  <2>1. w = r
    BY <1>8
  <2>. HIDE DEF w, r, call
  <2>2. /\ IInv' /\ (Objects(r.ht) = Objects(t) => maps' = maps)
        /\ r.res # "table_full" /\ ret' = Append(call, r.res)
    BY <1>2, <1>3, <1>6, <2>1, Answered
  <2>3. r.res = "length_error" /\ Objects(r.ht) = Objects(t)
    BY <1>2, <1>8, <2>2 DEF Inserted
  <2>4. ret' = <<"subscript", o, k, "length_error">>
    BY <2>2, <2>3, AppendToThree DEF call
  <2>. QED
    BY <2>2, <2>3, <2>4 DEF Map!Subscript, maps
<1>. QED
  BY <1>7, <1>8

\* erase of a key.
LEMMA EraseImplements ==
  ASSUME IInv, NEW o \in Obj, NEW k \in Key, Erase(o, k)
  PROVE  IInv' /\ Map!Erase(o, k)
<1>. DEFINE t == ht[o]
            r == erase(t, k)
            call == <<"erase", o, k>>
<1>1. Sound(t) /\ t.settings.use_deleted /\ OneEach(Objects(t))
  BY Started DEF Erase, Answer
<1>2. /\ Sound(r.ht) /\ (Spare(t, 0) => Spare(r.ht, 0))
      /\ \/ /\ r.res = "erased" /\ HasKey(Objects(t), k)
            /\ Objects(r.ht) = {x \in Objects(t) : x.key # k}
         \/ r.res = "absent" /\ ~HasKey(Objects(t), k) /\ Objects(r.ht) = Objects(t)
         \/ r.res = "table_full" /\ Objects(r.ht) = Objects(t)
  BY <1>1, EraseSound
<1>3. Answer(o, call, r)
  BY DEF Erase
<1>. HIDE DEF r, call
<1>4. /\ IInv' /\ maps' = [maps EXCEPT ![o] = MapOf(Objects(r.ht))]
      /\ maps[o] = MapOf(Objects(t)) /\ (Objects(r.ht) = Objects(t) => maps' = maps)
      /\ r.res # "table_full" /\ ret' = Append(call, r.res)
  BY <1>2, <1>3, Answered
<1>5. ret' = <<"erase", o, k, r.res>>
  BY <1>4, AppendToThree DEF call
<1>6. HasKey(Objects(t), k) <=> maps[o][k] # MISSING
  BY <1>1, <1>4, MapOfIs
<1>7. CASE r.res = "erased" /\ HasKey(Objects(t), k)
           /\ Objects(r.ht) = {x \in Objects(t) : x.key # k}
  <2>. DEFINE X == Objects(t)
              Y == Objects(r.ht)
              S == {k}
  <2>1. OneEach(X) /\ Y = {x \in X : x.key \notin S}
    BY <1>1, <1>7
  <2>2. MapOf(Y) = Map!Without(MapOf(X), S)
    <3>. HIDE DEF X, Y, S
    <3>. QED
      BY <2>1, MapOfWithout
  <2>3. MapOf(Y) = [maps[o] EXCEPT ![k] = MISSING]
    BY <1>4, <2>2, WithoutOne
  <2>4. maps' = [maps EXCEPT ![o][k] = MISSING]
    BY <1>4, <2>3
  <2>. QED
    BY <1>4, <1>5, <1>6, <1>7, <2>4 DEF Map!Erase, maps
<1>8. CASE r.res = "absent" /\ ~HasKey(Objects(t), k) /\ Objects(r.ht) = Objects(t)
  BY <1>4, <1>5, <1>6, <1>8 DEF Map!Erase, maps
<1>. QED
  BY <1>2, <1>4, <1>7, <1>8

\* A call that erases the objects in the buckets of S.
LEMMA Erased ==
  ASSUME IInv, NEW o \in Obj, NEW S, NEW u, Erases(u, ht[o], S), NEW keys,
         keys = {object(ht[o], i).key : i \in LiveBuckets(ht[o]) \cap S},
         Answer(o, <<"erase_range", o, keys>>, Outcome(u, "ok"))
  PROVE  IInv' /\ Map!EraseRange(o, keys)
<1>. DEFINE t == ht[o]
            w == Outcome(u, "ok")
            call == <<"erase_range", o, keys>>
<1>1. Sound(t) /\ OneEach(Objects(t))
  BY Started DEF Answer
<1>2. /\ Objects(u) = {x \in Objects(t) : x.key \notin keys}
      /\ Spare(t, 0) => Spare(u, 0)
  BY <1>1, ErasedObjects
<1>3. w.ht = u /\ w.res = "ok" /\ Sound(u) /\ Answer(o, call, w)
  BY DEF Outcome, Erases
<1>. HIDE DEF w, call
<1>4. /\ IInv' /\ maps' = [maps EXCEPT ![o] = MapOf(Objects(u))]
      /\ maps[o] = MapOf(Objects(t)) /\ ret' = Append(call, "ok")
  <2>1. Sound(w.ht) /\ (Spare(t, 0) => Spare(w.ht, 0))
    BY <1>2, <1>3
  <2>2. /\ IInv' /\ maps' = [maps EXCEPT ![o] = MapOf(Objects(w.ht))]
        /\ maps[o] = MapOf(Objects(t)) /\ ret' = Append(call, w.res)
    BY <1>3, <2>1, Answered
  <2>. QED
    BY <1>3, <2>2
<1>5. ret' = <<"erase_range", o, keys, "ok">>
  BY <1>4, AppendToThree DEF call
<1>6. MapOf(Objects(u)) = Map!Without(MapOf(Objects(t)), keys)
  BY <1>1, <1>2, MapOfWithout
<1>7. maps' = [maps EXCEPT ![o] = Map!Without(@, keys)]
  BY <1>4, <1>6
<1>. QED
  BY <1>4, <1>5, <1>7 DEF Map!EraseRange, maps

\* erase(it) and erase(f, l).
LEMMA EraseRangeImplements ==
  ASSUME IInv, NEW o \in Obj,
         \/ \E pos \in Buckets(ht[o]) : EraseAt(o, pos)
         \/ \E f, l \in 0 .. bucket_count(ht[o]) : EraseRange(o, f, l)
  PROVE  IInv' /\ \E keys \in SUBSET Key : Map!EraseRange(o, keys)
<1>. DEFINE t == ht[o]
<1>1. Idle
  BY DEF EraseAt, EraseRange, Answer
<1>2. /\ Sound(t) /\ LiveBuckets(t) = Used(t.table) \ Marked(t)
      /\ \A i \in Buckets(t) : test_deleted(t, i) <=> i \in Marked(t)
      /\ \A i \in LiveBuckets(t) : object(t, i).key \in Key
      /\ Marked(t) \subseteq Used(t.table)
  BY <1>1, Started, SoundLive, LiveCount DEF Sound
<1>3. ASSUME NEW pos \in Buckets(t), EraseAt(o, pos)
      PROVE  IInv' /\ \E keys \in SUBSET Key : Map!EraseRange(o, keys)
  <2>. DEFINE keys == IF pos \in LiveBuckets(t) THEN {object(t, pos).key} ELSE {}
              u == erase_at(t, pos)
  <2>1. t.settings.use_deleted /\ pos \in Used(t.table)
    BY <1>2, <1>3 DEF EraseAt
  <2>2. Erases(u, t, {pos})
    BY <1>2, <2>1, EraseAtSound
  <2>3. keys = {object(t, i).key : i \in LiveBuckets(t) \cap {pos}} /\ keys \in SUBSET Key
    BY <1>2
  <2>4. Answer(o, <<"erase_range", o, keys>>, Outcome(u, "ok"))
    BY <1>3 DEF EraseAt
  <2>. HIDE DEF keys, u
  <2>5. IInv' /\ Map!EraseRange(o, keys)
    BY <2>2, <2>3, <2>4, Erased
  <2>. QED
    BY <2>3, <2>5
<1>4. ASSUME NEW f, NEW l, EraseRange(o, f, l)
      PROVE  IInv' /\ \E keys \in SUBSET Key : Map!EraseRange(o, keys)
  <2>. DEFINE S == {j \in LiveBuckets(t) : f <= j /\ j < l}
              keys == {object(t, i).key : i \in S}
              u == erase_range(t, f, l)
  <2>1. t.settings.use_deleted /\ Answer(o, <<"erase_range", o, keys>>, Outcome(u, "ok"))
    BY <1>4 DEF EraseRange
  <2>2. Erases(u, t, S)
    BY <1>2, <2>1, EraseRangeSound
  <2>3. keys = {object(t, i).key : i \in LiveBuckets(t) \cap S} /\ keys \in SUBSET Key
    BY <1>2
  <2>. HIDE DEF keys, u, S
  <2>4. IInv' /\ Map!EraseRange(o, keys)
    BY <2>1, <2>2, <2>3, Erased
  <2>. QED
    BY <2>3, <2>4
<1>. QED
  BY <1>3, <1>4

-----------------------------------------------------------------------------
(* Clearing, and calls that deal with two objects.                         *)

\* Where something is empty, and the grow factor keeps it so, there is room.
LEMMA RoomLeft ==
  ASSUME NEW u, Sound(u), num_nonempty(u) < bucket_count(u),
         FactorsLeaveRoom => u.settings.enlarge_factor < 100
  PROVE  TableOK(u)
<1>1. num_nonempty(u) + 0 = num_nonempty(u)
  BY SoundFields
<1>. QED
  BY <1>1 DEF TableOK, Spare

\* clear, and construction anew, leave no object.
LEMMA ClearImplements ==
  ASSUME IInv, NEW o \in Obj, Clear(o) \/ \E n \in Expected : Construct(o, n)
  PROVE  IInv' /\ Map!Clear(o)
<1>1. Idle /\ ret' = <<"clear", o>>
  BY DEF Clear, Construct
<1>2. Sound(ht[o]) /\ (FactorsLeaveRoom => Spare(ht[o], 0))
  BY <1>1, Started
<1>3. ASSUME NEW u, TableOK(u), Objects(u) = {}, ht' = [ht EXCEPT ![o] = u]
      PROVE  IInv' /\ Map!Clear(o)
  <2>1. IInv' /\ maps' = [maps EXCEPT ![o] = MapOf({})]
    BY <1>1, <1>3, Changed
  <2>2. MapOf({}) = Map!Without(maps[o], Key)
    BY MapOfNone DEF Map!Without
  <2>3. maps' = [maps EXCEPT ![o] = Map!Without(@, Key)]
    BY <2>1, <2>2
  <2>. QED
    BY <1>1, <2>1, <2>3 DEF Map!Clear, maps
<1>4. CASE Clear(o)
  <2>. DEFINE u == clear(ht[o])
  <2>1. /\ Sound(u) /\ SameReserved(u, ht[o]) /\ Objects(u) = {}
        /\ num_nonempty(u) < bucket_count(u)
    BY <1>2, ClearSound
  <2>2. ht' = [ht EXCEPT ![o] = u]
    BY <1>4 DEF Clear
  <2>. HIDE DEF u
  <2>3. TableOK(u)
    BY <1>2, <2>1, RoomLeft DEF SameReserved, Spare
  <2>. QED
    BY <1>3, <2>1, <2>2, <2>3
<1>5. ASSUME NEW n \in Expected, Construct(o, n) PROVE IInv' /\ Map!Clear(o)
  <2>. DEFINE u == new_table(n)
  <2>1. n \in Nat
    BY ClientAssumption, SizesAssumption
  <2>2. /\ Sound(u) /\ Objects(u) = {} /\ num_nonempty(u) < bucket_count(u)
        /\ u.settings.enlarge_factor = HT_OCCUPANCY_PCT
    BY <1>5, <2>1, RoomUnderFactors, NewTableSound DEF Construct
  <2>3. ht' = [ht EXCEPT ![o] = u]
    BY <1>5 DEF Construct
  <2>. HIDE DEF u
  <2>4. TableOK(u)
    BY <2>2, RoomLeft DEF HT_OCCUPANCY_PCT
  <2>. QED
    BY <1>3, <2>2, <2>3, <2>4
<1>. QED
  BY <1>4, <1>5

\* Each object has the table of the other, its thresholds computed anew.
LEMMA SwapImplements ==
  ASSUME IInv, NEW o \in Obj, NEW p \in Obj, Swap(o, p)
  PROVE  IInv' /\ Map!Swap(o, p)
<1>1. /\ Idle /\ ret' = <<"swap", o, p>>
      /\ ht' = [ht EXCEPT ![o] = swapped(ht[p]), ![p] = swapped(ht[o])]
  BY DEF Swap
<1>2. AllOK(ht) /\ maps = MapsOf(ht) /\ (IInv' <=> AllOK(ht')) /\ maps' = MapsOf(ht')
  BY <1>1, Resting DEF Idle
<1>3. ASSUME NEW x \in Obj
      PROVE  TableOK(swapped(ht[x])) /\ Objects(swapped(ht[x])) = Objects(ht[x])
  <2>. DEFINE t == ht[x]
              u == swapped(t)
  <2>1. Sound(t) /\ (FactorsLeaveRoom => Spare(t, 0))
    BY <1>2 DEF AllOK, TableOK
  <2>2. /\ Sound(u) /\ SameMap(u, t)
        /\ num_nonempty(u) = num_nonempty(t) /\ bucket_count(u) = bucket_count(t)
    BY <2>1, SwappedSound
  <2>. HIDE DEF t, u
  <2>3. TableOK(u) /\ Objects(u) = Objects(t)
    BY <2>1, <2>2 DEF TableOK, Spare, SameMap, SameReserved
  <2>. QED
    BY <2>3 DEF t, u
<1>4. ht' = [x \in Obj |-> IF x = p THEN swapped(ht[o])
                           ELSE IF x = o THEN swapped(ht[p]) ELSE ht[x]]
  BY <1>1, <1>2 DEF AllOK
<1>5. AllOK(ht')
  BY <1>2, <1>3, <1>4 DEF AllOK
<1>6. \A x \in Obj : MapOf(Objects(ht'[x])) =
        IF x = p THEN maps[o] ELSE IF x = o THEN maps[p] ELSE maps[x]
  BY <1>2, <1>3, <1>4 DEF MapsOf
<1>7. maps' = [x \in Obj |-> MapOf(Objects(ht'[x]))] /\ maps = [x \in Obj |-> maps[x]]
  BY <1>2 DEF MapsOf
<1>8. maps' = [maps EXCEPT ![o] = maps[p], ![p] = maps[o]]
  <2>. HIDE DEF maps
  <2>. QED
    BY <1>6, <1>7
<1>. QED
  BY <1>1, <1>2, <1>5, <1>8 DEF Map!Swap, maps

\* Assignment, and construction of a copy.
LEMMA CopyImplements ==
  ASSUME IInv, NEW o \in Obj, NEW p \in Obj, Assign(o, p) \/ CopyConstruct(o, p)
  PROVE  IInv' /\ Map!Copy(o, p)
<1>1. Idle /\ ret' = <<"copy", o, p>>
  BY DEF Assign, CopyConstruct
<1>2. /\ TableOK(ht[o]) /\ Sound(ht[o]) /\ TableOK(ht[p]) /\ Sound(ht[p])
      /\ maps[p] = MapOf(Objects(ht[p]))
      /\ FactorsLeaveRoom => Spare(ht[p], 0)
  BY <1>1, Started
<1>3. ASSUME NEW u, TableOK(u), Objects(u) = Objects(ht[p]), ht' = [ht EXCEPT ![o] = u]
      PROVE  IInv' /\ Map!Copy(o, p)
  <2>1. IInv' /\ maps' = [maps EXCEPT ![o] = MapOf(Objects(u))]
    BY <1>1, <1>3, Changed
  <2>2. maps' = [maps EXCEPT ![o] = maps[p]]
    BY <1>2, <1>3, <2>1
  <2>. QED
    BY <1>1, <2>1, <2>2 DEF Map!Copy, maps
<1>4. ASSUME NEW u, Sound(u), SameMap(u, ht[p]), num_nonempty(u) < bucket_count(u)
      PROVE  TableOK(u) /\ Objects(u) = Objects(ht[p])
  BY <1>2, <1>4, RoomLeft DEF SameMap, SameReserved, Spare
<1>5. CASE Assign(o, p)
  <2>. DEFINE a == assign(ht[o], ht[p])
              u == IF o = p THEN ht[o] ELSE a
  <2>1. Sound(a) /\ SameMap(a, ht[p]) /\ num_nonempty(a) < bucket_count(a)
    BY <1>2, AssignSound
  <2>2. ht' = [ht EXCEPT ![o] = u]
    BY <1>5 DEF Assign
  <2>. HIDE DEF a
  <2>3. TableOK(a) /\ Objects(a) = Objects(ht[p])
    BY <1>4, <2>1
  <2>4. TableOK(u) /\ Objects(u) = Objects(ht[p])
    BY <1>2, <2>3
  <2>. HIDE DEF u
  <2>. QED
    BY <1>3, <2>2, <2>4
<1>6. CASE CopyConstruct(o, p)
  <2>. DEFINE u == copy_of(ht[p], HT_DEFAULT_STARTING_BUCKETS)
  <2>1. HT_DEFAULT_STARTING_BUCKETS \in BucketCounts
    BY SizesAssumption DEF BucketCounts
  <2>2. Sound(u) /\ SameMap(u, ht[p]) /\ num_nonempty(u) < bucket_count(u)
    BY <1>2, <2>1, CopyOfSound
  <2>3. ht' = [ht EXCEPT ![o] = u]
    BY <1>6 DEF CopyConstruct
  <2>. HIDE DEF u
  <2>4. TableOK(u) /\ Objects(u) = Objects(ht[p])
    BY <1>4, <2>2
  <2>. QED
    BY <1>3, <2>3, <2>4
<1>. QED
  BY <1>5, <1>6

\* operator== tells whether the maps are equal.
LEMMA EqualImplements ==
  ASSUME IInv, NEW o \in Obj, NEW p \in Obj, Equal(o, p)
  PROVE  IInv' /\ Map!Equal(o, p)
<1>. DEFINE t == ht[o]
            u == ht[p]
<1>1. Idle /\ UNCHANGED ht /\ ret' = <<"equal", o, p, tables_equal(t, u)>>
  BY DEF Equal
<1>2. /\ Sound(t) /\ OneEach(Objects(t)) /\ maps[o] = MapOf(Objects(t))
      /\ Sound(u) /\ OneEach(Objects(u)) /\ maps[p] = MapOf(Objects(u))
  BY <1>1, Started
<1>3. tables_equal(t, u) <=> Objects(t) = Objects(u)
  BY <1>2, TablesEqual
<1>4. tables_equal(t, u) <=> maps[o] = maps[p]
  BY <1>2, <1>3, MapOfEqual
<1>5. tables_equal(t, u) \in BOOLEAN
  BY DEF tables_equal
<1>6. tables_equal(t, u) = (maps[o] = maps[p])
  BY <1>4, <1>5
<1>7. IInv' /\ maps' = maps
  BY <1>1, Resting DEF Idle
<1>8. ret' = <<"equal", o, p, maps[o] = maps[p]>>
  BY <1>1, <1>6, Zenon
<1>. QED
  BY <1>7, <1>8 DEF Map!Equal, maps

-----------------------------------------------------------------------------
(* Housekeeping in one step.                                               *)

\* Resizing and new load factors change no map.
LEMMA HousekeepingImplements ==
  ASSUME IInv, NEW o \in Obj,
         \/ \E n \in Requests : Resize(o, n)
         \/ \E f \in Factors : SetResizingParameters(o, f[1], f[2])
         \/ \E f \in Factors : MinLoadFactor(o, f[1])
         \/ \E f \in Factors : MaxLoadFactor(o, f[2])
  PROVE  IInv' /\ Map!Housekeep(o)
<1>. DEFINE t == ht[o]
<1>1. Idle
  BY DEF Resize, SetResizingParameters, MinLoadFactor, MaxLoadFactor, Answer
<1>2. Sound(t) /\ TableOK(t) /\ (FactorsLeaveRoom => Spare(t, 0))
  BY <1>1, Started
<1>3. ASSUME NEW n \in Requests, Resize(o, n) PROVE IInv' /\ Map!Housekeep(o)
  <2>. DEFINE r == resize(t, n)
              call == <<"resize", o>>
  <2>1. n \in Nat
    BY ClientAssumption, SizesAssumption
  <2>2. /\ Sound(r.ht) /\ Objects(r.ht) = Objects(t)
        /\ r.res \in {"kept", "resized", "length_error"}
        /\ Spare(t, 0) => Spare(r.ht, 0)
    BY <1>2, <2>1, ResizeSound DEF SameMap
  <2>3. Answer(o, call, r)
    BY <1>3 DEF Resize
  <2>. HIDE DEF r, call
  <2>4. IInv' /\ maps' = maps /\ ret' = Append(call, r.res)
    BY <2>2, <2>3, Answered
  <2>5. ret' = <<"resize", o, r.res>>
    BY <2>4, AppendToTwo DEF call
  <2>. QED
    BY <2>2, <2>4, <2>5 DEF Map!Housekeep, maps
<1>4. ASSUME NEW shrink \in Percent, NEW grow \in Percent,
             \E n \in BucketCounts : MaxSize < (n * grow) \div 100,
             FactorsLeaveRoom => grow < 100, SetResizingParameters(o, shrink, grow)
      PROVE  IInv' /\ Map!Housekeep(o)
  <2>. DEFINE u == change_resizing_parameters(t, shrink, grow)
              r == Outcome(u, "ok")
              call == <<"housekeep", o>>
  <2>1. /\ Sound(u) /\ Objects(u) = Objects(t)
        /\ grow < 100 /\ Spare(t, 0) => Spare(u, 0)
    BY <1>2, <1>4, ParametersSound
  <2>2. /\ ht' = [ht EXCEPT ![o] = u] /\ ret' = Append(call, "ok")
    BY <1>4 DEF SetResizingParameters, Answer, Outcome
  <2>. HIDE DEF u, call
  <2>3. TableOK(u)
    BY <1>2, <1>4, <2>1 DEF TableOK
  <2>4. IInv' /\ maps' = maps
    BY <1>1, <2>1, <2>2, <2>3, Changed
  <2>5. ret' = <<"housekeep", o, "ok">>
    BY <2>2, AppendToTwo DEF call
  <2>. QED
    BY <2>4, <2>5 DEF Map!Housekeep, maps
<1>5. \A f \in Factors : /\ f[1] \in Percent /\ f[2] \in Percent
                         /\ FactorsLeaveRoom => f[2] < 100
                         /\ \E n \in BucketCounts : MaxSize < (n * f[2]) \div 100
  <2>1. \A f \in Factors : f[1] \in Percent /\ f[2] \in Percent
    BY ClientAssumption
  <2>. QED
    BY <2>1, RoomUnderFactors DEF FactorsLeaveRoom
<1>6. /\ \E n \in BucketCounts : MaxSize < (n * t.settings.enlarge_factor) \div 100
      /\ t.settings.enlarge_factor \in Percent /\ t.settings.shrink_factor \in Percent
  BY <1>2, RoomUnderOwnFactor
<1>7. FactorsLeaveRoom => t.settings.enlarge_factor < 100
  BY <1>2 DEF Spare
<1>8. ASSUME NEW f \in Factors, SetResizingParameters(o, f[1], f[2])
      PROVE  IInv' /\ Map!Housekeep(o)
  BY <1>4, <1>5, <1>8
<1>9. ASSUME NEW f \in Factors, MinLoadFactor(o, f[1])
      PROVE  IInv' /\ Map!Housekeep(o)
  BY <1>4, <1>5, <1>6, <1>7, <1>9 DEF MinLoadFactor
<1>10. ASSUME NEW f \in Factors, MaxLoadFactor(o, f[2])
       PROVE  IInv' /\ Map!Housekeep(o)
  BY <1>4, <1>5, <1>6, <1>10 DEF MaxLoadFactor
<1>. QED
  BY <1>3, <1>8, <1>9, <1>10

-----------------------------------------------------------------------------
(* Housekeeping object by object.                                          *)

\* What is left of such a call after the move, which has rid the table of its
\* deleted buckets, keeps the objects.
LEMMA RestSound ==
  ASSUME NEW t, Sound(t), NEW src, Objects(t) = Objects(src),
         NEW call, CallOK(call, src), t.num_deleted = 0 \/ call = <<"maybe_shrink">>
  PROVE  LET u == Rest(call, t)
         IN  /\ Sound(u) /\ Objects(u) = Objects(src)
             /\ Spare(t, 0) => Spare(u, 0)
<1>. DEFINE u == Rest(call, t)
<1>1. CASE call = <<"maybe_shrink">>
  <2>1. u = considered(t)
    BY <1>1 DEF Rest
  <2>. HIDE DEF u
  <2>2. /\ Sound(u) /\ SameMap(u, t)
        /\ bucket_count(u) = bucket_count(t) /\ num_nonempty(u) = num_nonempty(t)
    BY <2>1, ConsideredSound
  <2>3. Sound(u) /\ Objects(u) = Objects(src) /\ (Spare(t, 0) => Spare(u, 0))
    BY <2>2 DEF SameMap, SameReserved, Spare
  <2>. QED
    BY <2>3 DEF u
<1>2. CASE call = <<"clear_deleted_key">>
  <2>1. u = use_no_deleted_key(t) /\ t.num_deleted = 0
    BY <1>2 DEF Rest
  <2>. DEFINE using == FALSE
              k     == DefaultKey
  <2>2. /\ u = IF using THEN use_deleted_key(t, k) ELSE use_no_deleted_key(t)
        /\ k \in Key /\ using \in BOOLEAN
        /\ using => \A i \in LiveBuckets(t) : object(t, i).key # k
    BY <2>1, KeysAssumption
  <2>. HIDE DEF u, using, k
  <2>3. Sound(u) /\ Objects(u) = Objects(t) /\ (Spare(t, 0) => Spare(u, 0))
    BY <2>1, <2>2, DeletedKeySound
  <2>. QED
    BY <2>3 DEF u
<1>3. ASSUME NEW k \in Key, call = <<"set_deleted_key", k>>, ~HasKey(Objects(src), k)
      PROVE  Sound(u) /\ Objects(u) = Objects(src) /\ (Spare(t, 0) => Spare(u, 0))
  <2>1. u = use_deleted_key(t, k) /\ t.num_deleted = 0
    BY <1>3 DEF Rest
  <2>. DEFINE using == TRUE
  <2>2. \A i \in LiveBuckets(t) : object(t, i).key # k
    BY <1>3, KeysOfObjects
  <2>3. /\ u = IF using THEN use_deleted_key(t, k) ELSE use_no_deleted_key(t)
        /\ using \in BOOLEAN
        /\ using => \A i \in LiveBuckets(t) : object(t, i).key # k
    BY <2>1, <2>2
  <2>. HIDE DEF u, using
  <2>4. Sound(u) /\ Objects(u) = Objects(t) /\ (Spare(t, 0) => Spare(u, 0))
    BY <2>1, <2>3, DeletedKeySound
  <2>. QED
    BY <2>4
<1>. QED
  BY <1>1, <1>2, <1>3 DEF CallOK

\* Such a call begins: the move does, or there is nothing to move.
LEMMA CompactImplements ==
  ASSUME IInv, NEW o \in Obj, NEW has_to \in BOOLEAN, NEW n, NEW call,
         Compact(o, has_to, n, call), CallOK(call, ht[o]),
         has_to => n \in BucketCounts /\ size(ht[o]) < n,
         ~has_to => ht[o].num_deleted = 0 \/ call = <<"maybe_shrink">>
  PROVE  IInv' /\ maps' = maps /\ (ret' = ret \/ Map!Housekeep(o))
<1>. DEFINE t == ht[o]
<1>1. moving = NoMove /\ AllOK(ht) /\ maps = MapsOf(ht)
  BY Resting DEF Compact
<1>2. TableOK(t) /\ Sound(t)
  BY <1>1 DEF AllOK, TableOK
<1>3. CASE has_to
  <2>. DEFINE to == cleared_for(no_buckets_of(t), n)
              l  == moving_to(t, n)
  <2>1. n \in BucketCounts /\ size(t) < n /\ n \in Nat
    BY <1>3, SizesAssumption DEF BucketCounts
  <2>2. Vacant(to, t, n)
    BY <1>2, <2>1, ConstructedVacates DEF Sound
  <2>3. l = move_begin(to, t)
    BY DEF moving_to
  <2>4. /\ moving' = [obj |-> o, call |-> call, to |-> l.to, it |-> l.it]
        /\ ht' = [ht EXCEPT ![o] = l.from] /\ ret' = ret
    BY <1>3 DEF Compact
  <2>. HIDE DEF l, to
  <2>5. Underway(l, t, n, TRUE)
    BY <1>2, <2>1, <2>2, <2>3, LoopBegins
  <2>6. l = Loop(l.from, l.to, l.it)
    BY <2>5 DEF Underway
  <2>7. ht' = [x \in Obj |-> IF x = o THEN l.from ELSE ht[x]]
    BY <1>1, <2>4 DEF AllOK
  <2>8. /\ moving'.obj = o /\ moving'.call = call /\ moving'.to = l.to /\ moving'.it = l.it
        /\ moving' = [obj |-> moving'.obj, call |-> moving'.call,
                      to |-> moving'.to, it |-> moving'.it]
    BY <2>4
  <2>9. Loop(ht'[moving'.obj], moving'.to, moving'.it) = l
    BY <2>6, <2>7, <2>8
  <2>10. FactorsLeaveRoom => t.settings.enlarge_factor < 100
    BY <1>2 DEF TableOK, Spare
  <2>11. ht' = [x \in Obj |-> ht'[x]] /\ \A x \in Obj \ {moving'.obj} : TableOK(ht'[x])
    BY <1>1, <2>7, <2>8 DEF AllOK
  <2>12. InMove(ht', moving', t, n)
    BY <1>2, <2>5, <2>8, <2>9, <2>10, <2>11 DEF InMove
  <2>13. maps' = [x \in Obj |-> MapOf(Objects(IF x = moving'.obj THEN t ELSE ht'[x]))]
    BY <2>12, MovingMaps, MapsAre
  <2>14. \A x \in Obj : (IF x = moving'.obj THEN t ELSE ht'[x]) = ht[x]
    BY <2>7, <2>8
  <2>15. maps' = maps
    BY <1>1, <2>13, <2>14 DEF MapsOf
  <2>. QED
    BY <2>4, <2>12, <2>15 DEF IInv
<1>4. CASE ~has_to
  <2>. DEFINE u == Rest(call, t)
  <2>1. /\ ht' = [ht EXCEPT ![o] = u] /\ ret' = <<"housekeep", o, "ok">>
        /\ UNCHANGED moving
    BY <1>4 DEF Compact
  <2>2. Sound(u) /\ Objects(u) = Objects(t) /\ (Spare(t, 0) => Spare(u, 0))
    BY <1>2, <1>4, RestSound
  <2>. HIDE DEF u
  <2>3. TableOK(u)
    BY <1>2, <2>2 DEF TableOK
  <2>4. IInv' /\ maps' = maps
    BY <1>1, <2>1, <2>2, <2>3, Changed DEF Idle
  <2>. QED
    BY <2>1, <2>4 DEF Map!Housekeep, maps
<1>. QED
  BY <1>3, <1>4

\* The three calls.
LEMMA CompactingImplements ==
  ASSUME IInv, NEW o \in Obj,
         \/ \E k \in DeletedKeys : SetDeletedKey(o, k)
         \/ ClearDeletedKey(o)
         \/ ResizeToZero(o)
  PROVE  IInv' /\ maps' = maps /\ (ret' = ret \/ Map!Housekeep(o))
<1>. DEFINE t == ht[o]
<1>1. moving = NoMove
  BY DEF SetDeletedKey, ClearDeletedKey, ResizeToZero, Compact
<1>2. Sound(t)
  BY <1>1, Resting DEF AllOK, TableOK
<1>3. /\ bucket_count(t) \in BucketCounts /\ t.num_deleted \in Nat
      /\ t.num_deleted > 0 => size(t) < bucket_count(t)
      /\ ~(t.num_deleted > 0) => t.num_deleted = 0
  BY <1>2, SoundFields, UsedFits
<1>4. (t.num_deleted > 0) \in BOOLEAN /\ shrinks(t) \in BOOLEAN
  BY DEF shrinks
<1>5. ASSUME NEW k \in DeletedKeys, SetDeletedKey(o, k)
      PROVE  IInv' /\ maps' = maps /\ (ret' = ret \/ Map!Housekeep(o))
  <2>. DEFINE call == <<"set_deleted_key", k>>
              has_to == t.num_deleted > 0
  <2>1. k \in Key
    BY ClientAssumption
  <2>2. ~HasKey(Objects(t), k)
    BY <1>5, KeysOfObjects DEF SetDeletedKey, Keys
  <2>3. CallOK(call, t) /\ Compact(o, has_to, bucket_count(t), call)
    BY <1>5, <2>1, <2>2 DEF CallOK, SetDeletedKey
  <2>. HIDE DEF call
  <2>. QED
    BY <1>3, <1>4, <2>3, CompactImplements
<1>6. CASE ClearDeletedKey(o)
  <2>. DEFINE call == <<"clear_deleted_key">>
              has_to == t.num_deleted > 0
  <2>1. CallOK(call, t) /\ Compact(o, has_to, bucket_count(t), call)
    BY <1>6 DEF CallOK, ClearDeletedKey
  <2>. HIDE DEF call
  <2>. QED
    BY <1>3, <1>4, <2>1, CompactImplements
<1>7. CASE ResizeToZero(o)
  <2>. DEFINE call == <<"maybe_shrink">>
  <2>1. CallOK(call, t) /\ Compact(o, shrinks(t), shrunk_size(t), call)
    BY <1>7 DEF CallOK, ResizeToZero
  <2>2. shrinks(t) => shrunk_size(t) \in BucketCounts /\ size(t) < shrunk_size(t)
    BY <1>2, ShrunkSize
  <2>. QED
    BY <1>4, <2>1, <2>2, CompactImplements
<1>. QED
  BY <1>5, <1>6, <1>7

\* The move goes on by an object, and nothing is lost or comes to be there.
LEMMA MoveObjectImplements ==
  ASSUME IInv, MoveObject
  PROVE  IInv' /\ maps' = maps /\ ret' = ret
<1>. DEFINE b == moving.obj
            l == TheMove
            s == move_step(l)
<1>1. PICK src, n : InMove(ht, moving, src, n)
  BY DEF IInv, MoveObject
<1>2. /\ b \in Obj /\ Sound(src) /\ Underway(l, src, n, TRUE)
      /\ ht = [o \in Obj |-> ht[o]] /\ \A o \in Obj \ {b} : TableOK(ht[o])
      /\ moving = [obj |-> b, call |-> moving.call, to |-> moving.to, it |-> moving.it]
      /\ FactorsLeaveRoom => src.settings.enlarge_factor < 100
      /\ CallOK(moving.call, src)
  BY <1>1 DEF InMove, TheMove
<1>3. /\ ht' = [ht EXCEPT ![b] = s.from] /\ ret' = ret
      /\ moving' = [moving EXCEPT !.to = s.to, !.it = s.it]
      /\ ~loop_ended(l)
  BY DEF MoveObject
<1>. HIDE DEF l, b
<1>4. l.it # end(src)
  BY <1>2, <1>3, LoopEnds
<1>5. Underway(s, src, n, TRUE)
  <2>. DEFINE frees == TRUE
  <2>1. frees \in BOOLEAN /\ Underway(l, src, n, frees)
    BY <1>2
  <2>2. Underway(IF frees THEN s ELSE copy_step(l), src, n, frees)
    <3>. HIDE DEF frees
    <3>. QED
      BY <1>2, <1>4, <2>1, StepGoesOn
  <2>. QED
    BY <2>2
<1>. HIDE DEF s
<1>6. s = Loop(s.from, s.to, s.it)
  BY <1>5 DEF Underway
<1>7. moving' = [obj |-> b, call |-> moving.call, to |-> s.to, it |-> s.it]
  <2>. DEFINE c == moving.call
              x == moving.to
              y == moving.it
  <2>1. moving = [obj |-> b, call |-> c, to |-> x, it |-> y]
    BY <1>2
  <2>2. moving' = [obj |-> b, call |-> c, to |-> s.to, it |-> s.it]
    <3>. HIDE DEF c, x, y
    <3>. QED
      BY <1>3, <2>1
  <2>. QED
    BY <2>2
<1>8. /\ moving'.obj = b /\ moving'.call = moving.call
      /\ moving'.to = s.to /\ moving'.it = s.it
      /\ moving' = [obj |-> moving'.obj, call |-> moving'.call,
                    to |-> moving'.to, it |-> moving'.it]
  BY <1>7
<1>9. ht' = [x \in Obj |-> IF x = b THEN s.from ELSE ht[x]]
  BY <1>2, <1>3
<1>10. Loop(ht'[moving'.obj], moving'.to, moving'.it) = s
  BY <1>2, <1>6, <1>8, <1>9
<1>11. ht' = [x \in Obj |-> ht'[x]] /\ \A x \in Obj \ {moving'.obj} : TableOK(ht'[x])
  BY <1>2, <1>8, <1>9
<1>12. InMove(ht', moving', src, n)
  BY <1>2, <1>5, <1>8, <1>10, <1>11 DEF InMove
<1>13. /\ maps = [x \in Obj |-> MapOf(Objects(IF x = moving.obj THEN src ELSE ht[x]))]
       /\ maps' = [x \in Obj |-> MapOf(Objects(IF x = moving'.obj THEN src ELSE ht'[x]))]
  BY <1>1, <1>12, MovingMaps, MapsAre
<1>14. \A x \in Obj : (IF x = moving'.obj THEN src ELSE ht'[x])
                        = (IF x = moving.obj THEN src ELSE ht[x])
  BY <1>8, <1>9 DEF b
<1>15. maps' = maps
  BY <1>13, <1>14
<1>. QED
  BY <1>3, <1>12, <1>15 DEF IInv

\* The move ends with a table of the same objects, and the call with it.
LEMMA EndMoveImplements ==
  ASSUME IInv, EndMove
  PROVE  IInv' /\ \E o \in Obj : Map!Housekeep(o)
<1>. DEFINE b == moving.obj
            l == TheMove
            t == swapped(l.to)
            u == Rest(moving.call, t)
<1>1. PICK src, n : InMove(ht, moving, src, n)
  BY DEF IInv, EndMove
<1>2. /\ b \in Obj /\ Sound(src) /\ Underway(l, src, n, TRUE)
      /\ ht = [o \in Obj |-> ht[o]] /\ \A o \in Obj \ {b} : TableOK(ht[o])
      /\ FactorsLeaveRoom => src.settings.enlarge_factor < 100
      /\ CallOK(moving.call, src)
  BY <1>1 DEF InMove, TheMove
<1>3. /\ ht' = [ht EXCEPT ![b] = u] /\ ret' = <<"housekeep", b, "ok">>
      /\ moving' = NoMove /\ loop_ended(l)
  BY DEF EndMove, move_end
<1>4. maps = [x \in Obj |-> MapOf(Objects(IF x = b THEN src ELSE ht[x]))]
  BY <1>1, MovingMaps, MapsAre
<1>. HIDE DEF l, b
<1>5. Sound(l.to) /\ SameMap(l.to, src)
  <2>1. l.it = end(src)
    BY <1>2, <1>3, LoopEnds
  <2>. QED
    BY <1>2, <2>1, LoopEnds
<1>6. l.to.num_deleted = 0 /\ bucket_count(l.to) = n /\ size(src) < n
  BY <1>2 DEF Underway
<1>7. /\ Sound(t) /\ SameMap(t, l.to) /\ t.num_deleted = 0
      /\ num_nonempty(t) = num_nonempty(l.to) /\ bucket_count(t) = n
  BY <1>5, <1>6, SwappedSound
<1>. HIDE DEF t
<1>8. /\ Objects(t) = Objects(src) /\ size(t) = size(src)
      /\ t.settings.enlarge_factor = src.settings.enlarge_factor
  BY <1>5, <1>7 DEF SameMap, SameReserved
<1>9. TableOK(t)
  <2>1. size(t) + t.num_deleted = num_nonempty(t) /\ num_nonempty(t) \in Nat /\ size(t) \in Nat
    BY <1>7, SoundFields
  <2>2. num_nonempty(t) = size(src)
    BY <1>7, <1>8, <2>1
  <2>3. num_nonempty(t) < bucket_count(t)
    BY <1>6, <1>7, <2>2
  <2>. QED
    BY <1>2, <1>7, <1>8, <2>3, RoomLeft
<1>10. Sound(u) /\ Objects(u) = Objects(src) /\ (Spare(t, 0) => Spare(u, 0))
  BY <1>2, <1>7, <1>8, RestSound
<1>. HIDE DEF u
<1>11. TableOK(u)
  BY <1>9, <1>10 DEF TableOK
<1>12. ht' = [x \in Obj |-> IF x = b THEN u ELSE ht[x]]
  BY <1>2, <1>3
<1>13. AllOK(ht')
  BY <1>2, <1>11, <1>12 DEF AllOK
<1>14. IInv' /\ maps' = MapsOf(ht')
  BY <1>3, <1>13, Resting
<1>15. \A x \in Obj : Objects(ht'[x]) = Objects(IF x = b THEN src ELSE ht[x])
  BY <1>10, <1>12
<1>16. maps' = maps
  BY <1>4, <1>14, <1>15 DEF MapsOf
<1>17. Map!Housekeep(b)
  BY <1>3, <1>16 DEF Map!Housekeep, maps
<1>. QED
  BY <1>2, <1>14, <1>17

-----------------------------------------------------------------------------
(* The steps of the program.                                               *)

\* A step of the program keeps the invariant, and is a step of the maps or
\* changes nothing of them.
LEMMA NextImplements ==
  ASSUME IInv, [Next]_vars
  PROVE  IInv' /\ [Map!Next]_(Map!vars)
<1>1. CASE UNCHANGED vars
  <2>1. maps' = maps /\ ret' = ret
    BY <1>1, MapsAre DEF vars
  <2>2. IInv'
    BY <1>1 DEF vars, IInv
  <2>. QED
    BY <2>1, <2>2 DEF Map!vars, maps
<1>2. CASE MoveObject
  <2>1. IInv' /\ maps' = maps /\ ret' = ret
    BY <1>2, MoveObjectImplements
  <2>. QED
    BY <2>1 DEF Map!vars, maps
<1>3. CASE EndMove
  <2>1. IInv' /\ \E o \in Obj : Map!Housekeep(o)
    BY <1>3, EndMoveImplements
  <2>. QED
    BY <2>1 DEF Map!Next
<1>4. ASSUME NEW o \in Obj, NEW obj \in Items, Insert(o, obj)
      PROVE  IInv' /\ Map!Next
  <2>1. obj.key \in Key /\ obj.val \in Val /\ obj = [key |-> obj.key, val |-> obj.val]
    BY ClientAssumption
  <2>. QED
    BY <1>4, <2>1, InsertImplements DEF Map!Next
<1>5. ASSUME NEW o \in Obj, NEW obj \in Items, Subscript(o, obj.key, obj.val)
      PROVE  IInv' /\ Map!Next
  <2>1. obj.key \in Key /\ obj.val \in Val
    BY ClientAssumption
  <2>. QED
    BY <1>5, <2>1, SubscriptImplements DEF Map!Next
<1>6. ASSUME NEW o \in Obj, NEW objs \in Ranges, InsertRange(o, objs)
      PROVE  IInv' /\ Map!Next
  BY <1>6, InsertRangeImplements DEF Map!Next
<1>7. ASSUME NEW o \in Obj, NEW k \in Key, Erase(o, k) PROVE IInv' /\ Map!Next
  BY <1>7, EraseImplements DEF Map!Next
<1>8. ASSUME NEW o \in Obj,
             \/ \E pos \in Buckets(ht[o]) : EraseAt(o, pos)
             \/ \E f, l \in 0 .. bucket_count(ht[o]) : EraseRange(o, f, l)
      PROVE  IInv' /\ Map!Next
  <2>1. IInv' /\ \E keys \in SUBSET Key : Map!EraseRange(o, keys)
    BY <1>8, EraseRangeImplements
  <2>. QED
    BY <2>1 DEF Map!Next
<1>9. ASSUME NEW o \in Obj, Clear(o) \/ \E n \in Expected : Construct(o, n)
      PROVE  IInv' /\ Map!Next
  BY <1>9, ClearImplements DEF Map!Next
<1>10. ASSUME NEW o \in Obj, NEW p \in Obj, Swap(o, p) PROVE IInv' /\ Map!Next
  BY <1>10, SwapImplements DEF Map!Next
<1>11. ASSUME NEW o \in Obj, NEW p \in Obj, Assign(o, p) \/ CopyConstruct(o, p)
       PROVE  IInv' /\ Map!Next
  BY <1>11, CopyImplements DEF Map!Next
<1>12. ASSUME NEW o \in Obj, NEW p \in Obj, Equal(o, p) PROVE IInv' /\ Map!Next
  BY <1>12, EqualImplements DEF Map!Next
<1>13. ASSUME NEW o \in Obj,
              \/ \E n \in Requests : Resize(o, n)
              \/ \E f \in Factors : SetResizingParameters(o, f[1], f[2])
              \/ \E f \in Factors : MinLoadFactor(o, f[1])
              \/ \E f \in Factors : MaxLoadFactor(o, f[2])
       PROVE  IInv' /\ Map!Next
  <2>1. IInv' /\ Map!Housekeep(o)
    BY <1>13, HousekeepingImplements
  <2>. QED
    BY <2>1 DEF Map!Next
<1>14. ASSUME NEW o \in Obj,
              \/ \E k \in DeletedKeys : SetDeletedKey(o, k)
              \/ ClearDeletedKey(o)
              \/ ResizeToZero(o)
       PROVE  IInv' /\ [Map!Next]_(Map!vars)
  <2>1. IInv' /\ maps' = maps /\ (ret' = ret \/ Map!Housekeep(o))
    BY <1>14, CompactingImplements
  <2>2. CASE ret' = ret
    BY <2>1, <2>2 DEF Map!vars, maps
  <2>3. CASE Map!Housekeep(o)
    BY <2>1, <2>3 DEF Map!Next
  <2>. QED
    BY <2>1, <2>2, <2>3
<1>. QED
  BY <1>1, <1>2, <1>3, <1>4, <1>5, <1>6, <1>7, <1>8, <1>9, <1>10, <1>11, <1>12, <1>13,
     <1>14 DEF Next

-----------------------------------------------------------------------------
(* What the invariant says of each table.                                  *)

\* The counters of a sound table count.
LEMMA CountersHold ==
  ASSUME NEW t, Sound(t)
  PROVE  LET used   == {i \in Buckets(t) : ~test_empty(t, i)}
             marked == {i \in used : t.settings.use_deleted /\ object(t, i).key = t.delkey}
         IN  /\ num_nonempty(t) = Cardinality(used)
             /\ num_nonempty(t) = T!num_nonempty_of(t.table.groups)
             /\ t.num_deleted = Cardinality(marked)
             /\ bucket_count(t) \in BucketCounts
             /\ thresholds_of(t).settings = [t.settings EXCEPT !.consider_shrink = FALSE]
<1>. DEFINE used   == {i \in Buckets(t) : ~test_empty(t, i)}
            marked == {i \in used : t.settings.use_deleted /\ object(t, i).key = t.delkey}
<1>1. IsTable(t) /\ bucket_count(t) \in BucketCounts /\ bucket_count(t) \in Nat
      /\ t.settings \in Settings
  BY SoundFields
<1>2. used = Used(t.table) /\ num_nonempty(t) = Cardinality(Used(t.table))
  BY <1>1, Fields
<1>3. marked = Marked(t)
  BY <1>2 DEF Marked
<1>4. t.num_deleted = Cardinality(Marked(t)) /\ InSync(t)
  BY DEF Sound
<1>5. num_nonempty(t) = T!num_nonempty_of(t.table.groups)
  <2>1. TabSound(t.table)
    BY <1>1 DEF IsTable
  <2>. QED
    BY <2>1, TabFields DEF num_nonempty
<1>6. thresholds_of(t).settings = [t.settings EXCEPT !.consider_shrink = FALSE]
  <2>. DEFINE s == t.settings
              n == bucket_count(t)
              e == enlarge_size(s, n)
              h == shrink_size(s, n)
  <2>1. thresholds_of(t).settings = reset_thresholds(s, n)
    <3>1. thresholds_of(t) = [settings |-> reset_thresholds(s, n), delkey |-> t.delkey,
                              num_deleted |-> t.num_deleted, table |-> t.table]
      BY <1>1, SettingsExcept DEF thresholds_of
    <3>. QED
      BY <3>1
  <2>2. s \in Settings /\ s.enlarge_threshold = e /\ s.shrink_threshold = h
    BY <1>1, <1>4 DEF InSync
  <2>3. reset_thresholds(s, n) = [s EXCEPT !.enlarge_threshold = e, !.shrink_threshold = h,
                                           !.consider_shrink = FALSE]
    BY DEF reset_thresholds
  <2>. HIDE DEF s, e, h
  <2>4. [s EXCEPT !.enlarge_threshold = e, !.shrink_threshold = h, !.consider_shrink = FALSE]
          = [s EXCEPT !.consider_shrink = FALSE]
    BY <2>2 DEF Settings
  <2>. QED
    BY <2>1, <2>3, <2>4 DEF s
<1>. QED
  BY <1>1, <1>2, <1>3, <1>4, <1>5, <1>6

\* The walk of LookupsCorrect.
LEMMA WalkEnds ==
  ASSUME NEW t, Sound(t)
  PROVE  LET walk[i \in 0 .. size(t)] == IF i = 0 THEN begin(t) ELSE next(t, walk[i - 1])
         IN  /\ walk[size(t)] = end(t)
             /\ {T!get_pos(t.table, walk[i]) : i \in 0 .. size(t) - 1} = LiveBuckets(t)
<1>. DEFINE Runs(f, n) ==
              f = [i \in 0 .. n |-> IF i = 0 THEN begin(t) ELSE next(t, f[i - 1])]
            Stuck == {n \in Nat : ~ \E f : Runs(f, n)}
<1>1. Stuck = {}
  <2>. SUFFICES ASSUME Stuck # {} PROVE FALSE
    OBVIOUS
  <2>1. PICK n \in Stuck : \A m \in Stuck : n <= m
    BY LeastNumber
  <2>2. n # 0
    <3>1. Runs([i \in 0 .. 0 |-> begin(t)], 0)
      OBVIOUS
    <3>. QED
      BY <3>1
  <2>3. PICK f : Runs(f, n - 1)
    <3>1. n \in Nat
      OBVIOUS
    <3>2. n - 1 \in Nat /\ ~ (n <= n - 1)
      BY <2>2, <3>1
    <3>3. n - 1 \notin Stuck
      BY <2>1, <3>2
    <3>. QED
      BY <3>2, <3>3
  <2>. DEFINE g == [i \in 0 .. n |-> IF i = n THEN next(t, f[n - 1]) ELSE f[i]]
  <2>4. ASSUME NEW i \in 0 .. n
        PROVE  g[i] = IF i = 0 THEN begin(t) ELSE next(t, g[i - 1])
    <3>. n \in Nat
      OBVIOUS
    <3>1. CASE i = n
      BY <2>2, <3>1
    <3>2. CASE i # n
      <4>1. i \in 0 .. n - 1
        BY <3>2
      <4>2. f[i] = IF i = 0 THEN begin(t) ELSE next(t, f[i - 1])
        BY <2>3, <4>1
      <4>3. g[i] = f[i] /\ (i # 0 => g[i - 1] = f[i - 1])
        BY <4>1
      <4>. QED
        BY <4>2, <4>3
    <3>. QED
      BY <3>1, <3>2
  <2>5. Runs(g, n)
    BY <2>4, Zenon
  <2>. QED
    BY <2>5
<1>2. size(t) \in Nat
  BY SoundFields
<1>3. PICK f : Runs(f, size(t))
  BY <1>1, <1>2
<1>. DEFINE walk[i \in 0 .. size(t)] == IF i = 0 THEN begin(t) ELSE next(t, walk[i - 1])
<1>4. walk = [i \in 0 .. size(t) |-> IF i = 0 THEN begin(t) ELSE next(t, walk[i - 1])]
  BY <1>3, Zenon DEF walk
<1>5. SUFFICES /\ walk[size(t)] = end(t)
               /\ {T!get_pos(t.table, walk[i]) : i \in 0 .. size(t) - 1} = LiveBuckets(t)
  OBVIOUS
<1>. HIDE DEF walk
<1>6. \A i \in 0 .. size(t) : walk[i] = IF i = 0 THEN begin(t) ELSE next(t, walk[i - 1])
  BY <1>4, Zenon
<1>7. 0 \in 0 .. size(t) /\ \A i \in 1 .. size(t) : i \in 0 .. size(t) /\ i # 0
  BY <1>2
<1>8. walk[0] = begin(t) /\ \A i \in 1 .. size(t) : walk[i] = next(t, walk[i - 1])
  BY <1>6, <1>7, Zenon
<1>. QED
  BY <1>8, WalkMeetsAll

-----------------------------------------------------------------------------
(* The theorems.                                                           *)

\* The invariant is kept by every step.
LEMMA InvariantHolds == Spec => []IInv
<1>1. Init => IInv
  BY InitInv
<1>2. IInv /\ [Next]_vars => IInv'
  BY NextImplements
<1>. QED
  BY <1>1, <1>2, PTL DEF Spec

\* A table that is not being moved is sound, in a call or not.
LEMMA SoundUnlessMoved ==
  ASSUME IInv, NEW o \in Obj \ {moving.obj}
  PROVE  TableOK(ht[o])
BY DEF IInv, AllOK, InMove

\* The sparsetable counts its assigned elements, num_deleted the deleted ones,
\* and the thresholds are those of the present size and factors, in every table
\* that is not being moved away, after any sequence of calls (sparsehashtable.h
\* 1228 and 1236, sparsetable 1803).
THEOREM CountersStayExact == Spec => []CountersExact
<1>1. IInv => CountersExact
  BY SoundUnlessMoved, CountersHold DEF CountersExact, TableOK
<1>. QED
  BY <1>1, InvariantHolds, PTL

\* Under load factors of less than 100%, every lookup of every key finds what
\* is there, every search ends, and an iteration meets each live object once,
\* past groups of deleted and of no objects, for every hash function and group
\* size, while another object is moved too.
THEOREM LookupsStayCorrect ==
  ASSUME FactorsLeaveRoom
  PROVE  Spec => []LookupsCorrect
<1>1. IInv => LookupsCorrect
  <2>. SUFFICES ASSUME IInv, NEW o \in Obj \ {moving.obj}
                PROVE  LET t       == ht[o]
                           live    == LiveBuckets(t)
                           walk[i \in 0 .. size(t)] ==
                             IF i = 0 THEN begin(t) ELSE next(t, walk[i - 1])
                           found(k) == IF find(t, k) = end(t) THEN {}
                                       ELSE {T!get_pos(t.table, find(t, k))}
                       IN  /\ \A k \in Key :
                                /\ found(k) = {i \in live : object(t, i).key = k}
                                /\ count(t, k) = Cardinality(found(k))
                                /\ bucket(t, k) \in Buckets(t)
                                /\ equal_range(t, k)[1] = find(t, k)
                                /\ found(k) # {} =>
                                     equal_range(t, k)[2] = next(t, find(t, k))
                           /\ walk[size(t)] = end(t)
                           /\ {T!get_pos(t.table, walk[i]) : i \in 0 .. size(t) - 1} = live
    BY DEF LookupsCorrect
  <2>. DEFINE t == ht[o]
  <2>1. Sound(t) /\ Spare(t, 0)
    BY SoundUnlessMoved DEF TableOK
  <2>2. num_nonempty(t) < bucket_count(t)
    <3>1. num_nonempty(t) + 0 = num_nonempty(t)
      BY <2>1, SoundFields
    <3>. QED
      BY <2>1, <3>1 DEF Spare
  <2>. QED
    BY <2>1, <2>2, LookupsAgree, WalkEnds
<1>. QED
  BY <1>1, InvariantHolds, PTL

\* While a table is moved, every group behind the iterator is freed, what is in
\* both tables is in the iterator's group and behind it, and the new table never
\* fills up (sparsehashtable.h 690-715).
THEOREM MovesFreeBehind == Spec => []MoveFreesBehind
<1>1. IInv => MoveFreesBehind
  <2>. SUFFICES ASSUME IInv, moving # NoMove PROVE MoveFreesBehind
    BY DEF MoveFreesBehind
  <2>1. PICK src, n : InMove(ht, moving, src, n)
    BY DEF IInv
  <2>2. Sound(src) /\ Underway(TheMove, src, n, TRUE)
    BY <2>1 DEF InMove, TheMove
  <2>3. TheMove.from = ht[moving.obj] /\ TheMove.to = moving.to /\ TheMove.it = moving.it
    BY DEF TheMove, Loop
  <2>. DEFINE l == TheMove
  <2>4. Underway(l, src, n, TRUE)
    BY <2>2
  <2>. HIDE DEF l
  <2>5. LET keys  == {object(l.to, i).key : i \in LiveBuckets(l.to)}
            twice == {i \in LiveBuckets(l.from) : object(l.from, i).key \in keys}
        IN  /\ \A g \in 1 .. Len(l.from.table.groups) :
                 g < l.it.row => l.from.table.groups[g] = T!new_group
            /\ \A i \in twice : T!get_iter(l.from.table, i).row = l.it.row
            /\ \A i \in LiveBuckets(l.from) :
                 i \in twice <=> /\ T!get_iter(l.from.table, i).row = l.it.row
                                 /\ T!get_iter(l.from.table, i).col < l.it.col
            /\ size(l.to) < bucket_count(l.to)
    BY <2>2, <2>4, TwiceBehind
  <2>6. l.from = ht[moving.obj] /\ l.to = moving.to /\ l.it = moving.it
    BY <2>3 DEF l
  <2>. QED
    BY <2>5, <2>6 DEF MoveFreesBehind
<1>. QED
  BY <1>1, InvariantHolds, PTL

\* sparse_hash_map is a map: every sequence of calls, with any keys, hash
\* function, group size, load factors and limits, answers as the abstract map
\* does and changes what is in the objects as it does; and while a table is
\* moved, object by object, freed behind the iterator, its map does not change.
THEOREM SparseHashMapIsAMap == Spec => ImplementsHashMap
<1>1. Init => Map!Init
  BY InitInv
<1>2. IInv /\ [Next]_vars => [Map!Next]_(Map!vars)
  BY NextImplements
<1>. QED
  BY <1>1, <1>2, InvariantHolds, PTL DEF Spec, ImplementsHashMap, Map!Spec

=============================================================================
