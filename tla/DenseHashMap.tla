----------------------------- MODULE DenseHashMap -----------------------------
(***************************************************************************)
(* A program that uses dense_hash_map objects: each action is one call of  *)
(* the class's interface (sparsehash/dense_hash_map), whose work is done   *)
(* by the table of module DenseHashtable.  The guards are what the class   *)
(* asks of its client, as its assertions and its documentation state it;   *)
(* keys, values and arguments are free otherwise.                          *)
(***************************************************************************)
EXTENDS DenseHashtable

CONSTANTS
  Obj,          \* the objects of the program
  Items,        \* the items it inserts
  Ranges,       \* the sequences of items it inserts in one call
  EmptyKeys,    \* the keys it passes to set_empty_key
  DeletedKeys,  \* ... to set_deleted_key
  Expected,     \* ... to the constructor: how many items to expect
  Requests,     \* ... to resize
  Factors,      \* ... to set_resizing_parameters: <<shrink, grow>>
  MISSING       \* no value, for the abstract map

ASSUME ClientAssumption ==
  /\ Items \subseteq [key : Key, val : Val]
  /\ Ranges \subseteq Seq([key : Key, val : Val])
  /\ EmptyKeys \subseteq Key /\ DeletedKeys \subseteq Key
  /\ Expected \subseteq 0 .. SizeMax /\ Requests \subseteq 0 .. SizeMax
  /\ Factors \subseteq Percent \X Percent
  /\ MISSING \notin Val

\* Under no load factor in use is size_type too small for a table of MaxSize
\* objects (of 2^64 - 1 bytes, those of 16 bytes are at most an eighth of the
\* 2^63 buckets): only an insertion or an explicit request can overflow it.
ASSUME RoomAssumption ==
  \A grow \in {HT_OCCUPANCY_PCT} \cup {f[2] : f \in Factors} :
    \E n \in BucketCounts : MaxSize < (n * grow) \div 100

VARIABLES
  ht,  \* ht[o] is the table of object o
  ret  \* the last call and its answer, see HashMap

vars == <<ht, ret>>

Init ==
  /\ ht = [o \in Obj |-> new_table(0)]
  /\ ret = <<"none">>

-----------------------------------------------------------------------------
(* What a key may be used for.                                             *)

\* "Inserting the empty key", "Inserting the deleted key" and their like.
Ordinary(t, k) ==
  /\ t.settings.use_empty => k # t.emptykey
  /\ t.settings.use_deleted => k # t.delkey

\* Nothing may be inserted before set_empty_key.
Insertable(t, k) == t.settings.use_empty /\ Ordinary(t, k)

-----------------------------------------------------------------------------
(* Calls that change what is in a map.                                     *)

\* Object o is left as the outcome says, and the answer is what it says.  A
\* call whose search meets neither its key nor an empty bucket fails an
\* assertion: the program gets no answer and takes no other step.
Answer(o, call, r) ==
  /\ r.res # "table_full"
  /\ ht' = [ht EXCEPT ![o] = r.ht]
  /\ ret' = Append(call, r.res)

Insert(o, obj) ==
  /\ Insertable(ht[o], obj.key)
  /\ Answer(o, <<"insert", o, obj.key>>, insert(ht[o], obj))

InsertRange(o, objs) ==
  /\ \A i \in DOMAIN objs : Insertable(ht[o], objs[i].key)
  /\ Answer(o, <<"insert_range", o>>, insert_range(ht[o], objs))

\* operator[] returned a reference to the object of key k, and the assignment
\* in o[k] = v goes through it; the answer is the value it referred to before.
AssignThrough(r, k, v) ==
  LET pos == CHOOSE i \in LiveBuckets(r.ht) : r.ht.table[i].key = k
  IN  [ht |-> [r.ht EXCEPT !.table[pos].val = v], res |-> r.ht.table[pos].val]

Subscript(o, k, v) ==
  LET through(r) == IF r.res \in {"inserted", "present"} THEN AssignThrough(r, k, v) ELSE r
  IN  /\ Insertable(ht[o], k)
      /\ Answer(o, <<"subscript", o, k>>, through(find_or_insert(ht[o], k)))

Erase(o, k) ==
  /\ ht[o].settings.use_deleted /\ Ordinary(ht[o], k)
  /\ Answer(o, <<"erase", o, k>>, erase(ht[o], k))

\* erase(it): it points to a live object, or to one erased through another
\* iterator, which is deleted only once.
EraseAt(o, pos) ==
  /\ ht[o].settings.use_deleted
  /\ pos \in LiveBuckets(ht[o]) \/ test_deleted(ht[o], pos)
  /\ ht' = [ht EXCEPT ![o] = erase_at(@, pos)]
  /\ ret' = <<"erase_range", o, IF pos \in LiveBuckets(ht[o])
                                THEN {ht[o].table[pos].key} ELSE {}, "ok">>

\* erase(f, l): f and l point to live objects, or l is end().
EraseRange(o, f, l) ==
  /\ ht[o].settings.use_deleted
  /\ f \in LiveBuckets(ht[o]) /\ f < l
  /\ l \in LiveBuckets(ht[o]) \cup {ht[o].num_buckets}
  /\ ht' = [ht EXCEPT ![o] = erase_range(@, f, l)]
  /\ ret' = <<"erase_range", o,
              {ht[o].table[i].key : i \in {j \in LiveBuckets(ht[o]) : f <= j /\ j < l}},
              "ok">>

Clear(o) ==
  /\ ht[o].settings.use_empty
  /\ ht' = [ht EXCEPT ![o] = clear(@)]
  /\ ret' = <<"clear", o>>

ClearNoResize(o) ==
  /\ ht[o].settings.use_empty
  /\ ht' = [ht EXCEPT ![o] = clear_no_resize(@)]
  /\ ret' = <<"clear", o>>

\* o is destroyed and constructed again, told to expect n items.
Construct(o, n) ==
  /\ n > 0 => ~min_buckets_overflows(new_table(0).settings, n, 0)
  /\ ht' = [ht EXCEPT ![o] = new_table(n)]
  /\ ret' = <<"clear", o>>

-----------------------------------------------------------------------------
(* Calls that deal with two objects.                                       *)

Swap(o, p) ==
  /\ ht' = [ht EXCEPT ![o] = swapped(ht[p]), ![p] = swapped(ht[o])]
  /\ ret' = <<"swap", o, p>>

\* operator=; an object assigned to itself is left alone.
Assign(o, p) ==
  /\ ht' = [ht EXCEPT ![o] = IF o = p THEN @ ELSE assign(@, ht[p])]
  /\ ret' = <<"copy", o, p>>

\* o is destroyed and constructed again, as a copy of p.
CopyConstruct(o, p) ==
  /\ o # p
  /\ ht' = [ht EXCEPT ![o] = copy_of(ht[p], HT_DEFAULT_STARTING_BUCKETS)]
  /\ ret' = <<"copy", o, p>>

-----------------------------------------------------------------------------
(* Housekeeping: no object comes or goes.                                  *)

Housekeep(o, t) == Answer(o, <<"housekeep", o>>, Outcome(t, "ok"))

SetEmptyKey(o, k) ==
  /\ ~ht[o].settings.use_empty
  /\ ht[o].settings.use_deleted => k # ht[o].delkey
  /\ Housekeep(o, set_empty_key(ht[o], k))

\* The key may have been in use as an ordinary one, but no object has it now.
SetDeletedKey(o, k) ==
  /\ ht[o].settings.use_empty => k # ht[o].emptykey
  /\ k \notin Keys(ht[o])
  /\ Housekeep(o, set_deleted_key(ht[o], k))

ClearDeletedKey(o) ==
  Housekeep(o, clear_deleted_key(ht[o]))

Resize(o, n) == Answer(o, <<"resize", o>>, resize(ht[o], n))

SetResizingParameters(o, shrink, grow) ==
  Housekeep(o, change_resizing_parameters(ht[o], shrink, grow))

MaxLoadFactor(o, grow) ==
  SetResizingParameters(o, ht[o].settings.shrink_factor, grow)

MinLoadFactor(o, shrink) ==
  SetResizingParameters(o, shrink, ht[o].settings.enlarge_factor)

Next ==
  \E o \in Obj :
    \/ \E obj \in Items : Insert(o, obj)
    \/ \E obj \in Items : Subscript(o, obj.key, obj.val)
    \/ \E objs \in Ranges : InsertRange(o, objs)
    \/ \E k \in Key : Erase(o, k)
    \/ \E pos \in Buckets(ht[o]) : EraseAt(o, pos)
    \/ \E f, l \in 0 .. ht[o].num_buckets : EraseRange(o, f, l)
    \/ Clear(o)
    \/ ClearNoResize(o)
    \/ \E p \in Obj : Swap(o, p)
    \/ \E p \in Obj : Assign(o, p)
    \/ \E p \in Obj : CopyConstruct(o, p)
    \/ \E n \in Expected : Construct(o, n)
    \/ \E k \in EmptyKeys : SetEmptyKey(o, k)
    \/ \E k \in DeletedKeys : SetDeletedKey(o, k)
    \/ ClearDeletedKey(o)
    \/ \E n \in Requests : Resize(o, n)
    \/ \E f \in Factors : SetResizingParameters(o, f[1], f[2])
    \/ \E f \in Factors : MinLoadFactor(o, f[1])
    \/ \E f \in Factors : MaxLoadFactor(o, f[2])

Spec == Init /\ [][Next]_vars

-----------------------------------------------------------------------------
(* Invariants.                                                             *)

TypeOK == DOMAIN ht = Obj /\ \A o \in Obj : IsTable(ht[o])

\* The counters count: num_elements the buckets in use, num_deleted those of
\* them that are deleted, which there are only while there is a deleted key
\* (the invariant test_deleted asserts, densehashtable.h 413-414).
CountersExact ==
  \A o \in Obj :
    LET t == ht[o]
    IN  IF t.settings.use_empty
        THEN /\ t.num_elements = Cardinality({i \in Buckets(t) : ~test_empty(t, i)})
             /\ t.num_deleted =
                  IF t.settings.use_deleted
                  THEN Cardinality({i \in Buckets(t) : t.table[i].key = t.delkey})
                  ELSE 0
        ELSE t.table = NULL /\ t.num_elements = 0 /\ t.num_deleted = 0

\* Every lookup of any key, reserved ones too, finds the one bucket that holds
\* it, or nothing: no deletion, reuse of a deleted bucket, rehash or exchange
\* of tables cuts a key off from its probe sequence or leaves two of it.
LookupsCorrect ==
  \A o \in Obj, k \in Key :
    LET t      == ht[o]
        places == {i \in LiveBuckets(t) : t.table[i].key = k}
    IN  /\ IF places = {} THEN find(t, k) = ILLEGAL_BUCKET
                          ELSE places = {find(t, k)}
        /\ t.settings.use_empty => count(t, k) = Cardinality(places)
        /\ t.settings.use_empty => bucket(t, k) \in Buckets(t)

\* The buckets, taken for tables of one bucket each with iterators of their own,
\* have as many objects as the table, and the bucket a key is said to be in has
\* one if and only if the key is there: never a deleted one.
BucketsAddUp ==
  \A o \in Obj :
    LET t == ht[o]
    IN  t.settings.use_empty =>
          /\ Cardinality({i \in Buckets(t) : bucket_size(t, i) = 1}) = size(t)
          /\ \A k \in Key : Insertable(t, k) =>
                              bucket_size(t, bucket(t, k)) = count(t, k)

\* Every search for an ordinary key ends, at the key or at an empty bucket: the
\* assertion "Hashtable is full: an error in key_equal<> or hash<>" of
\* find_position (densehashtable.h 851) never fails.
SearchesEnd ==
  \A o \in Obj, k \in Key :
    Insertable(ht[o], k) => ~search_fails(find_position(ht[o], k))

\* The thresholds, which every resizing decision reads, are those of the
\* present size and load factors, and the factors are apart enough.
ThresholdsInSync == \A o \in Obj : in_sync(ht[o])

\* resize(0) compacts a table as far as it ever will: a table above the
\* default size ends with at least its shrink threshold of objects, in one
\* call, with nothing lost and never more buckets than it had.
CompactionEnds ==
  \A o \in Obj :
    LET t == resize(ht[o], 0).ht
    IN  /\ t.num_buckets <= ht[o].num_buckets
        /\ \/ t.num_buckets <= HT_DEFAULT_STARTING_BUCKETS
           \/ size(t) >= t.settings.shrink_threshold
        /\ size(t) = size(ht[o])

\* What resize(n) left is room for n objects without another growth, unless it
\* threw, or a load factor lowered since has left too little for those in use.
HasRoom(r, n) ==
  \/ r.res = "length_error"
  \/ n <= r.ht.settings.enlarge_threshold
  \/ n <= r.ht.num_elements

\* resize(n) of a table with no deleted buckets makes room for n objects,
\* whatever it shrank on the way.
ResizeMakesRoom ==
  \A o \in Obj, n \in Requests :
    ht[o].num_deleted = 0 => HasRoom(resize(ht[o], n), n)

\* Two maps are equal exactly when they hold the same items, whatever their
\* capacities, their histories and their reserved keys.
EqualityIsExtensional ==
  \A o, p \in Obj :
    LET content(t) == {t.table[i] : i \in LiveBuckets(t)}
    IN  tables_equal(ht[o], ht[p]) <=> content(ht[o]) = content(ht[p])

-----------------------------------------------------------------------------
(* Action properties.                                                      *)

\* Erasing never moves, changes or copies another object and never resizes:
\* the iterators to every other object stay valid, and no new place becomes
\* live ("erase() is guaranteed not to invalidate any iterators",
\* doc/dense_hash_map.html 1727).
EraseKeepsIterators ==
  [][ret'[1] \in {"erase", "erase_range"} =>
       \A o \in Obj :
         /\ ht'[o].num_buckets = ht[o].num_buckets
         /\ LiveBuckets(ht'[o]) \subseteq LiveBuckets(ht[o])
         /\ \A i \in LiveBuckets(ht'[o]) : ht'[o].table[i] = ht[o].table[i]]_vars

\* The step is an insertion into o that did not throw.
Inserting(o) == /\ ret'[1] \in {"insert", "subscript"} /\ ret'[2] = o
                /\ ret'[4] # "length_error"

\* insert(), and operator[] of a key that was not there, leave the load, deleted
\* buckets included, within the grow factor, even one lowered since the last
\* insertion.
InsertionBoundsLoad ==
  [][\A o \in Obj : Inserting(o) /\ (ret'[1] = "insert" \/ ret'[3] \notin Keys(ht[o])) =>
       ht'[o].num_elements <= ht'[o].settings.enlarge_threshold]_vars

\* An insertion of a new key that grows the table does not leave it so empty
\* that the next erasure and insertion would shrink it again: "otherwise we
\* thrash hashtable size".  (Inserting a key that is there may: room was made
\* for one more object.)
NoThrashing ==
  [][\A o \in Obj :
       Inserting(o) /\ ret'[4] # "present" /\ ht'[o].num_buckets > ht[o].num_buckets =>
         size(ht'[o]) >= ht'[o].settings.shrink_threshold]_vars

\* "Setting the minimum load factor to 0.0 guarantees that the hash table will
\* never shrink" (sparsehash/dense_hash_map 74): not on account of insertions,
\* erasures or requests to resize.  (clear, assignment and a change of the
\* deleted key do make it smaller.)
NeverShrinksAtZero ==
  [][\A o \in Obj :
       /\ ret'[1] \in {"insert", "insert_range", "subscript", "erase", "erase_range",
                       "resize"}
       /\ ht[o].settings.shrink_factor = 0
       => ht'[o].num_buckets >= ht[o].num_buckets]_vars

-----------------------------------------------------------------------------
(* Refinement.                                                             *)

Contents(t) ==
  [k \in Key |->
     LET places == {i \in LiveBuckets(t) : t.table[i].key = k}
     IN  IF places = {} THEN MISSING ELSE t.table[CHOOSE i \in places : TRUE].val]

Map == INSTANCE HashMap WITH map <- [o \in Obj |-> Contents(ht[o])]

\* Every call changes the maps as a map's call does and answers the same.
ImplementsHashMap == Map!Spec

=============================================================================
