---------------------------- MODULE DenseStorage ----------------------------
(***************************************************************************)
(* The memory of dense_hashtable (internal/densehashtable.h): one array in *)
(* which every bucket holds an object at all times, a copy of emptyval if  *)
(* nothing else.  Objects go by destroying the one that is there and       *)
(* constructing the next (set_value), and a resize takes a new array.      *)
(*                                                                         *)
(* Only where objects live is modelled here; DenseHashtable has what they  *)
(* are, and when a table is resized and to which size.                     *)
(***************************************************************************)
EXTENDS Storage

CONSTANTS
  Object,       \* the table objects
  BucketCounts  \* the sizes they may have

VARIABLES
  ht,   \* the tables: the array, its size, the buckets with an object
  mem,  \* the memory they share
  over  \* an object was read into a bucket that had one

vars == <<ht, mem, over>>

\* The constructor: there is no array before set_empty_key.
new_table(n) == [table |-> NULL, num_buckets |-> n, objects |-> {}]

Buckets(t) == 0 .. t.num_buckets - 1

Table(m, t) == [mem |-> m, ht |-> t]

fill_range_with_empty(m, p, n) == construct(m, p, 0 .. n - 1)

destroy_buckets(m, t) == destroy(m, t.table, Buckets(t))

set_value(m, p, S) == construct(destroy(m, p, S), p, S)

\* The objects of a table go to buckets of their own in another array.
put_all(m, p, n, from, t) ==
  [S \in {T \in SUBSET (0 .. n - 1) : Cardinality(T) = Cardinality(t.objects)} |->
     set_value(copied(m, from, t.objects), p, S)]

\* Mutant: realloc although the allocator has none.
resize_table_rash(m, t, n) == realloc_or_die(m, t.table, n)

\* realloc for the library's own allocator, and else a block for a block.
resize_table(m, t, n) ==
  IF uses_libc(m) THEN realloc_or_die(m, t.table, n)
  ELSE allocate(deallocate(m, t.table), n)

resized_table(m, t, n) ==
  IF uses_libc(m) THEN reallocated(m, t.table, n) ELSE fresh(deallocate(m, t.table))

clear_to_size(m, t, n) ==
  LET emptied == destroy_buckets(m, t)
      p == IF t.table = NULL THEN fresh(m)
           ELSE IF n = t.num_buckets THEN t.table
           ELSE resized_table(emptied, t, n)
      r == IF t.table = NULL THEN allocate(m, n)
           ELSE IF n = t.num_buckets THEN emptied
           ELSE resize_table(emptied, t, n)
  IN  Table(fill_range_with_empty(r, p, n),
            [table |-> p, num_buckets |-> n, objects |-> {}])

\* Mutant: the array stays behind.
destructed_in_part(m, t) == IF t.table = NULL THEN m ELSE destroy_buckets(m, t)

\* ~dense_hashtable
destructed(m, t) ==
  IF t.table = NULL THEN m ELSE deallocate(destroy_buckets(m, t), t.table)

-----------------------------------------------------------------------------
(* The calls.                                                              *)

Init == \E type \in Types, alloc \in {"libc", "other"} :
          /\ type.form \notin {"void", "reference"}
          /\ mem = new_memory(type, alloc)
          /\ ht \in [Object -> {new_table(n) : n \in BucketCounts}]
          /\ over = FALSE

Does(o, r) == ht' = [ht EXCEPT ![o] = r.ht] /\ mem' = r.mem /\ UNCHANGED over

SetEmptyKey(o) ==
  LET t == ht[o]
      m == allocate(mem, t.num_buckets)
  IN  /\ t.table = NULL
      /\ Does(o, Table(fill_range_with_empty(m, fresh(mem), t.num_buckets),
                       [t EXCEPT !.table = fresh(mem)]))

\* insert_at, in an empty bucket or in a deleted one.
Insert(o) == \E b \in Buckets(ht[o]) \ ht[o].objects :
  /\ ht[o].table # NULL
  /\ Does(o, Table(set_value(mem, ht[o].table, {b}),
                   [ht[o] EXCEPT !.objects = @ \cup {b}]))

\* set_key assigns the deleted key to the object that is there.
Erase(o) == \E b \in ht[o].objects :
  Does(o, Table(copied(mem, ht[o].table, {b}), [ht[o] EXCEPT !.objects = @ \ {b}]))

Clear(o) == \E n \in BucketCounts :
  ht[o].table # NULL /\ Does(o, clear_to_size(mem, ht[o], n))

ClearNoResize(o) ==
  /\ ht[o].table # NULL
  /\ Does(o, Table(fill_range_with_empty(destroy_buckets(mem, ht[o]), ht[o].table,
                                         ht[o].num_buckets),
                   [ht[o] EXCEPT !.objects = {}]))

\* A table tmp(*this, n) swapped with this, and its destructor.
Resize(o) == \E n \in BucketCounts :
  LET t    == ht[o]
      tmp  == clear_to_size(mem, new_table(0), n)
      puts == put_all(tmp.mem, tmp.ht.table, n, t.table, t)
  IN  /\ t.table # NULL
      /\ \E S \in DOMAIN puts :
           Does(o, Table(destructed(puts[S], t), [tmp.ht EXCEPT !.objects = S]))

\* operator=, by way of an empty table if the other has no empty key.
Assign(o, p) == \E n \in BucketCounts :
  LET cleared == clear_to_size(mem, ht[o], n)
      puts    == put_all(cleared.mem, cleared.ht.table, n, ht[p].table, ht[p])
  IN  /\ o # p
      /\ IF ht[p].table = NULL
         THEN Does(o, Table(destructed(mem, ht[o]), new_table(n)))
         ELSE \E S \in DOMAIN puts :
                Does(o, Table(puts[S], [cleared.ht EXCEPT !.objects = S]))

Swap(o, p) ==
  /\ o # p
  /\ ht' = [ht EXCEPT ![o] = ht[p], ![p] = ht[o]]
  /\ UNCHANGED <<mem, over>>

\* The destructor, and a new table in its place.
Destruct(o) == \E n \in BucketCounts : Does(o, Table(destructed(mem, ht[o]), new_table(n)))

\* unserialize: the client's serializer constructs each object it can read in
\* the bucket it is handed; a stream may end after any of them.
Unserialize(o) == \E n \in BucketCounts :
  LET r == clear_to_size(mem, ht[o], n)
  IN  /\ ht[o].table # NULL
      /\ \E S \in SUBSET (0 .. n - 1) :
           /\ mem' = construct(r.mem, r.ht.table, S)
           /\ ht' = [ht EXCEPT ![o] = [r.ht EXCEPT !.objects = S]]
           /\ over' = (over \/ S # {})

Next == \E o \in Object :
          \/ SetEmptyKey(o) \/ Insert(o) \/ Erase(o) \/ Clear(o) \/ ClearNoResize(o)
          \/ Resize(o) \/ Destruct(o) \/ Unserialize(o)
          \/ \E p \in Object : Assign(o, p) \/ Swap(o, p)

Spec == Init /\ [][Next]_vars

-----------------------------------------------------------------------------
(* Properties.                                                             *)

(***************************************************************************)
(* Every object is constructed once and destroyed once, none is moved by   *)
(* its bytes, no array is freed twice or with objects in it, and realloc   *)
(* is asked of no allocator that has none.  The one exception: a           *)
(* serializer that uses placement new, as the documentation of the sparse  *)
(* map asks, constructs over the copy of emptyval that clear_to_size put   *)
(* in the bucket, which is then never destroyed.                           *)
(***************************************************************************)
LifetimesRespected ==
  /\ mem.faults # {} => over
  /\ mem.faults \subseteq {"built over another"}

(***************************************************************************)
(* The blocks in use are the tables' arrays, each of one table and as long *)
(* as it has buckets, and there is an object in every bucket, ready to be  *)
(* compared, assigned to or destroyed.                                     *)
(***************************************************************************)
EveryBucketBuilt ==
  LET owners == {o \in Object : ht[o].table # NULL}
  IN  /\ DOMAIN mem.blocks = {ht[o].table : o \in owners}
      /\ \A o, p \in owners : ht[o].table = ht[p].table => o = p
      /\ \A o \in owners : live(mem, ht[o].table) = Buckets(ht[o])
      /\ \A o \in owners : room(mem, ht[o].table) = Buckets(ht[o])

=============================================================================
