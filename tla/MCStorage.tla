------------------------------ MODULE MCStorage ------------------------------
(***************************************************************************)
(* The memory of two sparse groups, or of two dense tables, for TLC, with  *)
(* value types of every kind the tables treat differently.                 *)
(***************************************************************************)
EXTENDS Storage

CONSTANTS Group, Object, GROUP_SIZE, BucketCounts

VARIABLES
  container,  \* which of the two
  mem,
  g, cut,     \* of the groups
  ht, over    \* of the tables

vars == <<container, mem, g, cut, ht, over>>

Groups == INSTANCE GroupStorage
Tables == INSTANCE DenseStorage

Init ==
  \/ container = "sparsegroup" /\ Groups!Init /\ ht = <<>> /\ over = FALSE
  \/ container = "dense_hashtable" /\ Tables!Init /\ g = <<>> /\ cut = FALSE

Next ==
  /\ UNCHANGED container
  /\ \/ container = "sparsegroup" /\ Groups!Next /\ UNCHANGED <<ht, over>>
     \/ container = "dense_hashtable" /\ Tables!Next /\ UNCHANGED <<g, cut>>

Spec == Init /\ [][Next]_vars

-----------------------------------------------------------------------------

\* Every object is constructed once and destroyed once, none is moved by its
\* bytes that may not be, no block is freed twice or with objects left in it,
\* and realloc is asked of no allocator that has none, by whichever container
\* and for every value type, whatever its traits say of it: but for what the
\* modules of the two name.
LifetimesRespected ==
  IF container = "sparsegroup" THEN Groups!LifetimesRespected
                               ELSE Tables!LifetimesRespected

\* Nothing leaks, dangles or is shared: the blocks in use are the arrays of the
\* groups, filled with their elements, or of the tables, filled with buckets.
ArraysOwned ==
  IF container = "sparsegroup" THEN Groups!ArraysOwned ELSE Tables!EveryBucketBuilt

-----------------------------------------------------------------------------
(* The value types.                                                        *)

CONSTANTS g1, g2, t1, t2

MCGroup   == {g1, g2}
MCObject  == {t1, t2}
MCAddress == 1 .. 3
Symmetry  == Permutations(MCGroup) \cup Permutations(MCObject)

Basic(form)    == [form |-> form, cv |-> {}, of |-> <<>>]
Const(T)       == [T EXCEPT !.cv = @ \cup {"const"}]
Volatile(T)    == [T EXCEPT !.cv = @ \cup {"volatile"}]
Of(form, Ts)   == [form |-> form, cv |-> {}, of |-> Ts]
PairOf(T, U)   == Of("pair", <<T, U>>)

\* What maps store and what sets may, with all it is made of.
MCTypes ==
  LET key    == Const(Basic("int"))
      string == Basic("class")
      keys   == Of("array", <<key>>)
  IN  {key, string, keys, Basic("enum"), Basic("number"), PairOf(key, keys),
       PairOf(key, string), Volatile(PairOf(key, key))}

=============================================================================
