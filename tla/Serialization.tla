---------------------------- MODULE Serialization ----------------------------
(***************************************************************************)
(* A program that saves a hash map to a file and loads it again: a table   *)
(* of either kind, dense or sparse, and one file.  The file may run full   *)
(* in the middle of a save, and then holds a first part of it; a load may  *)
(* meet such a file, or one that a table of the other kind wrote; and a    *)
(* load that failed may be tried again with a better file.                 *)
(*                                                                         *)
(* The tables are those of modules DenseHashtable and SparseHashtable.     *)
(* Client and library agree on the hash function and on the reserved keys, *)
(* as the library asks: "you have to make sure everything but the table is *)
(* the same" (densehashtable.h 1089).                                      *)
(***************************************************************************)
EXTENDS Integers, Sequences, FiniteSets

CONSTANTS
  SizeMax, HT_MIN_BUCKETS, HT_DEFAULT_STARTING_BUCKETS,
  Key, DefaultKey, Val, DefaultVal, Hash, MaxSize, NULL,
  GROUP_SIZE, CHAR_BIT, UNINITIALIZED, BYTE, SHORT, INT, LONG,
  EmptyKey, DeletedKey,  \* the reserved keys
  Items,                 \* the items it inserts
  Expected,              \* how many items it tells a new table to expect
  MaxFile                \* more tokens than any file has

D == INSTANCE DenseSerialization
S == INSTANCE SparseHashtable

ASSUME ClientAssumption ==
  /\ {EmptyKey, DeletedKey} \subseteq Key
  /\ \A obj \in Items : obj.val \in Val /\ obj.key \in Key \ {EmptyKey, DeletedKey}

VARIABLES
  kind,   \* of the table, dense or sparse
  tab,    \* the table
  left,   \* by what: "calls", or a load that failed, "unserialize" or "read_metadata"
  file,   \* what is in the file
  saved,  \* what was to be in it: the kind and objects of the table, and whether it all is
  ret     \* the last call and its answer

vars == <<kind, tab, left, file, saved, ret>>

Kinds == {"dense", "sparse"}

\* A new table, its reserved keys set.
fresh(k, n) ==
  IF k = "dense"
  THEN D!set_deleted_key(D!set_empty_key(D!new_table(n), EmptyKey), DeletedKey)
  ELSE S!set_deleted_key(S!new_table(n), DeletedKey)

Objects(k, t) ==
  IF k = "dense" THEN {t.table[i] : i \in D!LiveBuckets(t)}
                 ELSE {S!object(t, i) : i \in S!LiveBuckets(t)}

Init ==
  /\ kind \in Kinds
  /\ tab = fresh(kind, 0)
  /\ left = "calls"
  /\ file = <<>>
  /\ saved = [kind |-> kind, objects |-> {}, whole |-> FALSE]
  /\ ret = <<"none">>

Dense  == kind = "dense"
Sparse == kind = "sparse"

-----------------------------------------------------------------------------

\* The table is destroyed, and another one constructed.
Construct(k, n) ==
  /\ kind' = k
  /\ tab' = fresh(k, n)
  /\ left' = "calls"
  /\ ret' = <<"construct">>
  /\ UNCHANGED <<file, saved>>

\* A call that needs a table in order.
Call(t, name) ==
  /\ left = "calls"
  /\ tab' = t
  /\ ret' = <<name>>
  /\ UNCHANGED <<kind, left, file, saved>>

Insert(obj) ==
  Call(IF Dense THEN D!insert(tab, obj).ht ELSE S!insert(tab, obj).ht, "insert")

Erase(k) ==
  /\ k \notin {EmptyKey, DeletedKey}
  /\ Call(IF Dense THEN D!erase(tab, k).ht ELSE S!erase(tab, k).ht, "erase")

\* clear() gets a table back in order that an unserialize left half read.
cleared(t) == IF Dense THEN D!clear(t) ELSE S!clear(t)

\* Except that of a sparsetable whose size was read, and not the groups for it.
Clearable ==
  /\ left # "read_metadata"
  /\ Sparse => Len(tab.table.groups) = S!T!num_groups(S!bucket_count(tab))

Clear ==
  /\ Clearable
  /\ tab' = cleared(tab)
  /\ left' = "calls"
  /\ ret' = <<"clear">>
  /\ UNCHANGED <<kind, file, saved>>

-----------------------------------------------------------------------------
(* Saving and loading.                                                     *)

\* A file with room for n tokens.  Whether all was written is the answer; the
\* table has lost its deleted buckets either way.
Written(tokens, n) ==
  /\ n <= Len(tokens) \/ n = MaxFile
  /\ file' = SubSeq(tokens, 1, IF n <= Len(tokens) THEN n ELSE Len(tokens))
  /\ saved' = [kind |-> kind, objects |-> Objects(kind, tab), whole |-> n >= Len(tokens)]
  /\ ret' = <<"save", n >= Len(tokens)>>

Save(n) ==
  /\ left = "calls"
  /\ Written(IF Dense THEN D!serialize(tab) ELSE S!serialize(tab), n)
  /\ tab' = IF Dense THEN D!squash_deleted(tab) ELSE S!squash_deleted(tab)
  /\ UNCHANGED <<kind, left>>

Loaded(r, how) ==
  /\ tab' = r.t
  /\ left' = IF r.ok THEN "calls" ELSE how
  /\ ret' = <<"load", r.ok>>
  /\ UNCHANGED <<kind, file, saved>>

Load == Loaded(IF Dense THEN D!unserialize(tab, file) ELSE S!unserialize(tab, file),
               "unserialize")

\* The deprecated calls, one for the groups and one for the objects.
ReadObjects(meta) == IF meta.ok THEN S!read_nopointer_data(meta.t, meta.rest) ELSE meta

LoadInParts ==
  /\ Sparse
  /\ Loaded(ReadObjects(S!read_metadata(tab, file)), "read_metadata")

Next ==
  \/ \E k \in Kinds, n \in Expected : Construct(k, n)
  \/ \E obj \in Items : Insert(obj)
  \/ \E k \in Key : Erase(k)
  \/ Clear
  \/ \E n \in 0 .. MaxFile : Save(n)
  \/ Load
  \/ LoadInParts

Spec == Init /\ [][Next]_vars

-----------------------------------------------------------------------------

\* The counters count, every object is found where lookups look for it, and
\* nothing else is.
InOrder(k, t) ==
  LET live == IF k = "dense" THEN D!LiveBuckets(t) ELSE S!LiveBuckets(t)
      used == {i \in IF k = "dense" THEN D!Buckets(t) ELSE S!Buckets(t) :
                 IF k = "dense" THEN ~D!test_empty(t, i) ELSE ~S!test_empty(t, i)}
      found(key) == IF k = "dense" THEN D!find_position(t, key).first
                                   ELSE S!find_position(t, key).first
      here(key) == {i \in live : (IF k = "dense" THEN t.table[i] ELSE S!object(t, i)).key = key}
  IN  /\ IF k = "dense" THEN t.num_elements = Cardinality(used)
                        ELSE /\ S!num_nonempty(t) = Cardinality(used)
                             /\ Len(t.table.groups) = S!T!num_groups(S!bucket_count(t))
                             /\ t = S!thresholds_of(t) \/ t.settings.consider_shrink
      /\ t.num_deleted = Cardinality(used) - Cardinality(live)
      /\ \A key \in Key \ {EmptyKey} : IF here(key) = {} THEN found(key) = S!ILLEGAL_BUCKET
                                                         ELSE here(key) = {found(key)}

\* A table that was loaded is as good as one filled by insertions: its counters
\* count and every object is where lookups look for it, then and after more
\* insertions and erasures.
LoadedInOrder == left = "calls" => InOrder(kind, tab)

\* A load succeeds with all of what a table of its kind saved, even if tried
\* before in vain, and leaves just those objects; and with less of it, ending
\* wherever it may, or with another kind's, it says so.  Saving itself loses
\* no object.
LoadsWhatWasSaved ==
  [][/\ ret'[1] = "load" =>
          /\ ret'[2] <=> saved.whole /\ saved.kind = kind
          /\ ret'[2] => Objects(kind, tab') = saved.objects
     /\ ret'[1] = "save" => Objects(kind, tab') = Objects(kind, tab)]_vars

\* A load that failed leaves a table that clear() puts in order, empty, wherever
\* the stream ended ("just to be consistent", densehashtable.h 1150); a sparse
\* one, unless the stream ended after the size.
ClearRecovers ==
  Clearable => InOrder(kind, cleared(tab)) /\ Objects(kind, cleared(tab)) = {}

=============================================================================
