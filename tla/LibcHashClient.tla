---------------------------- MODULE LibcHashClient ----------------------------
(***************************************************************************)
(* A program that uses one hash table of experimental/libchash.c at a      *)
(* time, sparse or dense, and one file.  It does what the library asks of  *)
(* it: neither inserts nor deletes while it iterates, nor in a table that  *)
(* was loaded (libchash.c 85, 114), and asks for the last find only after  *)
(* a find.  A table without buckets, which HashDelete can make, is one it  *)
(* can do no more with: every function would leave the table's memory.     *)
(* It may load a table of short keys, though what it finds there depends   *)
(* on what was in the memory of the table.                                 *)
(***************************************************************************)
EXTENDS LibcHash

CONSTANTS
  Kinds,  \* of the builds, "Sparse" and "Dense"
  Data,   \* what it inserts, neither DELETED nor EMPTY
  Goals   \* what it passes to HashSetDeltaGoalSize

VARIABLES
  ht,
  walk,   \* the buckets an iteration has returned, NULL when none is under way
  last,   \* the key of the last find, NULL if it failed or another call came since
  loaded, \* whether the table was loaded, and not cleared since
  file,   \* what is in the file
  saved,  \* the table it was saved from: its contents, and how data were written
  ret     \* the last call and its answer

vars == <<ht, walk, last, loaded, file, saved, ret>>

\* What the program sees in a table: for each key, the word in the bucket, the
\* data.
ContentsOf(t, fp) ==
  LET at(k) == CHOOSE i \in DOMAIN Live(t) : TableItem(t, Live(t)[i]).key = k
  IN  [k \in {TableItem(t, bck).key : bck \in ToSet(Live(t))} |->
         LOAD_AND_RETURN(t, Live(t)[at(k)], fp).data]

Contents == ContentsOf(ht, file)

\* The same by the bytes of the keys, as KEY_PTR has them.
ContentsByBytes ==
  LET word(key) == CHOOSE x \in DOMAIN Contents : KEY_TRUNC(ht, x) = key
  IN  [key \in {KEY_TRUNC(ht, x) : x \in DOMAIN Contents} |-> Contents[word(key)]]

Lengths == {"short", "word", "pointer"}

Init ==
  /\ \E kind \in Kinds, cchKey \in Lengths, save \in {0, 1} :
       ht = AllocateHashTable(kind, cchKey, save)
  /\ walk = NULL
  /\ last = NULL
  /\ loaded = FALSE
  /\ file = <<>>
  /\ saved = [contents |-> <<>>, fBlocks |-> FALSE]
  /\ ret = <<"AllocateHashTable">>

Usable == ht.cBuckets # 0

\* The words that are passed for keys: of a short one, bytes behind it too.
Words == IF ht.cchKey = "short" THEN DOMAIN KeyTrunc ELSE Key

\* A call that leaves iteration and file alone.
Call(t, name, args, answer) ==
  /\ ht' = t
  /\ ret' = <<name, args, answer>>
  /\ UNCHANGED <<loaded, file, saved>>

\* A call that may move items.
Change(t, name, args, answer) ==
  /\ walk = NULL
  /\ ~loaded
  /\ last' = NULL
  /\ UNCHANGED walk
  /\ Call(t, name, args, answer)

\* An item is returned as the file has it.
AnsweredItem(r, name, args) ==
  Change(r.ht, name, args, LOAD_AND_RETURN(r.ht, r.item, file))

-----------------------------------------------------------------------------

\* FreeHashTable and AllocateHashTable: another table.
Reallocate(cchKey, save) ==
  /\ Usable
  /\ walk' = NULL
  /\ last' = NULL
  /\ loaded' = FALSE
  /\ ht' = AllocateHashTable(ht.kind, cchKey, save)
  /\ ret' = <<"ClearHashTable", <<>>, NULL>>
  /\ UNCHANGED <<file, saved>>

Clear ==
  /\ Usable
  /\ ~loaded
  /\ walk' = NULL
  /\ last' = NULL
  /\ Call(ClearHashTable(ht), "ClearHashTable", <<>>, NULL)

Found(r, key) ==
  /\ last' = IF r.item = NULL THEN NULL ELSE key
  /\ UNCHANGED walk
  /\ Call(r.ht, "HashFind", <<key>>, LOAD_AND_RETURN(r.ht, r.item, file))

FindKey(key) ==
  /\ Usable
  /\ Found(HashFind(ht, key), KEY_TRUNC(ht, key))

FindLast ==
  /\ Usable
  /\ ht.posLastFind # UNINITIALIZED
  /\ UNCHANGED <<walk, last>>
  /\ Call(ht, "HashFindLast", <<>>, LOAD_AND_RETURN(ht, HashFindLast(ht), file))

FindOrInsert(key, data) ==
  /\ Usable
  /\ AnsweredItem(HashFindOrInsert(ht, key, data), "HashFindOrInsert", <<KEY_TRUNC(ht, key), data>>)

InsertKey(key, data) ==
  /\ Usable
  /\ AnsweredItem(HashInsert(ht, key, data), "HashInsert", <<KEY_TRUNC(ht, key), data>>)

DeletedBy(r, name, key) == Change(r.ht, name, <<key>>, r.answer)

DeleteKey(key) ==
  /\ Usable
  /\ DeletedBy(HashDelete(ht, key), "HashDelete", KEY_TRUNC(ht, key))

DeleteLast ==
  /\ Usable
  /\ ht.posLastFind # UNINITIALIZED
  /\ DeletedBy(HashDeleteLast(ht), "HashDeleteLast", last)

SetDeltaGoalSize(delta) ==
  /\ Usable
  /\ ~loaded
  /\ UNCHANGED <<walk, last>>
  /\ Call(HashSetDeltaGoalSize(ht, delta), "HashSetDeltaGoalSize", <<delta>>, delta)

\* An iteration begins, and goes on until the library says it ended.
Walked(t, seen, name) ==
  /\ walk' = IF t.iter = NULL THEN NULL ELSE Append(seen, TableItem(t, t.iter).key)
  /\ UNCHANGED last
  /\ Call(t, name, <<seen>>, LOAD_AND_RETURN(t, t.iter, file))

FirstBucket ==
  /\ Usable
  /\ Walked(HashFirstBucket(ht), <<>>, "HashFirstBucket")

NextBucket ==
  /\ Usable
  /\ walk # NULL
  /\ Walked(HashNextBucket(ht), walk, "HashNextBucket")

\* Saving iterates, so no other iteration can go on; nor can data be saved that
\* are on disk.
Save(fBlocks) ==
  /\ Usable
  /\ ~ht.fpData
  /\ walk' = NULL
  /\ ht' = [ht EXCEPT !.iter = NULL]
  /\ file' = HashSave(ht, fBlocks)
  /\ saved' = [contents |-> ContentsByBytes, fBlocks |-> fBlocks]
  /\ ret' = <<"HashSave", <<>>, NULL>>
  /\ UNCHANGED <<last, loaded>>

Load(keysOnly, over) ==
  /\ Usable
  /\ file # <<>>
  /\ ht' = IF keysOnly THEN HashLoadKeys(ht.kind, file, saved.fBlocks, over)
                       ELSE HashLoad(ht.kind, file, saved.fBlocks, over)
  /\ walk' = NULL
  /\ last' = NULL
  /\ loaded' = TRUE
  /\ ret' = <<"HashLoad", <<>>, NULL>>
  /\ UNCHANGED <<file, saved>>

Next ==
  \/ \E cchKey \in Lengths, save \in {0, 1} : Reallocate(cchKey, save)
  \/ Clear
  \/ \E key \in Words : FindKey(key)
  \/ FindLast
  \/ \E key \in Words, data \in Data : FindOrInsert(key, data)
  \/ \E key \in Words, data \in Data : InsertKey(key, data)
  \/ \E key \in Words : DeleteKey(key)
  \/ DeleteLast
  \/ \E delta \in Goals : SetDeltaGoalSize(delta)
  \/ FirstBucket
  \/ NextBucket
  \/ \E fBlocks \in BOOLEAN : Save(fBlocks)
  \/ \E keysOnly \in BOOLEAN, over \in Overlays : Load(keysOnly, over)

Spec == Init /\ [][Next]_vars

-----------------------------------------------------------------------------

\* The assertion of PrintHashTable, "sanity check" (libchash.c 1526): the items
\* there are, are as many as the table counts; and so with the deleted ones.
SanityCheck == Sane(ht)

\* The table owns a copy of the key of each item and of no other: however items
\* come and go, none is leaked and none freed twice.  Less than half of the
\* buckets are occupied, deleted ones included, or some search would not end.
KeysOwned ==
  ~loaded =>
    /\ ht.fSaveKeys = 1 /\ STORES_PTR(ht) =>
         \A k \in Key : ht.copies[k] = Cardinality({k} \cap DOMAIN Contents)
    /\ 2 * Len(Occupied(ht)) < ht.cBuckets

\* posLastFind is where the item is that the last call found, however items
\* were moved since, and nowhere if a call other than a find came since.
LastFindIsFresh ==
  ht.posLastFind # UNINITIALIZED =>
    IF last = NULL THEN ht.posLastFind = NULL
    ELSE /\ ht.posLastFind \in ToSet(Live(ht))
         /\ TableItem(ht, ht.posLastFind).key = last

\* An iteration returns every item once, whatever is looked for meanwhile.
WalkIsComplete ==
  [][ret'[1] \in {"HashFirstBucket", "HashNextBucket"} =>
       LET seen == ret'[2][1]
       IN  IF walk' = NULL THEN ToSet(seen) = DOMAIN Contents
           ELSE /\ Last(walk') \in DOMAIN Contents \ ToSet(seen)
                /\ ret'[3] = HTItem(Last(walk'), Contents[Last(walk')])]_vars

\* A table that was loaded has what was in the one that was saved, data that
\* stayed on disk included, by the bytes of the keys; and a key that fills a
\* word, or has memory of its own, is found again: "It saves keys ok"
\* (libchash.c 94).  A short one need not be, see LoadedKey.
LoadedIsSaved ==
  loaded =>
    /\ Sane(ht)
    /\ ContentsByBytes = saved.contents
    /\ ht.cchKey # "short" => \A key \in DOMAIN saved.contents : HashFind(ht, key).item # NULL

\* Every call does to what is in the table what it says, and answers so: the
\* bucket it returns is the item's, in the table as the call leaves it.  A key
\* is here the word in the bucket, which of a loaded short key may be another
\* than the program asks for.
ActsAsMap ==
  [][LET before == Contents
         after  == ContentsOf(ht', file')
         name   == ret'[1]
         key    == ret'[2][1]
         data   == ret'[2][2]
         item   == ret'[3]
         of(map, k) == IF k \in DOMAIN map THEN HTItem(k, map[k]) ELSE NULL
         without(k) == [x \in DOMAIN before \ {k} |-> before[x]]
     IN  CASE name \in {"HashInsert", "HashFindOrInsert"} ->
                /\ after = IF name = "HashInsert" \/ key \notin DOMAIN before
                           THEN [x \in {key} |-> data] @@ before ELSE before
                /\ item = of(after, key)
           [] name \in {"HashDelete", "HashDeleteLast"} ->
                /\ after = without(key)
                /\ item = (key \in DOMAIN before)
           [] name = "ClearHashTable" -> DOMAIN after = {}
           [] name = "HashFind" -> after = before /\ item = of(before, key)
           [] name = "HashFindLast" -> after = before /\ item = of(before, last)
           [] name = "HashLoad" -> TRUE
           [] OTHER -> after = before]_vars

=============================================================================
