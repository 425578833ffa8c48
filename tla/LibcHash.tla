------------------------------- MODULE LibcHash -------------------------------
(***************************************************************************)
(* The hash table of experimental/libchash.c: internal probing in a table  *)
(* of module LibcBins whose size is a power of two, deleted buckets that   *)
(* keep their place with DELETED for data, a size that follows the number  *)
(* of items or the number the program says it is heading for, and files    *)
(* with all of it, or all but the data.                                    *)
(*                                                                         *)
(* A HashTable is a record, a function of the library an operator; one     *)
(* that changes the table and answers returns both.  Of cchKey no more is  *)
(* told than where keys of that length are: in the bucket, as a "word" or  *)
(* "short" of one, or behind a "pointer" to memory of the program's or,    *)
(* with fSaveKeys, of the table's own, whose live blocks copies counts by  *)
(* the key in them.  Pointers are followed: equal keys are the same value, *)
(* wherever they are.  Keys in the bucket are compared as whole words.     *)
(***************************************************************************)
EXTENDS LibcBins

CONSTANTS
  Key, Hash32,    \* the keys, and their hash values before the mask
  KeyTrunc,       \* of a word, the bytes that are a short key
  DELETED,        \* data of a deleted bucket
  UNINITIALIZED,  \* what malloc finds in memory
  MIN_HASH_SIZE   \* size of a new table, 512

ASSUME KeyAssumption ==
  /\ Hash32 \in [Key -> Nat]
  /\ Key \subseteq DOMAIN KeyTrunc
  /\ \A word \in DOMAIN KeyTrunc : KeyTrunc[word] \in Key
  /\ \A key \in Key : KeyTrunc[key] = key
  /\ MIN_HASH_SIZE \in Nat \ {0}

-----------------------------------------------------------------------------
(* Table(x): the functions of the build's kind of table.                   *)

Sparse(ht) == ht.kind = "Sparse"

TableAllocate(kind, n) == IF kind = "Sparse" THEN SparseAllocate(n) ELSE DenseAllocate(n)

TableIsEmpty(ht, i) ==
  IF Sparse(ht) THEN SparseIsEmpty(ht.table, i) ELSE DenseIsEmpty(ht.table, i)

TableFind(ht, i) == IF Sparse(ht) THEN SparseFind(ht.table, i) ELSE DenseFind(ht.table, i)

TableInsert(ht, item, i, fOverwrite) ==
  IF Sparse(ht) THEN SparseInsert(ht.table, item, i, fOverwrite)
                ELSE DenseInsert(ht.table, item, i, fOverwrite)

TableFirstBucket(ht) == IF Sparse(ht) THEN SparseFirstBucket(ht.table) ELSE DenseFirstBucket(ht.table)

TableNextBucket(ht, it) ==
  IF Sparse(ht) THEN SparseNextBucket(ht.table, it) ELSE DenseNextBucket(ht.table, it)

TableItem(ht, bck) == IF Sparse(ht) THEN SparseItem(ht.table, bck) ELSE DenseItem(ht.table, bck)

with_item(ht, bck, item) ==
  [ht EXCEPT !.table = IF Sparse(ht) THEN SparseSetItem(@, bck, item) ELSE DenseSetItem(@, bck, item)]

\* The occupied buckets as a loop over First- and NextBucket meets them.
Occupied(ht) ==
  LET walk[i \in 0 .. ht.cBuckets] ==
        IF i = 0 THEN <<TableFirstBucket(ht)>>
        ELSE LET met == walk[i - 1]
             IN  IF Last(met) = NULL THEN met ELSE Append(met, TableNextBucket(ht, Last(met)))
  IN  Front(walk[ht.cBuckets])

IS_BCK_DELETED(ht, bck) == TableItem(ht, bck).data = DELETED

Live(ht) == SelectSeq(Occupied(ht), LAMBDA bck : ~IS_BCK_DELETED(ht, bck))

-----------------------------------------------------------------------------
(* Keys: the low bytes of a word, if that is what they are; copies.        *)

STORES_PTR(ht) == ht.cchKey = "pointer"

KEY_TRUNC(ht, key) == IF ht.cchKey = "short" THEN KeyTrunc[key] ELSE key

COPY_KEY(ht, key) ==
  IF STORES_PTR(ht) /\ ht.fSaveKeys # 0 THEN [ht EXCEPT !.copies[key] = @ + 1] ELSE ht

\* Of keys in one block, the first one frees all.
FREE_KEY(ht, key) ==
  IF STORES_PTR(ht) /\ ht.fSaveKeys = 1 THEN [ht EXCEPT !.copies[key] = @ - 1] ELSE ht

\* Mutant: the table's copy of the key is not freed.
SetDeletedKeeping(ht, bck) == with_item(ht, bck, [TableItem(ht, bck) EXCEPT !.data = DELETED])

SET_BCK_DELETED(ht, bck) ==
  FREE_KEY(with_item(ht, bck, [TableItem(ht, bck) EXCEPT !.data = DELETED]), TableItem(ht, bck).key)

-----------------------------------------------------------------------------
(* Hashing.                                                                *)

Hash(key, cBuckets) == Hash32[key] % cBuckets

\* The i-th location a key probes, JUMP(key, offset) being ++offset.
Probed(key, i, cBuckets) == (Hash(key, cBuckets) + (i * (i + 1)) \div 2) % cBuckets

Probes(ht) == 0 .. ht.cBuckets - 1

\* What a search comes upon, probe by probe: buckets, and NULL for an empty one.
Met(ht, key) == [i \in Probes(ht) |-> TableFind(ht, Probed(key, i, ht.cBuckets))]

\* The first probe at which a search can end, and the first before it to come by
\* a bucket that can be inserted in, an empty or a deleted one.
LastProbe(ht, key, met) ==
  Min({i \in Probes(ht) : \/ met[i] = NULL
                          \/ ~IS_BCK_DELETED(ht, met[i]) /\ TableItem(ht, met[i]).key = key})
OpenProbes(ht, met, stop) == {i \in 0 .. stop : met[i] = NULL \/ IS_BCK_DELETED(ht, met[i])}

FindAt(ht, key, bck, open) ==
  [ht     |-> [ht EXCEPT !.posLastFind = bck],
   item   |-> bck,
   iEmpty |-> IF open = {} THEN UNINITIALIZED ELSE Probed(key, Min(open), ht.cBuckets)]

FindAlong(ht, key, met, stop) == FindAt(ht, key, met[stop], OpenProbes(ht, met, stop))

Find(ht, key) == FindAlong(ht, key, Met(ht, key), LastProbe(ht, key, Met(ht, key)))

\* A new table of a given size, with no items in it yet.
Emptied(ht, size) ==
  [ht EXCEPT !.table = size.table, !.cBuckets = size.cBuckets, !.cDeletedItems = 0]

\* An item is put in the first empty bucket it probes.
FirstEmpty(ht, key) ==
  LET free == {i \in Probes(ht) : TableIsEmpty(ht, Probed(key, i, ht.cBuckets))}
  IN  Probed(key, Min(free), ht.cBuckets)

Inserted(ht, ins) == [ht |-> [ht EXCEPT !.table = ins.table], item |-> ins.bck]

Put(ht, item) == Inserted(ht, TableInsert(ht, item, FirstEmpty(ht, item.key), FALSE))

\* Mutant: in the order of the old table.
RehashInOrder(ht, cNewBuckets, bckWatch) ==
  LET new         == Emptied(ht, TableAllocate(ht.kind, cNewBuckets))
      put(r, bck) == [Put(r.ht, TableItem(ht, bck)) EXCEPT
                        !.item = IF bck = bckWatch THEN @ ELSE r.item]
  IN  FoldLeft(put, [ht |-> new, item |-> NULL], Live(ht))

\* A table of another size with the live items in it, the one at bckWatch last:
\* insertions move what is behind them.
Rehash(ht, cNewBuckets, bckWatch) ==
  LET new    == Emptied(ht, TableAllocate(ht.kind, cNewBuckets))
      others == SelectSeq(Live(ht), LAMBDA bck : bck # bckWatch)
  IN  FoldLeft(LAMBDA r, bck : Put(r.ht, TableItem(ht, bck)), [ht |-> new, item |-> NULL],
               others \o (IF bckWatch = NULL THEN <<>> ELSE <<bckWatch>>))

\* The least power of two above x, and 0 for 0; beyond half of the ulongs, where
\* it stays the greatest there is, no table goes.
NextPow2(x) ==
  LET doubled[n \in 0 .. x] == IF n = 0 THEN 1 ELSE LET d == doubled[n - 1] IN
                                                    IF d > x THEN d ELSE 2 * d
  IN  IF x = 0 THEN 0 ELSE doubled[x]

\* OCCUPANCY_PCT is a half.
TooFull(ht) == 2 * (ht.cItems + ht.cDeletedItems) >= ht.cBuckets
TooEmpty(ht) == 5 * ht.cItems < ht.cBuckets  \* below 40% of that half
Positive(n) == IF n > 0 THEN n ELSE 0

\* The counters and the goal after an insertion.
Counted(ht, ins) ==
  [ht EXCEPT !.table          = ins.table,
             !.cDeletedItems  = IF ins.fOverwrite THEN @ - 1 ELSE @,
             !.cItems         = @ + 1,
             !.cDeltaGoalSize = IF @ > 0 THEN @ - 1 ELSE @]

Grown(ht, item) ==
  IF TooFull(ht) \/ ht.cDeltaGoalSize < 0
  THEN Rehash(ht, NextPow2(2 * (Positive(ht.cDeltaGoalSize) + ht.cItems)), item)
  ELSE [ht |-> ht, item |-> item]

Stored(ht, ins) == Grown(Counted(ht, ins), ins.bck)

\* No item is written when fOverwrite is 0 and the place is a deleted bucket.
InsertNew(ht, key, data, iEmpty, fOverwrite) ==
  Stored(COPY_KEY(ht, key), TableInsert(ht, HTItem(key, data), iEmpty, fOverwrite))

InsertFound(ht, bck, data, fOverwrite) ==
  [ht   |-> IF fOverwrite THEN with_item(ht, bck, [TableItem(ht, bck) EXCEPT !.data = data])
                          ELSE ht,
   item |-> bck]

InsertAfter(ht, find, key, data, fOverwrite) ==
  IF find.item # NULL THEN InsertFound(ht, find.item, data, fOverwrite)
                      ELSE InsertNew(ht, key, data, find.iEmpty, fOverwrite)

\* Mutant: an insertion leaves posLastFind alone, where an earlier find put it.
InsertRemembering(ht, key, data, fOverwrite) ==
  InsertAfter(ht, Find(ht, key), key, data, fOverwrite)

Insert(ht, key, data, fOverwrite) ==
  InsertAfter([ht EXCEPT !.posLastFind = NULL], Find(ht, key), key, data, fOverwrite)

Marked(ht, bck) ==
  [SET_BCK_DELETED(ht, bck) EXCEPT
     !.cItems         = @ - 1,
     !.cDeletedItems  = @ + 1,
     !.cDeltaGoalSize = IF @ < 0 THEN @ + 1 ELSE @]

Shrunk(ht, fShrink) ==
  IF /\ fShrink
     /\ TooEmpty(ht)
     /\ ht.cDeltaGoalSize >= 0
     /\ ht.cBuckets \div 2 >= MIN_HASH_SIZE
  THEN Rehash(ht, NextPow2(2 * (ht.cItems + ht.cDeltaGoalSize)), NULL).ht
  ELSE ht

DeleteFound(ht, bck, fShrink) ==
  IF bck = NULL THEN [ht |-> ht, answer |-> FALSE]
  ELSE [ht     |-> [Shrunk(Marked(ht, bck), fShrink) EXCEPT !.posLastFind = NULL],
        answer |-> TRUE]

\* Delete, after a Find or with what the last Find found.
Delete(find, fShrink) == DeleteFound(find.ht, find.item, fShrink)

-----------------------------------------------------------------------------
(* The library's functions.  fpData says that data are places in a file.   *)

\* posLastFind is whatever malloc found.
NewHashTable(kind, size, cchKey, fSaveKeys) ==
  [kind           |-> kind,
   table          |-> size.table,
   cBuckets       |-> size.cBuckets,
   cchKey         |-> cchKey,
   cItems         |-> 0,
   cDeletedItems  |-> 0,
   fSaveKeys      |-> fSaveKeys,
   cDeltaGoalSize |-> 0,
   posLastFind    |-> UNINITIALIZED,
   iter           |-> NULL,
   fpData         |-> FALSE,
   copies         |-> [k \in Key |-> 0]]

AllocateHashTable(kind, cchKey, fSaveKeys) ==
  NewHashTable(kind, TableAllocate(kind, MIN_HASH_SIZE), cchKey, fSaveKeys)

\* Mutant: the counters stay.
ClearCounting(ht) ==
  [ht EXCEPT !.table       = TableAllocate(ht.kind, MIN_HASH_SIZE).table,
             !.cBuckets    = TableAllocate(ht.kind, MIN_HASH_SIZE).cBuckets,
             !.posLastFind = NULL, !.iter = NULL, !.fpData = FALSE]

ClearHashTable(ht) ==
  LET size  == TableAllocate(ht.kind, MIN_HASH_SIZE)
      freed == FoldLeft(LAMBDA t, bck : FREE_KEY(t, TableItem(ht, bck).key), ht, Live(ht))
  IN  [freed EXCEPT !.table          = size.table,
                    !.cBuckets       = size.cBuckets,
                    !.cItems         = 0,
                    !.cDeletedItems  = 0,
                    !.cDeltaGoalSize = 0,
                    !.posLastFind    = NULL,
                    !.iter           = NULL,
                    !.fpData         = FALSE]

\* What a call returns that found a bucket: its item, the data from the file.
LOAD_AND_RETURN(ht, bck, fp) ==
  IF bck = NULL THEN NULL
  ELSE IF ht.fpData THEN [TableItem(ht, bck) EXCEPT !.data = fp[@ + 1][2]]
  ELSE TableItem(ht, bck)

HashFind(ht, key) == Find(ht, KEY_TRUNC(ht, key))
HashFindLast(ht)  == ht.posLastFind

HashFindOrInsert(ht, key, data) == Insert(ht, KEY_TRUNC(ht, key), data, FALSE)
HashInsert(ht, key, data)       == Insert(ht, KEY_TRUNC(ht, key), data, TRUE)

HashDelete(ht, key) == Delete(Find(ht, KEY_TRUNC(ht, key)), TRUE)
HashDeleteLast(ht)  == Delete([ht |-> ht, item |-> ht.posLastFind], TRUE)

\* The iterator is where it got to; at the end it is NULL, as is the answer.
\* Mutant: of deleted buckets in a row the second is returned.
PastOneDeleted(ht, it) ==
  [ht EXCEPT !.iter = IF it = NULL \/ ~IS_BCK_DELETED(ht, it) THEN it ELSE TableNextBucket(ht, it)]

PastDeleted(ht, it) ==
  LET skip[i \in 0 .. ht.cBuckets] ==
        IF i = 0 THEN it
        ELSE LET at == skip[i - 1]
             IN  IF at = NULL \/ ~IS_BCK_DELETED(ht, at) THEN at ELSE TableNextBucket(ht, at)
  IN  [ht EXCEPT !.iter = skip[ht.cBuckets]]

HashFirstBucket(ht) == PastDeleted(ht, TableFirstBucket(ht))
HashNextBucket(ht)  == PastDeleted(ht, TableNextBucket(ht, ht.iter))

HashSetDeltaGoalSize(ht, delta) == [ht EXCEPT !.cDeltaGoalSize = delta]

-----------------------------------------------------------------------------
(***************************************************************************)
(* Files: the header, the table's bitmaps, the keys of live items in one   *)
(* block, and for every occupied bucket a word: DELETED, or the data, or,  *)
(* of data in a block of its own (fBlocks, dataWrite # NULL), its size and *)
(* then the block.  A negative word loses its sign in 64 bits.             *)
(***************************************************************************)
MAGIC_KEY == <<"magic", "CHsh">>
SizeWord  == <<"size">>
Block(x)  == <<"block", x>>

DataOnDisk(data) ==
  IF data = DELETED /\ DISK_BITS < WORD_BITS THEN UNINITIALIZED ELSE data

\* What fwrite writes of a key: its bytes and no others of the word.
KeyBytes(ht, bck) == KEY_TRUNC(ht, TableItem(ht, bck).key)

\* Mutant: the keys of deleted buckets are written too.
KeysWithDeleted(ht) ==
  [i \in DOMAIN Occupied(ht) |->
     LET bck == Occupied(ht)[i]
     IN  IF IS_BCK_DELETED(ht, bck) THEN TableItem(ht, bck).key ELSE KeyBytes(ht, bck)]

KeysSaved(ht) == [i \in DOMAIN Live(ht) |-> KeyBytes(ht, Live(ht)[i])]

DataSaved(item, fBlocks) ==
  IF fBlocks /\ item.data # DELETED THEN <<SizeWord, Block(item.data)>>
                                    ELSE <<Word(DataOnDisk(item.data))>>

HashSave(ht, fBlocks) ==
  <<MAGIC_KEY, Word(ht.cchKey), Word(ht.cItems), Word(ht.cDeletedItems)>>
    \o (IF Sparse(ht) THEN SparseWrite(ht.table) ELSE DenseWrite(ht.table, ht.cBuckets))
    \o <<Block(KeysSaved(ht))>>
    \o FlattenSeq([i \in DOMAIN Occupied(ht) |-> DataSaved(TableItem(ht, Occupied(ht)[i]), fBlocks)])

\* The header and the table, its buckets not filled yet.
Headed(new, fp, read, keysOnly) ==
  [new EXCEPT !.cchKey        = fp[2][2],
              !.cItems        = fp[3][2],
              !.cDeletedItems = fp[4][2],
              !.table         = read.table,
              !.cBuckets      = read.cBuckets,
              !.fpData        = keysOnly]

\* The bytes of a short key are copied into a word that malloc left as it was,
\* and the bytes behind them stay: it becomes any word that begins with the key.
Overlays == {over \in [Key -> DOMAIN KeyTrunc] : \A key \in Key : KeyTrunc[over[key]] = key}

LoadedKey(ht, key, over) == IF ht.cchKey = "short" THEN over[key] ELSE key

\* One bucket's word, at r.at, and the next of the keys if it is not deleted.
\* With keysOnly, data are the places of their sizes in the file.
LoadBucket(r, bck, fp, fBlocks, keysOnly, over) ==
  LET word == fp[r.at]
      key  == IF r.keys = <<>> THEN UNINITIALIZED ELSE LoadedKey(r.ht, Head(r.keys), over)
      data == IF word # SizeWord THEN word[2] ELSE IF keysOnly THEN r.at ELSE fp[r.at + 1][2]
  IN  IF word = Word(DELETED)
      THEN [r EXCEPT !.ht = with_item(@, bck, HTItem(UNINITIALIZED, DELETED)), !.at = @ + 1]
      ELSE [ht   |-> with_item(r.ht, bck, HTItem(key, data)),
            at   |-> r.at + (IF fBlocks THEN 2 ELSE 1),
            keys |-> IF r.keys = <<>> THEN <<>> ELSE Tail(r.keys)]

LoadBuckets(ht, fp, block, fBlocks, keysOnly, over) ==
  FoldLeft(LAMBDA r, bck : LoadBucket(r, bck, fp, fBlocks, keysOnly, over),
           [ht |-> ht, at |-> block + 1, keys |-> fp[block][2]], Occupied(ht)).ht

LoadTable(new, fp, read, fBlocks, keysOnly, over) ==
  LoadBuckets(Headed(new, fp, read, keysOnly), fp, 5 + read.words, fBlocks, keysOnly, over)

HashDoLoad(new, fp, fBlocks, keysOnly, over) ==
  LET info == SubSeq(fp, 5, Len(fp))
  IN  LoadTable(new, fp, IF Sparse(new) THEN SparseRead(info) ELSE DenseRead(info),
                fBlocks, keysOnly, over)

HashLoad(kind, fp, fBlocks, over) ==
  HashDoLoad(AllocateHashTable(kind, "pointer", 2), fp, fBlocks, FALSE, over)

HashLoadKeys(kind, fp, fBlocks, over) ==
  IF fBlocks THEN HashDoLoad(AllocateHashTable(kind, "pointer", 2), fp, TRUE, TRUE, over)
             ELSE HashLoad(kind, fp, FALSE, over)

-----------------------------------------------------------------------------
(* PrintHashTable's sanity check, with what it counts deleted buckets as.  *)

Sane(ht) ==
  /\ Len(Live(ht)) = ht.cItems
  /\ Len(Occupied(ht)) - ht.cItems = ht.cDeletedItems

=============================================================================
