------------------------------- MODULE LibcBins -------------------------------
(***************************************************************************)
(* The tables of experimental/libchash.c, which hold the buckets of a hash *)
(* table: sparse ones, in bins of BIN_SIZE buckets each of which keeps the *)
(* occupied ones only, packed, and a bitmap; and dense ones, plain arrays  *)
(* in which an empty bucket has EMPTY for data.  A build of the library    *)
(* has one kind, Table(x) being Sparse##x or Dense##x (libchash.h 143).    *)
(*                                                                         *)
(* A location is a number in the table; a bucket's address is a bin and an *)
(* offset in the bin's array, and what is at an address changes whenever a *)
(* bucket is inserted before it.  A ulong of a bitmap is the set of its    *)
(* bits.                                                                   *)
(***************************************************************************)
EXTENDS Integers, Sequences, FiniteSets, FiniteSetsExt, SequencesExt

CONSTANTS
  WORD_BITS,  \* bits of a ulong: 32, or 64 (2 ^ LOG_WORD_SIZE)
  BM_WORDS,   \* ulongs to a bin's bitmap: 1 (2 ^ LOG_BM_WORDS)
  DISK_BITS,  \* bits of a ulong that WRITE_UL keeps: the 32 of htonl
  EMPTY,      \* data of a dense table's empty bucket
  NULL        \* no address

ASSUME BinAssumption == WORD_BITS \in Nat \ {0} /\ BM_WORDS \in Nat \ {0} /\ DISK_BITS \in Nat \ {0}

BIN_SIZE == BM_WORDS * WORD_BITS  \* 2 ^ LOG_LOW_BIN_SIZE

HTItem(key, data) == [key |-> key, data |-> data]
Address(bin, offset) == [bin |-> bin, offset |-> offset]

-----------------------------------------------------------------------------
(* Bitmaps, and sparse tables.                                             *)

DIV_NUM_ENTRIES(i) == i \div WORD_BITS
MOD_NUM_ENTRIES(i) == i % WORD_BITS

TEST_BITMAP(bm, i) == MOD_NUM_ENTRIES(i) \in bm[DIV_NUM_ENTRIES(i)]
SET_BITMAP(bm, i)  == [bm EXCEPT ![DIV_NUM_ENTRIES(i)] = @ \cup {MOD_NUM_ENTRIES(i)}]

\* How many of the bits 0 .. i - 1 are set: whole words as long as more than a
\* word's bits are left, then the low bits of the next.
EntriesUpto(bm, i) ==
  LET words == IF i = 0 THEN 0 ELSE (i - 1) \div WORD_BITS
  IN  FoldLeft(LAMBDA sum, w : sum + Cardinality(bm[w - 1]),
               Cardinality({b \in bm[words] : b < i - WORD_BITS * words}),
               [w \in 1 .. words |-> w])

SPARSE_GROUPS(cBuckets) == IF cBuckets = 0 THEN 0 ELSE (cBuckets - 1) \div BIN_SIZE + 1

new_bin == [binSparse |-> <<>>, bmOccupied |-> [w \in 0 .. BM_WORDS - 1 |-> {}], cOccupied |-> 0]

\* A table and its size, which is rounded up to whole bins.  Of no buckets at
\* all: SPARSE_GROUPS is 2 ^ 58, and 0 as an int.
SparseAllocate(cBuckets) ==
  [table    |-> [g \in 1 .. SPARSE_GROUPS(cBuckets) |-> new_bin],
   cBuckets |-> SPARSE_GROUPS(cBuckets) * BIN_SIZE]

BinOf(location) == location \div BIN_SIZE + 1
InBin(location) == location % BIN_SIZE

SparseIsEmpty(bins, location) == ~TEST_BITMAP(bins[BinOf(location)].bmOccupied, InBin(location))

SPARSE_BUCKET(bins, location) ==
  Address(BinOf(location), EntriesUpto(bins[BinOf(location)].bmOccupied, InBin(location)) + 1)

SparseFind(bins, location) ==
  IF SparseIsEmpty(bins, location) THEN NULL ELSE SPARSE_BUCKET(bins, location)

SparseItem(bins, bck) == bins[bck.bin].binSparse[bck.offset]
SparseSetItem(bins, bck, item) == [bins EXCEPT ![bck.bin].binSparse[bck.offset] = item]

\* An occupied bucket is written over if fOverwrite says so; fOverwrite then
\* says whether it was occupied.
SparseInsert(bins, item, location, fOverwrite) ==
  LET there == SparseFind(bins, location)
      at    == SPARSE_BUCKET(bins, location)
      bin   == bins[at.bin]
  IN  IF there # NULL
      THEN [table      |-> IF fOverwrite THEN SparseSetItem(bins, there, item) ELSE bins,
            bck        |-> there,
            fOverwrite |-> TRUE]
      ELSE [table      |-> [bins EXCEPT ![at.bin] =
                              [binSparse  |-> InsertAt(bin.binSparse, at.offset, item),
                               bmOccupied |-> SET_BITMAP(bin.bmOccupied, InBin(location)),
                               cOccupied  |-> bin.cOccupied + 1]],
            bck        |-> at,
            fOverwrite |-> FALSE]

\* The next bucket of the bin, or the first one of the next bin that has any.
SparseNextBucket(bins, it) ==
  LET later == {g \in it.bin + 1 .. Len(bins) : bins[g].cOccupied > 0}
  IN  IF it.offset # 0 /\ it.offset + 1 <= bins[it.bin].cOccupied
      THEN Address(it.bin, it.offset + 1)
      ELSE IF later # {} THEN Address(Min(later), 1) ELSE NULL

SparseFirstBucket(bins) == SparseNextBucket(bins, Address(0, 0))

-----------------------------------------------------------------------------
(* Dense tables: one array, an address in it being its location.           *)

DENSE_EMPTY_ITEM == HTItem(EMPTY, EMPTY)

DenseAllocate(cBuckets) ==
  [table |-> [i \in 0 .. cBuckets - 1 |-> DENSE_EMPTY_ITEM], cBuckets |-> cBuckets]

DenseIsEmpty(buckets, location) == buckets[location].data = EMPTY

DenseFind(buckets, location) ==
  IF DenseIsEmpty(buckets, location) THEN NULL ELSE Address(0, location)

DenseItem(buckets, bck) == buckets[bck.offset]
DenseSetItem(buckets, bck, item) == [buckets EXCEPT ![bck.offset] = item]

DenseInsert(buckets, item, location, fOverwrite) ==
  LET there == DenseFind(buckets, location)
  IN  [table      |-> IF there = NULL \/ fOverwrite THEN [buckets EXCEPT ![location] = item]
                                                    ELSE buckets,
       bck        |-> Address(0, location),
       fOverwrite |-> there # NULL]

DenseNextBucket(buckets, it) ==
  LET later == {i \in DOMAIN buckets : i > it.offset /\ ~DenseIsEmpty(buckets, i)}
  IN  IF later = {} THEN NULL ELSE Address(0, Min(later))

DenseFirstBucket(buckets) == DenseNextBucket(buckets, Address(0, -1))

-----------------------------------------------------------------------------
(***************************************************************************)
(* The words of a file.  A word is written in network byte order by htonl, *)
(* which takes 32 bits of it: of a word of 64 bits the upper half is lost. *)
(***************************************************************************)
Word(w) == <<"word", w>>
BitmapOnDisk(bm) == {b \in bm : b < DISK_BITS}

SparseWrite(bins) ==
  <<Word(Len(bins) * BIN_SIZE)>>
    \o [w \in 1 .. Len(bins) * BM_WORDS |->
          Word(BitmapOnDisk(bins[(w - 1) \div BM_WORDS + 1].bmOccupied[(w - 1) % BM_WORDS]))]

\* The table, its buckets unwritten yet, and how many words were read.
SparseRead(fp) ==
  LET groups == SPARSE_GROUPS(fp[1][2])
      bm(g)  == [w \in 0 .. BM_WORDS - 1 |-> fp[(g - 1) * BM_WORDS + w + 2][2]]
      bin(g) == LET n == EntriesUpto(bm(g), BIN_SIZE)
                IN  [binSparse  |-> [i \in 1 .. n |-> DENSE_EMPTY_ITEM],
                     bmOccupied |-> bm(g),
                     cOccupied  |-> n]
  IN  [table    |-> [g \in 1 .. groups |-> bin(g)],
       cBuckets |-> groups * BIN_SIZE,
       words    |-> 1 + groups * BM_WORDS]

\* A dense table's bitmap is cut off at its end; unwritten buckets hold data,
\* but not EMPTY.
DENSE_OCCUPIED_ITEM == HTItem(EMPTY, 1)

DenseWrite(buckets, cBuckets) ==
  LET words == (cBuckets + WORD_BITS - 1) \div WORD_BITS
      bm(w) == {b \in 0 .. WORD_BITS - 1 : /\ (w - 1) * WORD_BITS + b < cBuckets
                                           /\ ~DenseIsEmpty(buckets, (w - 1) * WORD_BITS + b)}
  IN  <<Word(cBuckets)>> \o [w \in 1 .. words |-> Word(BitmapOnDisk(bm(w)))]

DenseRead(fp) ==
  LET cBuckets == fp[1][2]
      words    == (cBuckets + WORD_BITS - 1) \div WORD_BITS
      set(i)   == i % WORD_BITS \in fp[i \div WORD_BITS + 2][2]
  IN  [table    |-> [i \in 0 .. cBuckets - 1 |-> IF set(i) THEN DENSE_OCCUPIED_ITEM
                                                           ELSE DENSE_EMPTY_ITEM],
       cBuckets |-> cBuckets,
       words    |-> 1 + words]

=============================================================================
