# A specification of sparsehash

TLA+ modules that model the hash tables of sparsehash, TLC configurations that
check them on small instances, and proofs, checked by TLAPS, of what holds for
every instance. Paths below are relative to the root of the repository; `DH` is
`src/sparsehash/internal/densehashtable.h`, `SH` is `sparsehashtable.h` beside
it, `HC` is `hashtable-common.h` beside them, `ST` is
`src/sparsehash/sparsetable`, `LC` is `experimental/libchash.c`.

    tlc -config dense_core.cfg MCDenseClients.tla     # one run
    tlc -config libchash.cfg MCLibcHash.tla           # another
    tlapm DenseHashMapProofs.tla                      # one module of proofs

## The system

sparsehash is a header-only C++ library: a table object is called by one thread
at a time and calls nothing back but its client's hash function and key
comparison. What is hard in it is not concurrency. It is that a table is used
through long sequences of calls whose effects meet much later: an erased object
leaves a mark that a search must pass and an insertion may reuse; an erasure
asks for shrinking and leaves it to the next insertion; a resizing decision
reads thresholds computed calls ago; reserved keys change under the objects;
tables are exchanged with their settings; a call throws half-way; a table is
read from a stream that ends too early.

| component | state it keeps | operations | what makes it correct |
|---|---|---|---|
| resizing policy, `sh_hashtable_settings` (HC) | load factors, two thresholds, `consider_shrink`, which reserved keys are set | new thresholds, new factors, `min_buckets` | thresholds are those of the present size; sizes are powers of two with room; factors far enough apart not to thrash; overflow is noticed |
| `dense_hashtable` (DH) | an array of buckets, the empty and the deleted key, `num_elements` (deleted ones included), `num_deleted` | search, insert, erase, clear, resize, copy, assign, swap, set and clear reserved keys, iterate, compare | a lookup finds the one bucket of a key or nothing; every search ends; counters count; erasing moves nothing; a rehash loses and doubles nothing |
| `dense_hash_map`, `dense_hash_set` | one `dense_hashtable` each | the public interface; `operator[]` for the map | the object is a finite map (set), whatever happens inside |
| `sparse_hashtable` (`internal/sparsehashtable.h`) | a `sparsetable` of buckets, the deleted key | as dense, with unassigned buckets for empty ones; growing moves objects destructively | as dense; an object is in one of two tables at any moment of a move |
| `sparsegroup`, `sparsetable` (`sparsetable`) | groups of 48 buckets: a bitmap and an array of the assigned ones | get, set, erase, resize, clear, iterate | the n-th assigned bucket is the n-th of the array; `num_buckets` counts the assigned ones |
| `sparse_hash_map`, `sparse_hash_set` | one `sparse_hashtable` each | the public interface | as the dense ones |
| serialization (all of the above) | a stream | `serialize`, `unserialize`, `write_metadata`, `read_metadata`, ... | what is written reads back; a short stream, or another table's, is noticed, and leaves a table that can be cleared |
| `libc_allocator_with_realloc` | the blocks in use | allocate, deallocate, reallocate | each array has one owner and is freed once; objects are constructed and destroyed once each |
| `type_traits.h`, `template_util.h` | none, compile time | what is known of a value type | bytes are moved for an object only where that is as good as copying it |
| `experimental/libchash.c` | the C ancestor: dense and sparse bucket layers, quadratic probing, deletion by marks, copies of keys, the last bucket found, an iterator | insert, find, delete, iterate, save, load | a map; counters count; keys are freed once; the remembered bucket is fresh; a saved table loads back |
| `google/*`, `windows/*`, build, packages | none | forwarding headers, ports | - |

The wrappers call their hashtable, the hashtables call their settings, the
sparse one keeps its buckets in a sparsetable. A client calls the wrapper.
`PROJECT.json` lists, under `hazards`, what in this code is hard to test, each
at its line, and which property covers it.

## Modules

                     HashMap                   what a map promises
                    ^       ^ implement
    DenseHashMap ---+       +--- SparseHashMap      the clients' calls
       | ^                            |
       | +-- DenseChurn               |   EXTENDS   (objects replaced for ever)
       |   DenseIteration             |   EXTENDS   (walks that erase)
       |       |   Serialization      |             (saves and loads of either kind)
       |       |    |         |       |
       |       |  DenseSerialization  |   INSTANCE by Serialization
       |       |    |         |       |
       DenseHashtable         SparseHashtable       the tables
             |                 |           | INSTANCE
       HashtableSettings ------+     SparseTable <-- SparseElements <-- SparseTableClient
                                           |                                |  implements
                                        Streams                        SparseArray

    LibcBins <-- LibcHash <-- LibcHashClient        the C library, on its own

    TypeTraits <-- Storage <-- GroupStorage, DenseStorage    memory, on its own

(DenseSerialization and SparseTable extend Streams, which knows how numbers and
objects are put into a file.)

**HashtableSettings** is `sh_hashtable_settings`: a record with the class's
fields, an operator per method. `min_buckets` doubles from `HT_MIN_BUCKETS`;
here it is the least size that fulfils the loop's condition, and it overflows
when there is none (a doubling that exceeds `size_type`).

**DenseHashtable** is `dense_hashtable`: a table is a record with the class's
data members, and every method an operator from a table to a table, or to an
outcome, `[ht, res]`: the table left behind and what was answered ("inserted",
"present", "resized", "length_error", ...). A call is one step of its client
(nothing else runs), so an operator is the whole method with all it calls:
`insert` is `resize_delta`, which may shrink, throw, purge or grow, followed by
`find_position` and `insert_at`. Loops become what they compute: the probes of
`find_position` are the stops of a sequence, the halvings of `maybe_shrink` the
largest size that ends them. Where the order matters it is kept: a rehash puts
the objects in one after the other in iteration order (`rehashed`), and a range
is inserted object by object up to a throw (`insert_each`).

**DenseHashMap** is the state machine: `ht[o]` is the table of object `o`, `ret`
the last call with its answer, and one action is one call of the public
interface, free to come in any order with any of the arguments the instance
names. Guards are the preconditions the class asserts ("Inserting the empty
key", "Calling set_empty_key multiple times", ...) or documents: before
`set_empty_key` nothing is inserted or cleared (`clear` of such a map would
allocate buckets and make the later `set_empty_key` fail its `assert(!table)`).

**HashMap** is what a client is promised: objects are maps from keys to values,
an answer says what happened, housekeeping is invisible, and a call may throw
`length_error` and then leaves the map alone (a range may be inserted in part).
`ImplementsHashMap` says that DenseHashMap implements it, reading `map[o]` off
the live buckets.

**DenseIteration** is a client with one iterator who walks over a map and erases
objects meanwhile: at the iterator, elsewhere by key, by `equal_range`, or all
that is left; with ghost variables for what was there, seen and erased.

**Streams** is a file as a sequence of tokens: bytes of a number, chars of a
bitmap, objects, magic numbers. `read_bigendian_number` and `read_32_or_64`
compute what the code computes when the stream ends within a number, and how
wide each integer is, is a constant, so that the escape of `write_32_or_64` is
reached by small tables.

**SparseTable** is `sparsegroup` and `sparsetable`. A group is its bitmap, by
chars, its packed array and its count; `pos_to_offset` goes by chars and then by
bits as the code does, with its edge at a char's boundary. A table is its groups,
its size and a count of its own, which `set`, `mutating_get` and `erase` change
by the difference the group's count makes and only a shrinking `resize` counts
afresh. Iterators over assigned elements are a group and an offset; the
destructive iterator frees the groups it leaves. **SparseElements** is what a
table reads as, one definition. **SparseTableClient** makes the calls on several
tables and implements **SparseArray**, arrays of elements each assigned or not. `table[i] = v` and an assignment through an iterator are `Set`.

**SparseHashtable** is `sparse_hashtable`, over an instance of SparseTable. What
differs from the dense table is modelled as it differs: no empty key, erased
objects stay in the sparsetable under the deleted key, `clear` looks at
`num_deleted` (SH 824), `num_nonempty` takes the place of `num_elements`, and a
rehash is a loop of `move_step`s: dereference the destructive iterator, put the
object in the target, advance over deleted ones, free the groups behind. The two
loops over ranges are `insert_each` and `set_deleted_each`.

**SparseHashMap** is its client, with two maps. In the three calls that do
nothing but compact a table (`set_deleted_key`, `clear_deleted_key`,
`resize(0)`), each step of the loop is a step of the model: `moving` holds the
target and the iterator, and the states with an object in one table and the next
one still in the other are there to be looked at. In the other calls, a move is
`moved`, all of its steps at once. It implements HashMap too, the contents of a
map in the middle of a move being those of both tables.

**DenseSerialization** adds `serialize` and `unserialize` of the dense table;
those of the sparse one are in SparseTable and SparseHashtable. **Serialization**
is a program with a table of either kind and one file. A save may run out of
room after any token; a load may meet a file that was cut off, or written by the
other kind; it may be tried again; and `clear` may be called in between. `left`
says whether the last load left the table to be cleared first.

**LibcBins, LibcHash, LibcHashClient** are `libchash.c`: the bitmaps and packed
bins of its sparse tables and the arrays of its dense ones; the hash table with
its `Find`, `Insert`, `Delete`, `Rehash`, goal size, key copies, iteration and
files; and a client. Addresses are modelled as addresses: `posLastFind` and what
a call returns are a bin and an offset in its array, and refer to whatever is
there. `copies` counts, for each key, the copies the table allocated and has not
freed. A key is a word of the bucket, shorter than one, or a pointer to memory of
the client's, of a copy, or of the block a loaded table keeps. The client does
what the file's comments ask: neither insert nor delete while iterating (LC 85)
nor in a loaded table (LC 114).

**TypeTraits** is `type_traits.h`: a type is its form, its qualifiers and the
types it is made of, and each trait is an operator on types that answers what
partial specialization picks. `TrulyTrivial` is what the compiler knows and the
traits only guess. **Storage** is memory: blocks of slots, each raw or with an
object, taken from `libc_allocator_with_realloc` or from an allocator without a
realloc; and the rules of the language as faults, collected when they are broken
(destroyed twice, built over another, freed alive, moved by bytes, ...).

**GroupStorage** and **DenseStorage** are what a `sparsegroup` and a
`dense_hashtable` do to that memory, and nothing else: a group makes its array
anew for each element that comes or goes, by realloc and memcpy if
`realloc_and_memmove_ok`, else by copies in a new array; every bucket of a dense
table holds an object at all times, and a resize takes a new array or asks the
allocator for one in place of the old. Values are left out, they are in
SparseTable and DenseHashtable.

**DenseChurn** is the client of test `ResizeWithoutShrink`: it keeps at most
`Window` objects in a dense map and replaces the oldest by new ones for ever, in a
table that never shrinks.

**The MC modules** are the instances for TLC. MCDenseClients has two clients, one
that makes every call on one map and one with several maps; MCStorage has two
groups or two tables.

**The proof modules**:

| module | extends | what it proves |
|---|---|---|
| ProbingProofs | HashtableSettings | probe sequences visit every bucket of a table |
| DenseTableProofs | DenseHashtable, ProbingProofs | `Sound` and `Spare`, and that every method of a dense table keeps them; what each does to the objects; what a lookup finds |
| DenseHashMapProofs | DenseHashMap, DenseChurn, DenseTableProofs | the invariants of all calls; `ImplementsHashMap`, call by call; sizes after a resize, and what a step may not do to a table; the churn |
| DenseIterationProofs | DenseIteration, DenseTableProofs | walks that erase |
| SparseTableProofs | SparseElements | ranks and offsets; what each method of a sparsetable does to its elements; iterators, the one that frees groups too |
| SparseTableClientProofs | SparseTableClient, SparseTableProofs | the sparsetable is an array |
| SparseHashtableProofs | SparseHashtable, ProbingProofs, an instance of SparseTableProofs | `Sound` and `Spare` of a sparse table and every method; a move, step by step; lookups and walks |
| SparseHashMapProofs | SparseHashMap, SparseHashtableProofs | the invariants of all calls and of a move under way; `ImplementsHashMap` |

Operators with "Mutant" in their comments are not part of the model: they are
plausible errors in the definition next to them, and each property is known to
fail for one of them (`PROJECT.json`, `mutants`).

### Abstractions

- Load factors are whole percentages and `x * factor` rounds as integers do;
  the code's floats have 24 bits, so that a threshold of a table of more than
  2^24 buckets may be off by some objects. No property depends on that.
- `Hash` is any function to numbers. The munging of pointer hashes is part of
  it. A hash function or a key comparison that throws or is inconsistent is not
  modelled.
- Allocation succeeds (the default allocator exits when it fails), and a block of
  no size is a block, as with glibc's `malloc(0)`. `max_size()`
  is the constant `MaxSize`; `size_type` ends at `SizeMax`.
- `RoomAssumption`: some size holds `MaxSize` objects under every load factor in
  use. It holds of the real types (objects of 16 bytes, 2^60 of them, 2^63
  buckets) unless a load factor is below an eighth; it rules out that a rehash
  needed by `set_deleted_key` or `operator=` throws. (`operator=` would then
  leave the old buckets with the new reserved keys, DH 741-744.)
- `num_ht_copies` (a counter for debugging) and the allocator are left out, and
  so is self-swap's assignment of `emptyval` to itself. An allocation that throws
  in the middle of `move_from` would leave the source emptied in part; with the
  allocators the library brings, the program exits instead.
- The value passed to `insert` or `set` comes from outside of the table:
  `insert(*it)` and `set(i, get(j))`, where a reference into an array is read
  after the array was made anew (DH 971, ST 1113), are not modelled.
- A stream ends between two tokens, not within an object. Objects are PODs:
  serializers of the client's own are not modelled.
- `dense_hash_set` and `sparse_hash_set` have no modules. They make the calls of
  the maps, `operator[]` excepted, on the same hashtable, with keys for objects.
- libchash: `cchKey` is told no further than "short" (of a word), "word" and
  "pointer"; which bytes of a word are a short key, `KEY_TRUNC`, is a constant
  function, and so is the hash before its mask; `HTItem` variants of the calls do
  the same on a pair. Memory that malloc leaves uninitialised is the value
  `UNINITIALIZED`, which the client does not read, with one exception: a short
  key is loaded into such memory, and the word that is then compared is any that
  begins with the key (`Overlays`), of which a load takes one.
- `insert` of input iterators is a sequence of `Insert` steps, as in the code.

## Runs

| run | instance | properties | what it shows |
|---|---|---|---|
| dense_core | 4 keys (2 collide, 1 hashes into their probe sequence, 1 wraps), default factors, 4 to 16 buckets, `size_type` of 5 bits, `max_size` 3, ranges, large requests; on 1 map, or on 2 with empty and deleted keys of their own and 2 of the keys; symmetric in the maps | TypeOK, CountersExact, BucketsAddUp, ResizeMakesRoom, EqualityIsExtensional, EraseKeepsIterators, ImplementsHashMap | every call on one object, in any order; calls that throw, in the middle of a range too; swap, assignment, copies, comparison |
| dense_params | 1 map, 3 keys, load factors (0, 0.5) and (0.45, 0.8) set at any time, two deleted keys, one of which is an ordinary key while it is not reserved | ThresholdsInSync, LookupsCorrect, SearchesEnd, CompactionEnds, InsertionBoundsLoad, NoThrashing, NeverShrinksAtZero | the resizing policy under changing factors; the deleted key under changing use |
| dense_iteration | 1 map, 4 keys, every way to erase | IteratorStaysValid, WalkIsComplete, OnlyErasedAreGone | erasing during a walk |
| dense_churn | 64 keys in turn, at most 3 at a time, no shrinking | CapacityBounded, WindowIsThere | no growth "to infinity" |
| sparse_table | 2 tables of 0, 2, 4 or 5 elements in groups of 4 with two chars of bitmap, 3 assigned at a time; symmetric in the tables | CountsAgree, OffsetsAreRanks, WalkVisitsAssigned, ComparisonsAgree, ImplementsArray | bitmap, array and counts at char and group boundaries; resizing in the middle of a group |
| sparse_map | 2 maps of 4 to 8 buckets in groups of 3, 3 keys and the deleted one, collisions, 4 elements at a time | CountersExact, LookupsCorrect, MoveFreesBehind, MoveEnds, ImplementsHashMap | every call; moves object by object |
| serialization | a table of either kind, 4 or 8 buckets, 2 keys that collide, every prefix of a file, numbers whose bytes have 5 values | LoadedInOrder, ClearRecovers, LoadsWhatWasSaved | saving, loading, failing, trying again |
| libchash | sparse and dense, bins of 4 in tables of 4 to 16 buckets, 3 keys that collide and a fourth word that begins with one of them, keys of every length, 3 occupied buckets | SanityCheck, KeysOwned, LastFindIsFresh, LoadedIsSaved, ActsAsMap, WalkIsComplete | the C library under a careful client |
| storage | 2 groups of 3, or 2 tables of 2 or 3 buckets; 8 value types, among them pairs and arrays, qualified and not, one with a conversion to int; both allocators | LifetimesRespected, ArraysOwned | who owns which array and which object, for every kind of value |
| dense_full | factor 1.0 | SearchesEnd | **violated**, see below |
| libchash_find_or_insert | as libchash, the client less careful | SanityCheck | **violated** |
| libchash_wide | as libchash, words of 2 bits of which files keep 1 | LoadedIsSaved | **violated** |

All state spaces are finite and explored to the end. The dense ones are bounded
by nothing but the instance's constants. The sparse and C ones are bounded, in
their MC modules, by the number of elements and buckets at a time (`MaxAssigned`,
`MaxElements`, `MaxObjects`, `MaxOccupied`, `MaxBuckets`): three or four elements
are enough for a group with one in front of and one behind the other, for a group
that empties, and for a table that grows and is compacted again.
`HT_MIN_BUCKETS` is the code's 4; the default size is 4 as well (32 in the code)
so that tables shrink, grow and fill within a few objects: the code makes a
difference between the two in `maybe_shrink` and the constructors only, and the
operators keep the two constants apart. Groups have 3 or 4 elements for the
code's 48, chars 2 bits for 8, so that a few elements lie in several chars and
groups, the last of which is cut off by the end of the table. Four keys are
enough for a key to sit behind a deleted bucket behind another key, with a third
one to reuse the bucket, and for a table to go 4, 8, 16 buckets and back. The
churn run has the most buckets (32) and the longest histories; only the deleted
buckets it leaves behind make the growth rule interesting.

dense_core has two clients that meet in the initial state and in the maps one can
copy: the first (`OneMap`) uses the empty key E and leaves the other map new, the
second (`SeveralMaps`) uses other empty keys and makes the calls that exchange
maps, and just enough others to make them differ. What one map may do in any
order is in the first, and a call on one map leaves the other alone in both. The
storage run has no values, so that two elements fill a group half and three to
the end; whether a bucket is empty or deleted does not matter to memory, and two
sizes are enough for an array that stays and one that is exchanged.

In sparse_map, all calls are made on `m1`; `m2` is there to be swapped, assigned
and compared. In libchash (`Bounded`), keys are in the buckets, words
or shorter, or behind pointers to copies, and in a loaded table behind pointers
into one block; a table is saved between iterations; and what follows a save is
a load. A load may find any word in memory behind a short key. `Careful` leaves out what is known
to break a table: see below. The `VIEW`s of these two runs and of dense_core drop
`ret`, which no action reads; the properties about answers look at steps, all of which TLC takes.

**Fairness.** Nothing is scheduled in this library, and a program need not make
any call. Only a call that has begun goes on to its end: the steps of
`move_from`'s loop follow one another in one thread. That is the fairness of
SparseHashMap, `WF_vars(MoveObject) /\ WF_vars(EndMove)`, and with it `MoveEnds`
holds: every move that begins ends, over empty groups, deleted objects and the
end of the table. The bounded specification states it without ENABLED as
`MoveGoesOn`: while there is a move, exactly one of the two actions is enabled
and no other step is, so "a move's step infinitely often, or infinitely often no
move" is the conjunction of the two. In the models where a call is one step,
termination is safety: "every search ends" is the invariant SearchesEnd,
"compaction ends" is CompactionEnds. Systems of calls do not stop by themselves,
and no run disables deadlock checking.

### What does not hold

- **A full table** (dense_full). The settings accept a maximum load factor of
  1.0 (`assert(grow <= 1.0)`, HC 320; `src/hashtable_test.cc` 1041 sets it). Then
  every bucket fills, and a search for an absent key runs into the assertion
  "Hashtable is full: an error in key_equal<> or hash<>" (DH 851), though
  neither is in error; compiled without assertions it never returns.
- **HashFindOrInsert loses its item** (libchash_find_or_insert). It calls `Insert`
  with `fOverwrite` 0 (LC 1230-1251). If the first free bucket for the key is a
  deleted one, the bins' `Insert` does not write into it without the flag
  (LC 545-549, 717-722), and `Insert` counts an item and one deleted bucket less
  all the same (LC 1090-1092). The item is not there, the returned item is the
  deleted one, and the assertion "sanity check" of `PrintHashTable` (LC 1526)
  fails. The passing run keeps away from it: it calls HashFindOrInsert only while
  there are no deleted buckets.
- **Files of 64-bit builds** (libchash_wide). `WRITE_UL` and `READ_UL` pass each
  ulong through `htonl` and `ntohl`, which keep 32 bits (LC 190-202), also where
  words have 64 (`LOG_WORD_SIZE` 6, `experimental/libchash.h` 125): the upper half
  of the bitmap words, and the sign that makes data DELETED, are lost.

Observations without a run of their own:

- `resize(n)` with deleted buckets: it passes on `n - num_elements`, deleted
  buckets counted as there; `resize_delta` adds that to the objects without them.
  Less than the documented "at least n items" (`doc/dense_hash_map.html` 740) fit.
- `set_resizing_parameters(0.45, 0.8)` gives a shrink factor of 0.4; the two calls
  it is documented to equal (`doc/dense_hash_map.html` 1426) give 0.25, from the
  default of 0.5, since each cut of the shrink factor uses the other factor of
  the moment.
- `resize(0)` does not always reach the smallest size
  (`doc/dense_hash_map.html` 1733) since `maybe_shrink` stops at the shrink
  factor; inserting a key that is there may grow the table (`resize_delta` comes
  before the search); a minimum load factor of 0 does not keep
  `set_deleted_key`, `clear_deleted_key`, `clear` and assignment from making the
  table smaller, though `src/sparsehash/dense_hash_map` 73-75 says the table "will
  never shrink".
- The deprecated `read_metadata` of a sparse table from a stream that ends within
  the magic number leaves the objects there and sets `num_deleted` to 0: deleted
  ones come to life. When the stream ends after the table's size, size and
  groups disagree, and `clear` (ST 1491) does not make them agree: `Clearable`
  leaves these two states out of ClearRecovers.
- `t[i] = t[j]` of a sparsetable copies nothing: the adaptor's implicit copy
  assignment is taken.
- The POD serializers construct each object read in place (`new(&value)`), and
  `unserialize` of a dense table has them do so in buckets that hold copies of
  `emptyval`, which are not destroyed: harmless for what may be read that way,
  and the one exception LifetimesRespected makes for dense tables.
- A sparse load that ends too early leaves slots of a group raw that its count
  calls elements; `clear` destroys what was never there. It is the exception
  LifetimesRespected makes for groups.
- A loaded table with keys shorter than a ulong may find none of them. HashDoLoad
  copies the `cchKey` bytes of a key (LC 1451) into a bucket that malloc left as
  it was (LC 632, 686); the bytes behind stay, and KEY_CMP (LC 143) compares whole
  words with a key whose other bytes KEY_TRUNC made 0. "It saves keys ok" (LC 94)
  is then so of the bytes only, and LoadedIsSaved says no more: it compares the
  keys of the two tables by their bytes, and asks that HashFind finds those that
  are a word or behind a pointer. With that exception taken out, TLC finds the
  trace: insert `k1`, save, load over the memory of `w1`, and HashFind of `k1`
  returns NULL. ActsAsMap holds of such a table too, its keys being the words.
- HashDelete of the last item, when shrinking waited for a negative goal that has
  since been reset, calls `NextPow2(0)`, which is 0, and makes a table without
  buckets, in which every call reads out of bounds (LC 1126-1130, 1062-1069).
- `AllocateHashTable` takes its memory from malloc, whatever its comment says
  ("set everything to 0", LC 1162); `posLastFind` is uninitialised until the
  first find or insertion.

## Proofs

All theorems hold for every value of the constants: any keys, values and items,
any hash function, any legal load factors and limits, any number of objects, any
size of groups and chars. Proofs go by one lemma per method, and one step per
action on top of them.

**`ThresholdsStayInSync`** (DenseHashMapProofs): `Spec => []ThresholdsInSync`.
The thresholds are a cache on which every resizing decision rests, and a dozen
methods write what they are computed from. ThresholdsInSync is not inductive: an
update of one field keeps the others only in a record that has them, and "half
of it" is only what it seems of a percentage. The inductive invariant `AllTuned`
says of each table that its fields and its settings' are the ones named, that
the factors are percentages at most one half of the other, and that it is in
sync. `insert_range` needs an induction along the range; it is done with the
least index at which the claim would fail (`LeastNumber`).

**`ProbesSeeAll`** (ProbingProofs): in a table of any legal size the first
`num_buckets` quadratic probes come by every bucket, each once. The i-th is
`i * (i + 1) / 2` further on, modulo a power of two `n`; if the i-th and the
j-th met, `2 * n` would divide `(j - i) * (j + i + 1)`, one factor of which is
odd, so it would divide the other (`OddFactor`, by descent to half the power),
which is smaller. Injective on a finite set is surjective. `ProbeStep` ties the
closed form to the step by step computation of the code, and **`SearchFindsRoom`** (DenseTableProofs)
draws the conclusion: `find_position` succeeds whenever some bucket is empty,
whatever the table holds.

**`TypesStayRight` and `CountersStayExact`** (DenseHashMapProofs):
`Spec => []TypeOK` and `Spec => []CountersExact`. Neither is inductive. The
inductive invariant `AllSound` says of each table that it is `Sound`:

- its fields have their types (`IsTable`), as TypeOK says;
- `num_elements` and `num_deleted` are the numbers of buckets they claim to be:
  CountersExact, and what a rehash needs to ask for enough room;
- no key is in two live buckets (`NoneTwice`), or else an insertion into a
  deleted bucket and a copy would count differently;
- every live bucket is reached by the search for its key over buckets that are
  in use (`Reached`), or else an insertion would miss the object that is there,
  double it, and break the part before;
- a reserved key is not the other one, and some size has room for `MaxSize`
  objects under the factors in force (`RoomFor`): a rehash then never throws and
  always leaves an empty bucket to end a search;
- a map without an empty key has no buckets in use (`Blank`).

A rehash is a recursive function over the buckets of the old table. That it
keeps all of the above is shown for each bucket of the iteration, by the least
number at which it would fail (`RehashFills`), with ProbesSeeAll for the room. `SameMap` says that the new table has the same objects.

**`BucketsAlwaysAddUp`** assumes `FactorsLeaveRoom` (below), since `bucket()`
searches and a search must end, which is what AllTuned and AllSpare (below) are
needed for. The rest is `AllSound`: the live buckets of a key are a set of at
most one, by NoneTwice.

**`SearchesAlwaysEnd`, `LookupsStayCorrect` and `EqualityStaysExtensional`**
(DenseHashMapProofs), when every grow factor a client passes is less than
100% (`FactorsLeaveRoom`). The run dense_full shows that SearchesEnd fails at
100%, so the assumption is needed. The invariant is `AllSound`, with `AllTuned`
(the thresholds are those of the size, so that the table grows when it should)
and `AllSpare`: in each table an empty bucket is left. `resize_delta` makes room
for the objects about to be inserted, counting the deleted buckets as the search
meets them; the places it returns early are where the proof needs the threshold
to be in sync. Then a search ends (SearchFindsRoom), and it names the one live
bucket of the key since that bucket is Reached and the only one. `operator==`
looks each object of one table up in the other and compares the sizes: one
inclusion, and as many objects on both sides.

**`DenseHashMapIsAMap`** (DenseHashMapProofs): `Spec => ImplementsHashMap`, the
refinement, from `AllSound` alone. `Objects(t)` is the set of objects in a table;
in a sound one it is the graph of `Contents(t)`. Every method changes Objects in
one of few ways: it leaves it (resizing, squashing, reserved keys: `SameMap`),
adds an object of a key that was not there, takes the objects of some keys away,
changes one value, empties it. So the lemmas about methods are lemmas about sets,
which are turned into maps at the end. A search that does not end lets the
program take no further step (`Answer`), which is why no assumption about the
load factors is needed. A range is inserted up to a throw: the map's call is a part of
the range, found as the place where `insert_each` stopped.

**What calls do to sizes** (DenseHashMapProofs), all from `AllSound /\ AllTuned`:

- `ResizeAlwaysMakesRoom`: `Spec => []ResizeMakesRoom`. The size asked for is the
  least that holds n under the grow factor, and thresholds are in sync.
- `CompactionAlwaysEnds`: `Spec => []CompactionEnds`. `maybe_shrink` halves while it
  is above the default size and has fewer objects than the shrink factor wants;
  it stops at a power of two for which one of the two fails.
- `InsertionsBoundLoad`, `SizesNeverThrash`, `NothingShrinksAtZero`: the action
  properties. The size an insertion grows to is the least power of two with
  room, so half of it has none: more than half the grow factor is in use, which
  is at least the shrink factor, the two being a factor of two apart
  (`AllTuned`). For an insertion that shrinks first, the size it ends with is
  compared with the one before by `PowersApart`.
- `ErasuresKeepIterators`: the erasures write `delkey` over keys of live buckets,
  and nothing else.

**Objects that come and go** (DenseHashMapProofs): `CapacityStaysBounded` and
`WindowStaysThere`, of DenseChurn, for every window, number of keys, hash function
and default size up to the code's 32. Nothing in a step says how often tables have
doubled before, so CapacityBounded alone is not inductive. The invariant `ChurnInv` says that
the table is Sound and Tuned, that its factors are those of the client, that no
more buckets are in use than the grow threshold (`Churning`), and that its keys are
those of the window. Then `resize_to` (`ChurnResizesTo`) names either a size for
the live objects alone, or one for the objects and three quarters of the deleted
buckets; the second is larger than the first only up to the point at which
enough buckets are deleted for a rehash in place. So a table doubles only while its
size is below a multiple of the window, and the least power of two with room is at most
four times what was asked for (`FourTimes`). That the window's keys, numbers modulo
`Count`, are never the one to be inserted, is `WindowGrows` and `WindowMoves`. Both
calls may assume that their search ends, since the client goes no further otherwise.

**Walks that erase** (DenseIterationProofs): `IteratorsStayValid`, `WalksAreComplete`
and `OnlyErasedAreEverGone`, of DenseIteration. None of the three is inductive. The
invariant `WalkInvariant` says that the table is `Sound`, has the client's reserved
keys and no other objects than its items (`Tabled`), and during a walk
(`Walking`) that the iterator is at a live bucket or the end, that of the live
buckets those before the iterator were seen once and those from it on never, and
that the keys there are those of the beginning without the erased. `Erased` says
what each way of erasing leaves: some live buckets are deleted ones now, all the
others are as they were; so the iterator's bucket, unless it was erased, and what
is on either side of it stay (`EraseOtherStep`), and where the iterator is moved
on, it is moved to the next live bucket (`AdvanceStops`, `VisitStep`).
Sound is needed because erasing by key and `equal_range` search: that they
find the bucket of the key, and no other, rests on `Reached` and `NoneTwice`.

**The sparsetable** (SparseTableClientProofs, on the lemmas of SparseTableProofs). The
inductive invariant `AllSound` of this module says of each table that it has the groups its size needs
(`ShapeSound`), that each group is `GroupSound`, that no group has a bit behind the
end of the table, and that `num_buckets` counts the assigned locations. A group is
sound when its array is as long as its bitmap has positions, its count is that
length, and no bit is set in the unused part of the last char (`NoStrayBit`).

- `OffsetsAreAlwaysRanks`: `Spec => []OffsetsAreRanks`. `OffsetIsRank` adds up the
  chars before a position and the bits before it in its char (`BitsInChars`);
  `OffsetRoundTrip` shows that `offset_to_pos` finds the only position of that
  rank.
- `SparseTableIsAnArray`: `Spec => ImplementsArray`. `set_aux` and `erase_aux` make
  room and close up at the rank of a position; ranks of the positions behind it
  change by one (`RankChanged`), so each stays where the packed array has it
  (`GroupSet`, `GroupErased`). `resize` cuts the last group in the middle
  (`GroupCut`) and counts afresh; `Located`, `LocationOf` and `WithGroup` take a
  group's change to the table's.
- `CountsAlwaysAgree` and `ComparisonsAlwaysAgree`: `Spec => []CountsAgree` and
  `Spec => []ComparisonsAgree`. Two tables compare as what is read from them does:
  `less` is decided at the first location where they differ (`LessAt`).

- `WalksAlwaysVisitAssigned`: `Spec => []WalkVisitsAssigned`. The stop of an
  assigned location is its group and its rank there (`Stop`); stops lie row by row
  and then column by column as locations do (`StopsOrdered`), and every place in a
  packed array is one (`PlaceIsStop`, since no rank is skipped). So `increment`
  goes to the next location or to the end, and `decrement` back (`WalkGoesOn`,
  `WalkGoesBack`).

**The sparse hash map** (SparseHashMapProofs, on SparseHashtableProofs): `CountersStayExact`,
`LookupsStayCorrect`, `MovesFreeBehind` and `SparseHashMapIsAMap`. A sparse table is
`Sound` when its sparsetable is (`TabSound`, by an instance of SparseTableProofs
with objects for values), its counters count, its thresholds are in sync, no key
is in two live buckets, and every live bucket is reached by the search for its
key. `Spare` says that an element is left unassigned. For each method there is a
lemma: what it leaves is Sound again, and its `Objects` are those before, with
one more, some less or one changed.

A move is not one step but a loop, and both of its tables are unlike any table
between two calls: the one being emptied has freed groups behind the iterator,
the other is half filled. `Underway(l, src, n, frees)` says where the loop `l` is: some
table `src`, the one that the call began with, was sound; `l.from` is `src` with the
groups before the iterator's freed; `l.to` is a sound table of `n` buckets without
deleted ones; and its objects are those of `src` before the iterator. `LoopBegins`,
`StepGoesOn` and `LoopEnds` are the induction: a step moves one object and
leaves the loop under way one object further on, and at its end the target
holds all of `src`. Moves that a model's step does at once (`MovedSound`) rest on
the same lemmas, and so do copies, which free nothing.

The invariant of the client, `IInv`, is then: either no table is being moved and
every table is sound, or `InMove`: there is such an `src` for the table being moved,
every other table is sound, and the call is one of the three that move step by
step (`CallOK`), none of which makes a key of `src` the deleted one. None of the four properties is inductive: they say
nothing of what the freed groups held, so a step of a move could not be shown to
put the right object in. IInv says it by naming `src`; NothingLost (an object of
`src` is in one of the two tables) and TwiceBehind (in both only if in the
iterator's group and before it) follow.

- `CountersStayExact` and `MovesFreeBehind` are read off IInv.
- `SparseHashMapIsAMap`: `Spec => ImplementsHashMap`. The map of an object is that
  of its table's objects, or, in a move, of the objects of both tables: those
  of `src`, whatever step the loop is at. So MoveObject and EndMove are
  stuttering steps, and the call's effect is that of its beginning.
- `LookupsStayCorrect` is under `FactorsLeaveRoom`, every grow factor in use below
  100%, as for the dense table. `WalkMeetsAll` has the iteration: `begin` stops at the
  first live bucket, `next` at the next one, over empty groups and deleted
  objects, so the walk takes as many steps as there are objects.

`erase_range`, the walk, the freeing of the rest of a group and the counting of a
shrinking resize are recursive functions. A property they keep, and what they
add up, are shown by the lemmas `Iterates` and `Climb`, whose conclusions name no
operator parameter.

Assumptions used: SizesAssumption, KeysAssumption, StorageAssumption, ElementsAssumption,
ItemsAssumption and the ClientAssumptions, which say that constants have their types, that `NULL` is no table and that the two
initial sizes are powers of two of at least 4; GroupAssumption (a group and a
char have at least one element and bit); RoomAssumption (above); and, for the churn,
ChurnAssumption: the window has no key twice, the default size is at most the
code's, and no limit is in the way of the window. TLC evaluates them in every run
of these modules. No proof assumes anything of `Hash` but its type.

Only model-checked, and why:

- `MoveEnds` is liveness under fairness, out of the provers' reach. (What it needs
  of safety is proved: `StepGoesOn` moves the iterator on at each step, and
  `LoopEnds` counts the steps.)
- serialization (LoadedInOrder, ClearRecovers, LoadsWhatWasSaved): that what is
  read back is what was written is about folds over a whole stream, that is,
  induction over data. The recursive functions above were each reached with the
  least counterexample instead; a fold of SequencesExt has no such index.
- libchash and storage: instances only. Neither is out of reach: they are the
  next to be proved.

## Not modelled

- Of `libc_allocator_with_realloc`: failing allocations and sizes that overflow.
  Of `type_traits.h` and `template_util.h`: the traits that no table asks for
  (`remove_*`, `is_same`, `is_convertible` in general), since nothing of them
  is left at run time.
- `google/*`, the Windows port, build files and packages: no behaviour of their
  own. Tests and benchmarks were read for what is promised.
- Of libchash: the output of `PrintHashTable` and the sizes it adds up, builds
  with `INSERT_ONLY` or `FAST_DELETE`, the mixing of the hash functions,
  `NextPow2` beyond 2^31, and tables with data left on disk that are saved again.
- Of the C++ classes: the counting of table copies, statistics, allocators with
  state, serializers other than the POD one, and clients that break what the
  assertions ask.

## Plan

Done: the dense table, its policy, its client, its iterators; the sparsetable,
the sparse table and its client; serialization; libchash; storage. Proved: all
that the runs dense_core, dense_params, dense_iteration, dense_churn,
sparse_table and sparse_map check, but for liveness.

What could be proved next: the invariants of GroupStorage and DenseStorage, and of
LibcHashClient along the argument of DenseTableProofs.
