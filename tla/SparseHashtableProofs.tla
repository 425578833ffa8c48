------------------------ MODULE SparseHashtableProofs ------------------------
(***************************************************************************)
(* What every method of sparse_hashtable keeps true of a table: its        *)
(* counters count, its size leaves room for as many objects as the         *)
(* allocator allows, no key is there twice, and every live bucket is       *)
(* reached by the search for its key.  It is the argument of               *)
(* DenseTableProofs over a sparsetable, which SparseTableProofs shows to   *)
(* be an array, with one more part: a table is copied and moved by an      *)
(* iterator over what is assigned, which has to meet every live object     *)
(* once, past the deleted ones, while the groups behind it are freed.      *)
(***************************************************************************)
EXTENDS SparseHashtable, ProbingProofs

Slot == [key : Key, val : Val]

-----------------------------------------------------------------------------
(* The sparsetable: what SparseTableProofs (here L) shows of its           *)
(* operators, in the words of the hashtable, whose instance of them is T.  *)

\* No object, which an unassigned element counts as.
NoSlot == CHOOSE x : x \notin Slot

L == INSTANCE SparseTableProofs WITH
       default_value <- [key |-> DefaultKey, val |-> DefaultVal],
       Val <- Slot, UNASSIGNED <- NoSlot

\* The table is a sound sparsetable of objects.
TabSound(tab) == L!TableSound(tab)

\* What an unassigned or an assigned element reads as.
Element(tab, i) == L!Elements(tab)[i]

Numbers(tab) == 0 .. tab.table_size - 1
Used(tab)    == {i \in Numbers(tab) : T!test(tab, i)}

\* What the lemmas of L assume.
LEMMA StorageOfSlots ==
  /\ [key |-> DefaultKey, val |-> DefaultVal] \in Slot /\ NoSlot \notin Slot
  /\ GROUP_SIZE \in Nat \ {0} /\ CHAR_BIT \in Nat \ {0}
  /\ BYTE \in Nat \ {0, 1} /\ SHORT \in Nat \ {0} /\ INT \in Nat \ {0} /\ LONG \in Nat \ {0}
<1>1. NoSlot \notin Slot
  BY NoSetContainsEverything DEF NoSlot
<1>. QED
  BY <1>1, KeysAssumption, StorageAssumption DEF Slot

\* T and L name the same operators.
LEMMA SameOperators ==
  ASSUME NEW tab
  PROVE  /\ T!Locations(tab) = Numbers(tab) /\ L!Locations(tab) = Numbers(tab)
         /\ T!nonempty_begin(tab) = L!nonempty_begin(tab)
         /\ T!nonempty_end(tab) = L!nonempty_end(tab)
         /\ T!num_nonempty_of(tab.groups) = L!num_nonempty_of(tab.groups)
         /\ T!clear(tab) = L!clear(tab)
         /\ \A i : /\ T!test(tab, i) = L!test(tab, i)
                   /\ T!unsafe_get(tab, i) = L!unsafe_get(tab, i)
                   /\ T!get_iter(tab, i) = L!get_iter(tab, i)
                   /\ T!get_pos(tab, i) = L!get_pos(tab, i)
                   /\ T!increment(tab, i) = L!increment(tab, i)
                   /\ T!dereference(tab, i) = L!dereference(tab, i)
                   /\ T!resize(tab, i) = L!resize(tab, i)
                   /\ T!new_sparsetable(i) = L!new_sparsetable(i)
                   /\ T!group_num(i) = L!group_num(i)
         /\ \A i, x : T!set(tab, i, x) = L!set(tab, i, x)
         /\ \A i, x : T!destroy_rows(tab, i, x) = L!destroy_rows(tab, i, x)
         /\ T!new_group = L!new_group
         /\ \A i, x : T!Iterator(i, x) = L!Iterator(i, x)
<1>1. T!Locations(tab) = Numbers(tab) /\ L!Locations(tab) = Numbers(tab)
  BY DEF Numbers, T!Locations, L!Locations
<1>2. T!nonempty_begin(tab) = L!nonempty_begin(tab)
  BY DEF T!nonempty_begin, L!nonempty_begin, T!advance_past_end,
         L!advance_past_end, T!row_end, L!row_end, T!Iterator, L!Iterator,
         T!Min, L!Min
<1>3. T!nonempty_end(tab) = L!nonempty_end(tab)
  BY DEF T!nonempty_end, L!nonempty_end, T!Iterator, L!Iterator, T!row_end,
         L!row_end
<1>4. T!num_nonempty_of(tab.groups) = L!num_nonempty_of(tab.groups)
  BY DEF T!num_nonempty_of, L!num_nonempty_of
<1>5. T!clear(tab) = L!clear(tab)
  BY DEF T!clear, L!clear, T!group_clear, L!group_clear, T!Chars, L!Chars
<1>6. \A i : T!test(tab, i) = L!test(tab, i)
  BY DEF T!test, L!test, T!bmtest, L!bmtest, T!modbit, L!modbit, T!charbit,
         L!charbit, T!which_group, L!which_group, T!group_num, L!group_num,
         T!pos_in_group, L!pos_in_group
<1>7. \A i : T!unsafe_get(tab, i) = L!unsafe_get(tab, i)
  BY DEF T!unsafe_get, L!unsafe_get, T!group_unsafe_get,
         L!group_unsafe_get, T!pos_to_offset, L!pos_to_offset,
         T!bits_in_chars, L!bits_in_chars, T!bits_in_char, L!bits_in_char,
         T!Cardinality, L!Cardinality, T!which_group, L!which_group,
         T!group_num, L!group_num, T!pos_in_group, L!pos_in_group
<1>8. \A i : T!get_iter(tab, i) = L!get_iter(tab, i)
  BY DEF T!get_iter, L!get_iter, T!Iterator, L!Iterator, T!group_num,
         L!group_num, T!pos_to_offset, L!pos_to_offset, T!bits_in_chars,
         L!bits_in_chars, T!bits_in_char, L!bits_in_char, T!Cardinality,
         L!Cardinality, T!which_group, L!which_group, T!pos_in_group,
         L!pos_in_group
<1>9. \A i : T!get_pos(tab, i) = L!get_pos(tab, i)
  BY DEF T!get_pos, L!get_pos, T!offset_to_pos, L!offset_to_pos, T!Chars,
         L!Chars, T!bits_in_chars, L!bits_in_chars, T!bits_in_char,
         L!bits_in_char, T!Cardinality, L!Cardinality, T!Min, L!Min
<1>10. \A i : T!increment(tab, i) = L!increment(tab, i)
  BY DEF T!increment, L!increment, T!advance_past_end, L!advance_past_end,
         T!row_end, L!row_end, T!Iterator, L!Iterator, T!Min, L!Min
<1>11. \A i : T!dereference(tab, i) = L!dereference(tab, i)
  BY DEF T!dereference, L!dereference
<1>12. \A i : T!resize(tab, i) = L!resize(tab, i)
  BY DEF T!resize, L!resize, T!resized_groups, L!resized_groups,
         T!num_groups, L!num_groups, T!new_group, L!new_group, T!Chars,
         L!Chars, T!pos_in_group, L!pos_in_group, T!group_erase_from,
         L!group_erase_from, T!group_erase, L!group_erase, T!bmtest,
         L!bmtest, T!modbit, L!modbit, T!charbit, L!charbit, T!erase_aux,
         L!erase_aux, T!RemoveAt, L!RemoveAt, T!pos_to_offset,
         L!pos_to_offset, T!bits_in_chars, L!bits_in_chars, T!bits_in_char,
         L!bits_in_char, T!Cardinality, L!Cardinality, T!bmclear,
         L!bmclear, T!num_nonempty_of, L!num_nonempty_of
<1>13. \A i : T!new_sparsetable(i) = L!new_sparsetable(i)
  BY DEF T!new_sparsetable, L!new_sparsetable, T!num_groups, L!num_groups,
         T!new_group, L!new_group, T!Chars, L!Chars
<1>14. \A i : T!group_num(i) = L!group_num(i)
  BY DEF T!group_num, L!group_num
<1>15. \A i, x : T!set(tab, i, x) = L!set(tab, i, x)
  BY DEF T!set, L!set, T!with_group, L!with_group, T!group_num,
         L!group_num, T!group_set, L!group_set, T!pos_to_offset,
         L!pos_to_offset, T!bits_in_chars, L!bits_in_chars, T!bits_in_char,
         L!bits_in_char, T!Cardinality, L!Cardinality, T!bmtest, L!bmtest,
         T!modbit, L!modbit, T!charbit, L!charbit, T!set_aux, L!set_aux,
         T!InsertAt, L!InsertAt, T!bmset, L!bmset, T!which_group,
         L!which_group, T!pos_in_group, L!pos_in_group
<1>16. \A i, x : T!destroy_rows(tab, i, x) = L!destroy_rows(tab, i, x)
  BY DEF T!destroy_rows, L!destroy_rows, T!group_clear, L!group_clear,
         T!Chars, L!Chars
<1>17. T!new_group = L!new_group
  BY DEF T!new_group, L!new_group, T!Chars, L!Chars
<1>18. \A i, x : T!Iterator(i, x) = L!Iterator(i, x)
  BY DEF T!Iterator, L!Iterator
<1>. QED
  BY <1>1, <1>2, <1>3, <1>4, <1>5, <1>6, <1>7, <1>8, <1>9, <1>10, <1>11, <1>12,
     <1>13, <1>14, <1>15, <1>16, <1>17, <1>18

\* The instance of the sparsetable counts as this module does.
LEMMA SameCardinality ==
  ASSUME NEW S
  PROVE  L!Cardinality(S) = Cardinality(S)
  BY DEF L!Cardinality, Cardinality

\* A sound sparsetable counts what is assigned, in all and by groups, and holds
\* objects there.
LEMMA TabFields ==
  ASSUME NEW tab, TabSound(tab)
  PROVE  /\ tab = [groups |-> tab.groups, table_size |-> tab.table_size,
                   num_buckets |-> tab.num_buckets]
         /\ tab.table_size \in Nat
         /\ IsFiniteSet(Used(tab)) /\ tab.num_buckets = Cardinality(Used(tab))
         /\ tab.num_buckets \in Nat
         /\ T!num_nonempty_of(tab.groups) = tab.num_buckets
<1>1. L!ShapeSound(tab) /\ tab.num_buckets = Cardinality(L!Assigned(tab))
  BY SameCardinality DEF TabSound, L!TableSound
<1>2. L!Assigned(tab) = Used(tab)
  BY SameOperators DEF L!Assigned, Used
<1>3. /\ tab = [groups |-> tab.groups, table_size |-> tab.table_size,
                num_buckets |-> tab.num_buckets]
      /\ tab.table_size \in Nat
  BY <1>1 DEF L!ShapeSound
<1>4. IsFiniteSet(Used(tab)) /\ Cardinality(Used(tab)) \in Nat
  <2>. DEFINE n == tab.table_size
  <2>1. IsFiniteSet(Numbers(tab))
    <3>1. n - 1 \in Int
      BY <1>3
    <3>. HIDE DEF n
    <3>2. IsFiniteSet(0 .. n - 1)
      BY <3>1, FS_Interval
    <3>. QED
      BY <3>2 DEF Numbers, n
  <2>2. Used(tab) \in SUBSET Numbers(tab)
    BY DEF Used
  <2>. QED
    BY <2>1, <2>2, FS_Subset, FS_CardinalityType
<1>5. T!num_nonempty_of(tab.groups) = Cardinality(L!Assigned(tab))
  BY <1>1, SameOperators, SameCardinality, StorageOfSlots, L!GroupsCount
<1>. QED
  BY <1>1, <1>2, <1>3, <1>4, <1>5

\* Reading, in terms of its elements.
LEMMA TabReads ==
  ASSUME NEW tab, TabSound(tab), NEW i \in Numbers(tab)
  PROVE  /\ T!test(tab, i) <=> Element(tab, i) # NoSlot
         /\ T!test(tab, i) => T!unsafe_get(tab, i) = Element(tab, i)
                              /\ Element(tab, i) \in Slot
<1>1. L!ShapeSound(tab) /\ i \in L!Locations(tab)
  BY SameOperators DEF TabSound, L!TableSound
<1>. QED
  BY <1>1, SameOperators, StorageOfSlots, L!ReadIs DEF Element

\* u is tab with obj in bucket i.
Written(u, tab, i, obj) ==
  /\ TabSound(u) /\ u.table_size = tab.table_size
  /\ Used(u) = Used(tab) \cup {i}
  /\ T!unsafe_get(u, i) = obj
  /\ \A j \in Used(tab) : j # i => T!unsafe_get(u, j) = T!unsafe_get(tab, j)

\* set puts an object into one bucket and leaves the others.
LEMMA SetWrites ==
  ASSUME NEW tab, TabSound(tab), NEW i \in Numbers(tab), NEW obj \in Slot
  PROVE  Written(T!set(tab, i, obj), tab, i, obj)
<1>. DEFINE u == T!set(tab, i, obj)
            E == L!Elements(tab)
<1>1. u = L!set(tab, i, obj)
  BY SameOperators
<1>2. i \in L!Locations(tab)
  BY SameOperators
<1>3. TabSound(u) /\ u.table_size = tab.table_size /\ L!Elements(u) = [E EXCEPT ![i] = obj]
  BY <1>1, <1>2, StorageOfSlots, L!SetSound DEF TabSound
<1>4. DOMAIN E = Numbers(tab)
  BY SameOperators DEF L!Elements
<1>5. /\ Element(u, i) = obj
      /\ \A j \in Numbers(tab) : j # i => Element(u, j) = Element(tab, j)
  BY <1>3, <1>4 DEF Element
<1>6. Numbers(u) = Numbers(tab)
  BY <1>3 DEF Numbers
<1>. HIDE DEF u
<1>7. \A j \in Numbers(tab) :
        /\ T!test(u, j) <=> Element(u, j) # NoSlot
        /\ T!test(u, j) => T!unsafe_get(u, j) = Element(u, j)
        /\ T!test(tab, j) <=> Element(tab, j) # NoSlot
        /\ T!test(tab, j) => T!unsafe_get(tab, j) = Element(tab, j)
  BY <1>3, <1>6, TabReads
<1>8. T!test(u, i) /\ T!unsafe_get(u, i) = obj
  BY <1>5, <1>7, StorageOfSlots
<1>9. Used(u) = Used(tab) \cup {i}
  BY <1>5, <1>6, <1>7, <1>8 DEF Used
<1>10. \A j \in Used(tab) : j # i => T!unsafe_get(u, j) = T!unsafe_get(tab, j)
  BY <1>5, <1>7 DEF Used
<1>. QED
  BY <1>3, <1>8, <1>9, <1>10 DEF Written, u

\* Sparsetables with nothing in them, and one that grows.
Blank(u, n) == TabSound(u) /\ u.table_size = n /\ Used(u) = {}

\* A sparsetable without elements is blank.
LEMMA BlankIs ==
  ASSUME NEW u, NEW n \in Nat, L!TableSound(u), u.table_size = n,
         \A i \in 0 .. n - 1 : L!Elements(u)[i] = NoSlot
  PROVE  Blank(u, n)
<1>1. TabSound(u) /\ Numbers(u) = 0 .. n - 1
  BY DEF TabSound, Numbers
<1>2. \A i \in Numbers(u) : ~T!test(u, i)
  BY <1>1, TabReads DEF Element
<1>. QED
  BY <1>1, <1>2 DEF Blank, Used

\* New and cleared sparsetables are blank, and blank ones stay so as they grow.
LEMMA Blanks ==
  /\ \A n \in Nat : Blank(T!new_sparsetable(n), n)
  /\ \A tab : TabSound(tab) => Blank(T!clear(tab), tab.table_size)
  /\ \A tab : \A m, n \in Nat : Blank(tab, m) /\ m <= n => Blank(T!resize(tab, n), n)
<1>1. ASSUME NEW n \in Nat PROVE Blank(T!new_sparsetable(n), n)
  <2>. DEFINE u == L!new_sparsetable(n)
  <2>1. T!new_sparsetable(n) = u
    BY SameOperators
  <2>2. L!TableSound(u) /\ u.table_size = n /\ L!Elements(u) = [i \in 0 .. n - 1 |-> NoSlot]
    BY StorageOfSlots, L!NewSound
  <2>. HIDE DEF u
  <2>3. Blank(u, n)
    BY <2>2, BlankIs
  <2>. QED
    BY <2>1, <2>3
<1>2. ASSUME NEW tab, TabSound(tab) PROVE Blank(T!clear(tab), tab.table_size)
  <2>. DEFINE u == L!clear(tab)
              n == tab.table_size
  <2>1. T!clear(tab) = u
    BY SameOperators
  <2>2. L!Locations(tab) = 0 .. n - 1 /\ n \in Nat
    BY <1>2, SameOperators, TabFields DEF Numbers
  <2>3. L!TableSound(u) /\ u.table_size = n
        /\ L!Elements(u) = [i \in L!Locations(tab) |-> NoSlot]
    BY <1>2, StorageOfSlots, L!ClearSound DEF TabSound
  <2>. HIDE DEF u
  <2>4. Blank(u, n)
    BY <2>2, <2>3, BlankIs
  <2>. QED
    BY <2>1, <2>4
<1>3. ASSUME NEW tab, NEW m \in Nat, NEW n \in Nat, Blank(tab, m), m <= n
      PROVE  Blank(T!resize(tab, n), n)
  <2>. DEFINE u == L!resize(tab, n)
  <2>1. T!resize(tab, n) = u
    BY SameOperators
  <2>2. L!Locations(tab) = Numbers(tab)
    BY SameOperators
  <2>3. L!TableSound(u) /\ u.table_size = n
        /\ L!Elements(u) = [i \in 0 .. n - 1 |-> IF i \in L!Locations(tab)
                                                 THEN L!Elements(tab)[i] ELSE NoSlot]
    BY <1>3, StorageOfSlots, L!ResizeSound DEF TabSound, Blank
  <2>4. \A i \in Numbers(tab) : L!Elements(tab)[i] = NoSlot
    BY <1>3, TabReads DEF Blank, Used, Element
  <2>. HIDE DEF u
  <2>5. \A i \in 0 .. n - 1 : L!Elements(u)[i] = NoSlot
    BY <2>2, <2>3, <2>4
  <2>6. Blank(u, n)
    BY <2>3, <2>5, BlankIs
  <2>. QED
    BY <2>1, <2>6
<1>. QED
  BY <1>1, <1>2, <1>3

-----------------------------------------------------------------------------
(* The walk over what is assigned, in the order of the bucket numbers.     *)

Spot(tab, i) == T!get_iter(tab, i)
End(tab)     == T!nonempty_end(tab)
Rows(tab)    == Len(tab.groups)

\* The one iterator is behind the other.
Behind(a, b) ==
  \/ a.row < b.row
  \/ a.row = b.row /\ a.col < b.col

\* Where the iterators are, and what they refer to.
LEMMA SpotIs ==
  ASSUME NEW tab, TabSound(tab)
  PROVE  /\ Rows(tab) \in Nat
         /\ End(tab).row = Rows(tab) + 1 /\ End(tab).col = 0
         /\ \A i \in Used(tab) :
              /\ Spot(tab, i).row \in 1 .. Rows(tab) /\ Spot(tab, i).row \in Nat
              /\ Spot(tab, i).col \in Nat
              /\ Spot(tab, i).row = T!group_num(i)
              /\ T!get_pos(tab, Spot(tab, i)) = i
              /\ T!dereference(tab, Spot(tab, i)) = T!unsafe_get(tab, i)
              /\ Spot(tab, i) # End(tab)
<1>1. L!ShapeSound(tab) /\ L!Assigned(tab) = Used(tab)
  BY SameOperators DEF TabSound, L!TableSound, L!Assigned, Used
<1>2. Rows(tab) \in Nat
  BY <1>1, StorageOfSlots, L!RowsAre DEF Rows
<1>3. End(tab).row = Rows(tab) + 1 /\ End(tab).col = 0
  BY DEF End, Rows, T!nonempty_end, T!Iterator, T!row_end
<1>4. ASSUME NEW i \in Used(tab)
      PROVE  /\ Spot(tab, i).row \in 1 .. Rows(tab) /\ Spot(tab, i).row \in Nat
             /\ Spot(tab, i).col \in Nat
             /\ Spot(tab, i).row = T!group_num(i)
             /\ T!get_pos(tab, Spot(tab, i)) = i
             /\ T!dereference(tab, Spot(tab, i)) = T!unsafe_get(tab, i)
             /\ Spot(tab, i) # End(tab)
  <2>1. i \in L!Assigned(tab) /\ i \in Numbers(tab) /\ T!test(tab, i)
    BY <1>1 DEF Used
  <2>2. /\ L!get_pos(tab, L!Stop(tab, i)) = i /\ L!get_iter(tab, i) = L!Stop(tab, i)
        /\ L!dereference(tab, L!Stop(tab, i)) = L!get(tab, i)
        /\ L!Stop(tab, i) # L!nonempty_end(tab)
    BY <1>1, <2>1, StorageOfSlots, L!StopReads
  <2>3. Spot(tab, i) = L!Stop(tab, i)
    BY <2>2, SameOperators DEF Spot
  <2>4. /\ L!Stop(tab, i).row \in 1 .. Len(tab.groups)
        /\ L!Stop(tab, i).row \in Nat /\ L!Stop(tab, i).col \in Nat
    BY <1>1, <2>1, StorageOfSlots, L!RowsAre
  <2>5. L!unsafe_get(tab, i) = L!get(tab, i)
    <3>1. i \in L!Locations(tab) /\ L!test(tab, i)
      BY <2>1, SameOperators
    <3>. QED
      BY <1>1, <3>1, StorageOfSlots, L!ReadIs
  <2>6. L!Stop(tab, i).row = L!group_num(i)
    BY DEF L!Stop, L!Iterator
  <2>. QED
    BY <2>2, <2>3, <2>4, <2>5, <2>6, SameOperators DEF Rows, End
<1>. QED
  BY <1>2, <1>3, <1>4

\* The order of the spots is that of the buckets, and the end is behind them all.
LEMMA SpotsOrdered ==
  ASSUME NEW tab, TabSound(tab)
  PROVE  /\ \A i, j \in Used(tab) : Behind(Spot(tab, i), Spot(tab, j)) <=> i < j
         /\ \A i \in Used(tab) : Behind(Spot(tab, i), End(tab))
         /\ \A i, j \in Used(tab) : Spot(tab, i) = Spot(tab, j) => i = j
<1>1. L!ShapeSound(tab) /\ L!Assigned(tab) = Used(tab)
  BY SameOperators DEF TabSound, L!TableSound, L!Assigned, Used
<1>2. ASSUME NEW i \in Used(tab) PROVE i \in L!Assigned(tab) /\ Spot(tab, i) = L!Stop(tab, i)
  BY <1>1, SameOperators, StorageOfSlots, L!StopReads DEF Spot
<1>3. ASSUME NEW i \in Used(tab), NEW j \in Used(tab)
      PROVE  Behind(Spot(tab, i), Spot(tab, j)) <=> i < j
  <2>1. ASSUME i < j PROVE Behind(Spot(tab, i), Spot(tab, j))
    BY <1>1, <1>2, <2>1, StorageOfSlots, L!StopsOrdered DEF Behind
  <2>2. ASSUME Behind(Spot(tab, i), Spot(tab, j)) PROVE i < j
    BY <1>1, <1>2, <2>2, StorageOfSlots, L!StopsApart DEF Behind
  <2>. QED
    BY <2>1, <2>2
<1>4. ASSUME NEW i \in Used(tab) PROVE Behind(Spot(tab, i), End(tab))
  <2>. DEFINE a == Spot(tab, i)
              b == End(tab)
              n == Rows(tab)
  <2>1. a.row \in 1 .. n /\ b.row = n + 1 /\ n \in Nat
    BY SpotIs
  <2>. HIDE DEF a, b, n
  <2>2. a.row < b.row
    BY <2>1
  <2>. QED
    BY <2>2 DEF Behind, a, b
<1>5. ASSUME NEW i \in Used(tab), NEW j \in Used(tab), Spot(tab, i) = Spot(tab, j)
      PROVE  i = j
  BY <1>5, SpotIs
<1>. QED
  BY <1>3, <1>4, <1>5

\* What a walk comes to from the front, and from one spot on.
LEMMA TabWalk ==
  ASSUME NEW tab, TabSound(tab)
  PROVE  /\ \/ Used(tab) = {} /\ T!nonempty_begin(tab) = End(tab)
            \/ \E i \in Used(tab) : /\ T!nonempty_begin(tab) = Spot(tab, i)
                                    /\ \A x \in Used(tab) : i <= x
         /\ \A i \in Used(tab) :
              \/ /\ T!increment(tab, Spot(tab, i)) = End(tab)
                 /\ \A x \in Used(tab) : ~(i < x)
              \/ \E j \in Used(tab) : /\ T!increment(tab, Spot(tab, i)) = Spot(tab, j)
                                      /\ i < j /\ \A x \in Used(tab) : ~(i < x /\ x < j)
<1>1. L!ShapeSound(tab) /\ L!Assigned(tab) = Used(tab)
  BY SameOperators DEF TabSound, L!TableSound, L!Assigned, Used
<1>2. \A i \in Used(tab) : Spot(tab, i) = L!Stop(tab, i)
  BY <1>1, SameOperators, StorageOfSlots, L!StopReads DEF Spot
<1>3. End(tab) = L!nonempty_end(tab)
  BY SameOperators DEF End
<1>4. \/ Used(tab) = {} /\ T!nonempty_begin(tab) = End(tab)
      \/ \E i \in Used(tab) : /\ T!nonempty_begin(tab) = Spot(tab, i)
                              /\ \A x \in Used(tab) : i <= x
  <2>1. \/ L!Assigned(tab) = {} /\ L!nonempty_begin(tab) = L!nonempty_end(tab)
        \/ \E i \in L!Assigned(tab) : /\ L!nonempty_begin(tab) = L!Stop(tab, i)
                                      /\ \A x \in L!Assigned(tab) : i <= x
    BY <1>1, StorageOfSlots, L!WalkBegins
  <2>2. T!nonempty_begin(tab) = L!nonempty_begin(tab)
    BY SameOperators
  <2>. QED
    BY <1>1, <1>2, <1>3, <2>1, <2>2
<1>5. ASSUME NEW i \in Used(tab)
      PROVE  \/ /\ T!increment(tab, Spot(tab, i)) = End(tab)
                /\ \A x \in Used(tab) : ~(i < x)
             \/ \E j \in Used(tab) : /\ T!increment(tab, Spot(tab, i)) = Spot(tab, j)
                                     /\ i < j /\ \A x \in Used(tab) : ~(i < x /\ x < j)
  <2>. DEFINE to == L!increment(tab, L!Stop(tab, i))
  <2>1. \/ to = L!nonempty_end(tab) /\ \A x \in L!Assigned(tab) : ~(i < x)
        \/ \E j \in L!Assigned(tab) : to = L!Stop(tab, j) /\ L!Follows(tab, i, j)
    BY <1>1, StorageOfSlots, L!WalkGoesOn
  <2>2. T!increment(tab, Spot(tab, i)) = to
    BY <1>2, SameOperators
  <2>. HIDE DEF to
  <2>. QED
    BY <1>1, <1>2, <1>3, <2>1, <2>2 DEF L!Follows
<1>. QED
  BY <1>4, <1>5

-----------------------------------------------------------------------------
(* A sparsetable whose rows in front of r a destructive iterator has freed. *)

Remains(tab, r) == T!destroy_rows(tab, 1, r)

\* What is left of a sparsetable once the groups before r are freed: all of the
\* elements behind them, where they were.
LEMMA RemainsRead ==
  ASSUME NEW tab, TabSound(tab), NEW r \in 1 .. Rows(tab) + 1
  PROVE  LET d == Remains(tab, r)
         IN  /\ d.table_size = tab.table_size /\ d.num_buckets = tab.num_buckets
             /\ Rows(d) = Rows(tab) /\ End(d) = End(tab)
             /\ \A g \in 1 .. Rows(tab) : g < r => d.groups[g] = T!new_group
             /\ Used(d) = {i \in Used(tab) : r <= Spot(tab, i).row}
             /\ \A i \in Used(d) : /\ T!unsafe_get(d, i) = T!unsafe_get(tab, i)
                                   /\ Spot(d, i) = Spot(tab, i)
<1>. DEFINE d == Remains(tab, r)
<1>1. L!ShapeSound(tab) /\ d = L!destroy_rows(tab, 1, r) /\ r \in 1 .. Len(tab.groups) + 1
  BY SameOperators DEF TabSound, L!TableSound, Remains, Rows
<1>2. /\ d.table_size = tab.table_size /\ d.num_buckets = tab.num_buckets
      /\ Len(d.groups) = Len(tab.groups)
      /\ \A g \in 1 .. Len(tab.groups) :
           d.groups[g] = IF g < r THEN L!new_group ELSE tab.groups[g]
      /\ L!nonempty_end(d) = L!nonempty_end(tab)
  BY <1>1, StorageOfSlots, L!Destroyed
<1>3. ASSUME NEW i \in Numbers(tab)
      PROVE  /\ T!test(d, i) <=> T!test(tab, i) /\ r <= T!group_num(i)
             /\ r <= T!group_num(i) => /\ T!unsafe_get(d, i) = T!unsafe_get(tab, i)
                                       /\ Spot(d, i) = Spot(tab, i)
  <2>1. i \in L!Locations(tab)
    BY SameOperators
  <2>2. /\ L!test(d, i) <=> L!test(tab, i) /\ r <= L!group_num(i)
        /\ r <= L!group_num(i) => L!unsafe_get(d, i) = L!unsafe_get(tab, i)
                                  /\ L!get_iter(d, i) = L!get_iter(tab, i)
    BY <1>1, <2>1, StorageOfSlots, L!DestroyedReads
  <2>. HIDE DEF d
  <2>. QED
    BY <2>2, SameOperators DEF Spot
<1>4. Numbers(d) = Numbers(tab)
  BY <1>2 DEF Numbers
<1>. HIDE DEF d
<1>5. \A i \in Used(tab) : Spot(tab, i).row = T!group_num(i)
  BY SpotIs
<1>6. Used(d) = {i \in Used(tab) : r <= Spot(tab, i).row}
  BY <1>3, <1>4, <1>5 DEF Used
<1>7. \A i \in Used(d) : /\ T!unsafe_get(d, i) = T!unsafe_get(tab, i)
                         /\ Spot(d, i) = Spot(tab, i)
  BY <1>3, <1>4 DEF Used
<1>8. Rows(d) = Rows(tab) /\ End(d) = End(tab)
  BY <1>2, SameOperators DEF Rows, End
<1>9. \A g \in 1 .. Rows(tab) : g < r => d.groups[g] = T!new_group
  BY <1>2, SameOperators DEF Rows
<1>. QED
  BY <1>2, <1>6, <1>7, <1>8, <1>9 DEF d

\* From a spot that remains, the walk goes on as it would have.
LEMMA RemainsWalk ==
  ASSUME NEW tab, TabSound(tab), NEW r \in 1 .. Rows(tab) + 1,
         NEW it, it.row \in r .. Rows(tab)
  PROVE  /\ T!dereference(Remains(tab, r), it) = T!dereference(tab, it)
         /\ T!increment(Remains(tab, r), it) = T!increment(tab, it)
<1>. DEFINE d == Remains(tab, r)
<1>1. /\ L!ShapeSound(tab) /\ d = L!destroy_rows(tab, 1, r)
      /\ r \in 1 .. Len(tab.groups) + 1 /\ it.row \in r .. Len(tab.groups)
  BY SameOperators DEF TabSound, L!TableSound, Remains, Rows
<1>2. L!dereference(d, it) = L!dereference(tab, it) /\ L!increment(d, it) = L!increment(tab, it)
  BY <1>1, StorageOfSlots, L!DestroyedWalk
<1>. HIDE DEF d
<1>3. T!dereference(d, it) = T!dereference(tab, it) /\ T!increment(d, it) = T!increment(tab, it)
  BY <1>2, SameOperators
<1>. QED
  BY <1>3 DEF d

\* Freeing the groups from r to s, when those before r are freed already.
LEMMA RemainsOn ==
  ASSUME NEW tab, TabSound(tab), NEW r \in 1 .. Rows(tab) + 1, NEW s \in r .. Rows(tab) + 1
  PROVE  T!destroy_rows(Remains(tab, r), r, s) = Remains(tab, s)
<1>1. L!ShapeSound(tab) /\ r \in 1 .. Len(tab.groups) + 1 /\ s \in r .. Len(tab.groups) + 1
  BY DEF TabSound, L!TableSound, Rows
<1>2. L!destroy_rows(L!destroy_rows(tab, 1, r), r, s) = L!destroy_rows(tab, 1, s)
  BY <1>1, StorageOfSlots, L!DestroyedOn
<1>. DEFINE d == L!destroy_rows(tab, 1, r)
<1>3. T!destroy_rows(tab, 1, r) = d /\ T!destroy_rows(tab, 1, s) = L!destroy_rows(tab, 1, s)
  BY SameOperators
<1>4. T!destroy_rows(d, r, s) = L!destroy_rows(d, r, s)
  <2>. HIDE DEF d
  <2>. QED
    BY SameOperators
<1>. QED
  BY <1>2, <1>3, <1>4 DEF Remains

-----------------------------------------------------------------------------
(* Sound tables.                                                           *)

IsTable(t) ==
  /\ t = [settings |-> t.settings, delkey |-> t.delkey,
          num_deleted |-> t.num_deleted, table |-> t.table]
  /\ t.settings \in Settings /\ t.delkey \in Key /\ t.num_deleted \in Nat
  /\ TabSound(t.table)

\* Some size has room for as many objects as there can be.
RoomFor(s) == \E n \in BucketCounts : MaxSize < enlarge_size(s, n)

\* The elements with the deleted key, which are deleted if that is in use.
Marked(t) ==
  IF t.settings.use_deleted
  THEN {i \in Used(t.table) : object(t, i).key = t.delkey} ELSE {}

\* No bucket before j on the probe sequence of the key in j is empty: its
\* search does not end before it comes by.
Reached(t, j) ==
  \E p \in Buckets(t) :
    /\ Probe(object(t, j).key, p, bucket_count(t)) = j
    /\ \A q \in 0 .. p - 1 : ~test_empty(t, Probe(object(t, j).key, q, bucket_count(t)))

\* No two live objects have the same key.
NoneTwice(t) ==
  \A i, j \in LiveBuckets(t) : object(t, i).key = object(t, j).key => i = j

\* The thresholds are those of the present size and factors.
InSync(t) ==
  /\ t.settings.enlarge_threshold = enlarge_size(t.settings, bucket_count(t))
  /\ t.settings.shrink_threshold = shrink_size(t.settings, bucket_count(t))

Sound(t) ==
  /\ IsTable(t) /\ bucket_count(t) \in BucketCounts
  /\ RoomFor(t.settings)
  /\ size(t) <= MaxSize
  /\ t.num_deleted = Cardinality(Marked(t))
  /\ NoneTwice(t)
  /\ \A j \in LiveBuckets(t) : Reached(t, j)
  /\ InSync(t)

\* The objects in a table.
Objects(t) == {object(t, i) : i \in LiveBuckets(t)}

\* The fields of a table, named.
LEMMA Fields ==
  ASSUME NEW t, IsTable(t)
  PROVE  /\ t.settings \in Settings /\ t.settings.enlarge_factor \in Percent
         /\ t.settings.shrink_factor \in Percent
         /\ t.delkey \in Key /\ t.num_deleted \in Nat
         /\ bucket_count(t) \in Nat
         /\ Buckets(t) = 0 .. bucket_count(t) - 1 /\ Buckets(t) = Numbers(t.table)
         /\ IsFiniteSet(Used(t.table)) /\ num_nonempty(t) = Cardinality(Used(t.table))
         /\ num_nonempty(t) \in Nat
         /\ Used(t.table) = {i \in Buckets(t) : ~test_empty(t, i)}
         /\ \A i \in Used(t.table) : object(t, i) \in Slot /\ object(t, i).key \in Key
<1>1. /\ t.table.table_size \in Nat
      /\ IsFiniteSet(Used(t.table)) /\ t.table.num_buckets = Cardinality(Used(t.table))
      /\ t.table.num_buckets \in Nat
  BY TabFields DEF IsTable
<1>2. Buckets(t) = Numbers(t.table)
  BY SameOperators DEF Buckets
<1>3. \A i \in Used(t.table) : object(t, i) \in Slot
  BY TabReads DEF IsTable, Used, object
<1>4. /\ t.settings \in Settings /\ t.settings.enlarge_factor \in Percent
      /\ t.settings.shrink_factor \in Percent
      /\ t.delkey \in Key /\ t.num_deleted \in Nat
  BY DEF IsTable, Settings
<1>5. \A i \in Used(t.table) : object(t, i).key \in Key
  BY <1>3 DEF Slot
<1>6. Used(t.table) = {i \in Buckets(t) : ~test_empty(t, i)}
  BY <1>2 DEF Used, test_empty
<1>. QED
  BY <1>1, <1>2, <1>3, <1>4, <1>5, <1>6 DEF bucket_count, num_nonempty, Numbers

\* New thresholds are numbers; nothing else changes but consider_shrink.
LEMMA ResetTyped ==
  ASSUME NEW s \in Settings, NEW n \in Nat
  PROVE  LET r == reset_thresholds(s, n)
         IN  /\ r \in Settings
             /\ r.enlarge_factor = s.enlarge_factor /\ r.shrink_factor = s.shrink_factor
             /\ r.use_deleted = s.use_deleted
             /\ r.enlarge_threshold = enlarge_size(r, n)
             /\ r.shrink_threshold = shrink_size(r, n)
<1>1. \A f \in Percent : (n * f) \div 100 \in Nat
  <2>1. \A f \in Percent : n * f \in Nat
    BY DEF Percent
  <2>2. \A x \in Nat : x \div 100 \in Nat
    OBVIOUS
  <2>. QED
    BY <2>1, <2>2
<1>2. enlarge_size(s, n) \in Nat /\ shrink_size(s, n) \in Nat
  BY <1>1 DEF enlarge_size, shrink_size, Settings
<1>. DEFINE r == reset_thresholds(s, n)
<1>3. /\ r \in Settings
      /\ r.enlarge_factor = s.enlarge_factor /\ r.shrink_factor = s.shrink_factor
      /\ r.use_deleted = s.use_deleted
      /\ r.enlarge_threshold = enlarge_size(s, n) /\ r.shrink_threshold = shrink_size(s, n)
  BY <1>2 DEF reset_thresholds, Settings
<1>. HIDE DEF r
<1>4. enlarge_size(r, n) = enlarge_size(s, n) /\ shrink_size(r, n) = shrink_size(s, n)
  BY <1>3 DEF enlarge_size, shrink_size
<1>. QED
  BY <1>3, <1>4 DEF r

\* Only the grow factor matters for room.
LEMMA SameRoom ==
  ASSUME NEW s, NEW u, RoomFor(s), u.enlarge_factor = s.enlarge_factor
  PROVE  RoomFor(u)
  BY DEF RoomFor, enlarge_size

\* Where num_deleted counts, the live buckets are those in use and not marked,
\* and size() counts them.
LEMMA LiveCount ==
  ASSUME NEW t, IsTable(t), t.num_deleted = Cardinality(Marked(t))
  PROVE  /\ LiveBuckets(t) = Used(t.table) \ Marked(t)
         /\ Marked(t) \subseteq Used(t.table) /\ IsFiniteSet(Marked(t))
         /\ \A i \in Buckets(t) : test_deleted(t, i) <=> i \in Marked(t)
         /\ LiveBuckets(t) \subseteq Buckets(t)
         /\ IsFiniteSet(LiveBuckets(t)) /\ Cardinality(LiveBuckets(t)) = size(t)
         /\ size(t) \in Nat
<1>. DEFINE used == Used(t.table)
<1>1. /\ t.num_deleted \in Nat /\ IsFiniteSet(used)
      /\ used = {i \in Buckets(t) : ~test_empty(t, i)}
      /\ num_nonempty(t) = Cardinality(used)
  BY Fields
<1>2. Marked(t) \subseteq used /\ IsFiniteSet(Marked(t))
  <2>1. Marked(t) \subseteq used
    BY DEF Marked
  <2>. QED
    BY <1>1, <2>1, FS_Subset
<1>3. ASSUME NEW i \in Buckets(t) PROVE test_deleted(t, i) <=> i \in Marked(t)
  <2>1. ASSUME i \in Marked(t) PROVE test_deleted(t, i)
    <3>1. Cardinality(Marked(t)) # 0
      BY <1>2, <2>1, FS_EmptySet
    <3>2. t.num_deleted > 0
      BY <1>1, <3>1
    <3>. QED
      BY <2>1, <3>2 DEF Marked, test_deleted, Used
  <2>2. ASSUME i \notin Marked(t), test_deleted(t, i) PROVE FALSE
    <3>1. t.num_deleted > 0 /\ object(t, i).key = t.delkey /\ i \in used
      BY <1>1, <2>2 DEF test_deleted, test_empty
    <3>2. Marked(t) = {}
      BY <2>2, <3>1 DEF Marked
    <3>3. Cardinality(Marked(t)) = 0
      BY <3>2, FS_EmptySet
    <3>. QED
      BY <3>1, <3>3
  <2>. QED
    BY <2>1, <2>2
<1>4. LiveBuckets(t) = used \ Marked(t) /\ LiveBuckets(t) \subseteq Buckets(t)
  BY <1>1, <1>3 DEF LiveBuckets
<1>5. Cardinality(LiveBuckets(t)) = Cardinality(used) - Cardinality(Marked(t))
  <2>1. Cardinality(used \ Marked(t)) = Cardinality(used) - Cardinality(used \cap Marked(t))
    BY <1>1, FS_Difference
  <2>2. used \cap Marked(t) = Marked(t)
    BY <1>2
  <2>. QED
    BY <1>4, <2>1, <2>2
<1>6. IsFiniteSet(LiveBuckets(t)) /\ Cardinality(LiveBuckets(t)) \in Nat
  BY <1>1, <1>4, FS_Subset, FS_CardinalityType
<1>. HIDE DEF used
<1>7. Cardinality(LiveBuckets(t)) = size(t)
  BY <1>1, <1>5 DEF size
<1>. QED
  BY <1>2, <1>3, <1>4, <1>6, <1>7 DEF used

\* What every lemma about a sound table starts from.
LEMMA SoundFields ==
  ASSUME NEW t, Sound(t)
  PROVE  /\ IsTable(t) /\ bucket_count(t) \in BucketCounts /\ bucket_count(t) \in Nat \ {0}
         /\ t.settings \in Settings /\ RoomFor(t.settings)
         /\ t.delkey \in Key /\ t.num_deleted \in Nat /\ num_nonempty(t) \in Nat
         /\ size(t) \in Nat /\ size(t) <= MaxSize /\ MaxSize \in Nat
         /\ size(t) + t.num_deleted = num_nonempty(t)
<1>1. /\ IsTable(t) /\ bucket_count(t) \in BucketCounts
      /\ RoomFor(t.settings) /\ size(t) <= MaxSize
      /\ t.num_deleted = Cardinality(Marked(t))
  BY DEF Sound
<1>2. /\ t.settings \in Settings /\ t.delkey \in Key /\ t.num_deleted \in Nat
      /\ num_nonempty(t) \in Nat
  BY <1>1, Fields
<1>3. bucket_count(t) \in Nat \ {0}
  BY <1>1, BucketCountIsPower
<1>4. size(t) \in Nat
  BY <1>1, LiveCount
<1>5. size(t) + t.num_deleted = num_nonempty(t)
  BY <1>2 DEF size
<1>. QED
  BY <1>1, <1>2, <1>3, <1>4, <1>5, KeysAssumption

\* Where the live buckets of a sound table are, and what is in them.
LEMMA SoundLive ==
  ASSUME NEW t, Sound(t)
  PROVE  /\ LiveBuckets(t) = Used(t.table) \ Marked(t)
         /\ \A i \in Buckets(t) : test_deleted(t, i) <=> i \in Marked(t)
         /\ LiveBuckets(t) \subseteq Buckets(t)
         /\ IsFiniteSet(LiveBuckets(t)) /\ Cardinality(LiveBuckets(t)) = size(t)
         /\ \A i \in LiveBuckets(t) :
              /\ object(t, i) \in Slot /\ object(t, i).key \in Key
              /\ t.settings.use_deleted => object(t, i).key # t.delkey
<1>1. IsTable(t) /\ t.num_deleted = Cardinality(Marked(t))
  BY DEF Sound
<1>2. /\ LiveBuckets(t) = Used(t.table) \ Marked(t)
      /\ \A i \in Buckets(t) : test_deleted(t, i) <=> i \in Marked(t)
      /\ LiveBuckets(t) \subseteq Buckets(t)
      /\ IsFiniteSet(LiveBuckets(t)) /\ Cardinality(LiveBuckets(t)) = size(t)
  BY <1>1, LiveCount
<1>3. \A i \in LiveBuckets(t) : object(t, i) \in Slot /\ object(t, i).key \in Key
  BY <1>1, <1>2, Fields
<1>4. \A i \in LiveBuckets(t) : t.settings.use_deleted => object(t, i).key # t.delkey
  BY <1>2 DEF Marked
<1>. QED
  BY <1>2, <1>3, <1>4

\* As long as there is room for MaxSize objects, min_buckets finds a size.
LEMMA RoomyEnough ==
  ASSUME NEW s \in Settings, RoomFor(s), NEW num \in Nat, num <= MaxSize,
         NEW m \in BucketCounts, NEW wanted \in Nat, wanted <= m
  PROVE  /\ min_buckets(s, num, wanted) \in BucketCounts
         /\ wanted <= min_buckets(s, num, wanted)
         /\ num < enlarge_size(s, min_buckets(s, num, wanted))
         /\ num < min_buckets(s, num, wanted)
<1>1. s.enlarge_factor \in Percent
  BY DEF Settings
<1>2. PICK n \in BucketCounts : MaxSize < enlarge_size(s, n)
  BY DEF RoomFor
<1>3. num < enlarge_size(s, n)
  <2>1. n \in Nat /\ enlarge_size(s, n) \in Nat
    BY <1>1, BucketCountIsPower, EnlargeGrows
  <2>. QED
    BY <1>2, <2>1, KeysAssumption
<1>. DEFINE b == min_buckets(s, num, wanted)
<1>4. b \in BucketCounts /\ wanted <= b /\ num < enlarge_size(s, b)
  BY <1>1, <1>3, MinBuckets
<1>. HIDE DEF b
<1>5. b \in Nat /\ enlarge_size(s, b) \in Nat /\ enlarge_size(s, b) <= b
  BY <1>1, <1>4, BucketCountIsPower, EnlargeGrows
<1>6. num < b
  BY <1>4, <1>5
<1>. QED
  BY <1>4, <1>6 DEF b

\* u has the objects, the reserved key and the grow factor of t.
SameReserved(u, t) ==
  /\ u.delkey = t.delkey
  /\ u.settings.use_deleted = t.settings.use_deleted
  /\ u.settings.enlarge_factor = t.settings.enlarge_factor

SameMap(u, t) == SameReserved(u, t) /\ Objects(u) = Objects(t) /\ size(u) = size(t)

\* A change of thresholds, factors or the wish to shrink changes nothing else.
LEMMA SettingsOnly ==
  ASSUME NEW t, Sound(t), NEW u, IsTable(u),
         u.table = t.table, u.delkey = t.delkey, u.num_deleted = t.num_deleted,
         u.settings.use_deleted = t.settings.use_deleted,
         RoomFor(u.settings), InSync(u)
  PROVE  /\ Sound(u) /\ Objects(u) = Objects(t) /\ size(u) = size(t)
         /\ LiveBuckets(u) = LiveBuckets(t) /\ num_nonempty(u) = num_nonempty(t)
         /\ bucket_count(u) = bucket_count(t)
<1>1. /\ Buckets(u) = Buckets(t) /\ bucket_count(u) = bucket_count(t)
      /\ num_nonempty(u) = num_nonempty(t)
      /\ \A i : object(u, i) = object(t, i) /\ (test_empty(u, i) <=> test_empty(t, i))
  BY DEF Buckets, bucket_count, num_nonempty, object, test_empty
<1>2. /\ LiveBuckets(u) = LiveBuckets(t) /\ Marked(u) = Marked(t) /\ size(u) = size(t)
  BY <1>1 DEF LiveBuckets, Marked, test_deleted, size
<1>3. Sound(u)
  BY <1>1, <1>2 DEF Sound, NoneTwice, Reached
<1>4. Objects(u) = Objects(t)
  BY <1>1, <1>2 DEF Objects
<1>. QED
  BY <1>1, <1>2, <1>3, <1>4

\* The fields of a table whose thresholds are recomputed.
LEMMA ThresholdsOf ==
  ASSUME NEW t, IsTable(t)
  PROVE  LET u == thresholds_of(t)
         IN  /\ IsTable(u) /\ u.table = t.table /\ u.delkey = t.delkey
             /\ u.num_deleted = t.num_deleted /\ SameReserved(u, t) /\ InSync(u)
             /\ u.settings.shrink_factor = t.settings.shrink_factor
<1>. DEFINE r == reset_thresholds(t.settings, bucket_count(t))
            u == thresholds_of(t)
<1>1. /\ r \in Settings
      /\ r.enlarge_factor = t.settings.enlarge_factor
      /\ r.shrink_factor = t.settings.shrink_factor
      /\ r.use_deleted = t.settings.use_deleted
      /\ r.enlarge_threshold = enlarge_size(r, bucket_count(t))
      /\ r.shrink_threshold = shrink_size(r, bucket_count(t))
  BY Fields, ResetTyped
<1>2. u = [t EXCEPT !.settings = r]
  BY DEF thresholds_of
<1>. HIDE DEF r
<1>3. /\ u.settings = r /\ u.table = t.table /\ u.delkey = t.delkey
      /\ u.num_deleted = t.num_deleted
      /\ u = [settings |-> u.settings, delkey |-> u.delkey,
              num_deleted |-> u.num_deleted, table |-> u.table]
  BY <1>2 DEF IsTable
<1>. HIDE DEF u
<1>4. IsTable(u)
  BY <1>1, <1>3 DEF IsTable
<1>5. InSync(u)
  BY <1>1, <1>3 DEF InSync, bucket_count
<1>. QED
  BY <1>1, <1>3, <1>4, <1>5 DEF SameReserved, u

\* What swap hands over.
LEMMA SwappedSound ==
  ASSUME NEW t, Sound(t)
  PROVE  LET u == swapped(t)
         IN  /\ Sound(u) /\ SameMap(u, t) /\ u.num_deleted = t.num_deleted
             /\ num_nonempty(u) = num_nonempty(t) /\ bucket_count(u) = bucket_count(t)
             /\ LiveBuckets(u) = LiveBuckets(t) /\ u.table = t.table
<1>. DEFINE u == swapped(t)
<1>1. /\ IsTable(u) /\ u.table = t.table /\ u.delkey = t.delkey
      /\ u.num_deleted = t.num_deleted /\ SameReserved(u, t) /\ InSync(u)
  BY ThresholdsOf DEF swapped, Sound
<1>. HIDE DEF u
<1>2. RoomFor(u.settings)
  BY <1>1, SameRoom DEF SameReserved, Sound
<1>3. /\ Sound(u) /\ Objects(u) = Objects(t) /\ size(u) = size(t)
      /\ LiveBuckets(u) = LiveBuckets(t) /\ num_nonempty(u) = num_nonempty(t)
      /\ bucket_count(u) = bucket_count(t)
  BY <1>1, <1>2, SettingsOnly DEF SameReserved
<1>. QED
  BY <1>1, <1>3 DEF SameMap, u

\* A table of no objects is sound.
LEMMA BlankSound ==
  ASSUME NEW u, IsTable(u), bucket_count(u) \in BucketCounts, RoomFor(u.settings),
         InSync(u), Used(u.table) = {}, u.num_deleted = 0
  PROVE  /\ Sound(u) /\ Objects(u) = {} /\ size(u) = 0 /\ num_nonempty(u) = 0
         /\ LiveBuckets(u) = {}
<1>1. Marked(u) = {}
  BY DEF Marked
<1>2. Cardinality(Marked(u)) = 0 /\ num_nonempty(u) = 0
  BY <1>1, Fields, FS_EmptySet
<1>3. LiveBuckets(u) = {}
  BY <1>2, LiveCount
<1>4. size(u) = 0 /\ size(u) <= MaxSize
  BY <1>2, KeysAssumption DEF size
<1>5. Sound(u)
  BY <1>2, <1>3, <1>4 DEF Sound, NoneTwice
<1>. QED
  BY <1>2, <1>3, <1>4, <1>5 DEF Objects

-----------------------------------------------------------------------------
(* Searching.                                                              *)

\* The probes for a key see every bucket.
LEMMA ProbesEveryBucket ==
  ASSUME NEW n \in BucketCounts, NEW k \in Key
  PROVE  {Probe(k, i, n) : i \in 0 .. n - 1} = 0 .. n - 1
<1>1. Hash[k] \in Nat
  BY KeysAssumption
<1>2. {Probed(Hash[k], i, n) : i \in 0 .. n - 1} = 0 .. n - 1
  BY <1>1, ProbesSeeAll
<1>3. \A i \in 0 .. n - 1 : Probe(k, i, n) = Probed(Hash[k], i, n)
  BY DEF Probe, Probed, Triangle
<1>. QED
  BY <1>2, <1>3

\* So every probe is a bucket, which ILLEGAL_BUCKET is not.
LEMMA ProbesAreBuckets ==
  ASSUME NEW t, IsTable(t), bucket_count(t) \in BucketCounts, NEW k \in Key
  PROVE  /\ \A i \in Buckets(t) : Probe(k, i, bucket_count(t)) \in Buckets(t)
         /\ \A b \in Buckets(t) : \E i \in Buckets(t) : Probe(k, i, bucket_count(t)) = b
         /\ \A b \in Buckets(t) : b # ILLEGAL_BUCKET /\ b \in Nat
<1>. DEFINE n == bucket_count(t)
<1>1. Buckets(t) = 0 .. n - 1 /\ n \in Nat
  BY Fields
<1>2. n <= SizeMax
  BY SizesAssumption DEF BucketCounts
<1>. HIDE DEF n
<1>3. \A b \in Buckets(t) : b # ILLEGAL_BUCKET /\ b \in Nat
  BY <1>1, <1>2, SizesAssumption DEF ILLEGAL_BUCKET
<1>4. n \in BucketCounts
  BY DEF n
<1>5. {Probe(k, i, n) : i \in 0 .. n - 1} = 0 .. n - 1
  BY <1>4, ProbesEveryBucket
<1>. QED
  BY <1>1, <1>3, <1>5 DEF n

\* A table with fewer elements than buckets has an empty bucket.
LEMMA SomeEmpty ==
  ASSUME NEW t, IsTable(t), num_nonempty(t) < bucket_count(t)
  PROVE  \E b \in Buckets(t) : test_empty(t, b)
<1>. DEFINE n == bucket_count(t)
<1>1. /\ n \in Nat /\ Buckets(t) = 0 .. n - 1
      /\ Used(t.table) = {i \in Buckets(t) : ~test_empty(t, i)}
      /\ num_nonempty(t) = Cardinality(Used(t.table))
  BY Fields
<1>2. Cardinality(0 .. n - 1) = n
  <2>. HIDE DEF n
  <2>. QED
    BY <1>1, FS_Interval
<1>3. Used(t.table) # Buckets(t)
  <2>1. num_nonempty(t) # n
    BY <1>1, Fields
  <2>. HIDE DEF n
  <2>. QED
    BY <1>1, <1>2, <2>1
<1>. QED
  BY <1>1, <1>3

\* An object of key k may be put in bucket pos: no object has that key, the
\* bucket is free and the search for the key comes by.
Free(t, k, pos) ==
  /\ pos \in Buckets(t)
  /\ test_empty(t, pos) \/ test_deleted(t, pos)
  /\ \A j \in LiveBuckets(t) : object(t, j).key # k
  /\ \E p \in Buckets(t) :
       /\ Probe(k, p, bucket_count(t)) = pos
       /\ \A q \in 0 .. p - 1 : ~test_empty(t, Probe(k, q, bucket_count(t)))

\* What find_position answers: the one bucket with the key, or one that is
\* free for it, or neither.
LEMMA FindPosition ==
  ASSUME NEW t, Sound(t), NEW k \in Key
  PROVE  LET p == find_position(t, k)
         IN  /\ p.first # ILLEGAL_BUCKET =>
                  p.first \in LiveBuckets(t) /\ object(t, p.first).key = k
             /\ p.first = ILLEGAL_BUCKET /\ p.second # ILLEGAL_BUCKET =>
                  Free(t, k, p.second)
<1>. DEFINE n        == bucket_count(t)
            at(i)    == Probe(k, i, n)
            stops    == {i \in Buckets(t) : test_empty(t, at(i)) \/ holds(t, at(i), k)}
            last     == Min(stops)
            reusable == {i \in 0 .. last : test_deleted(t, at(i))} \cup {last}
            least    == Min(reusable)
            p        == find_position(t, k)
<1>1. /\ IsTable(t) /\ n \in BucketCounts /\ n \in Nat /\ Buckets(t) = 0 .. n - 1
      /\ \A j \in LiveBuckets(t) : Reached(t, j)
  BY SoundFields, Fields DEF Sound
<1>2. /\ \A i \in Buckets(t) : at(i) \in Buckets(t)
      /\ \A b \in Buckets(t) : b # ILLEGAL_BUCKET /\ b \in Nat
  BY <1>1, ProbesAreBuckets
<1>3. p = IF stops = {}
          THEN [first |-> ILLEGAL_BUCKET, second |-> ILLEGAL_BUCKET]
          ELSE IF test_empty(t, at(last))
          THEN [first |-> ILLEGAL_BUCKET, second |-> at(least)]
          ELSE [first |-> at(last), second |-> ILLEGAL_BUCKET]
  BY DEF find_position, position
<1>. HIDE DEF p
<1>4. CASE stops = {}
  <2>1. p = [first |-> ILLEGAL_BUCKET, second |-> ILLEGAL_BUCKET]
    BY <1>3, <1>4
  <2>2. p.first = ILLEGAL_BUCKET /\ p.second = ILLEGAL_BUCKET
    BY <2>1
  <2>. QED
    BY <2>2 DEF p
<1>5. CASE stops # {}
  <2>1. stops \in SUBSET Nat
    BY <1>1
  <2>2. last \in stops /\ \A i \in stops : last <= i
    BY <1>5, <2>1, MinIsMember
  <2>3. last \in Buckets(t) /\ last \in Nat /\ last <= n - 1
    BY <1>1, <2>2
  <2>. HIDE DEF last, n
  <2>4. CASE ~test_empty(t, at(last))
    <3>1. holds(t, at(last), k)
      BY <2>2, <2>4
    <3>2. at(last) \in LiveBuckets(t) /\ object(t, at(last)).key = k
      BY <1>2, <2>3, <3>1 DEF LiveBuckets, holds
    <3>3. p.first = at(last) /\ p.second = ILLEGAL_BUCKET
      BY <1>3, <1>5, <2>4
    <3>. QED
      BY <1>2, <2>3, <3>2, <3>3 DEF p
  <2>5. CASE test_empty(t, at(last))
    <3>1. reusable \in SUBSET Nat /\ last \in reusable
      BY <2>3
    <3>2. least \in reusable /\ \A i \in reusable : least <= i
      BY <3>1, MinIsMember
    <3>3. least \in 0 .. last /\ least \in Buckets(t)
      BY <1>1, <2>3, <3>2
    <3>4. test_empty(t, at(least)) \/ test_deleted(t, at(least))
      BY <2>5, <3>2
    <3>. HIDE DEF least
    <3>5. ASSUME NEW q \in 0 .. last - 1 PROVE ~test_empty(t, at(q))
      <4>1. q \in Buckets(t) /\ ~(last <= q)
        BY <1>1, <2>3
      <4>. QED
        BY <2>2, <4>1
    <3>6. \A q \in 0 .. least - 1 : ~test_empty(t, at(q))
      BY <2>3, <3>3, <3>5
    <3>7. ASSUME NEW j \in LiveBuckets(t), object(t, j).key = k PROVE FALSE
      <4>1. PICK r \in Buckets(t) : at(r) = j /\ \A q \in 0 .. r - 1 : ~test_empty(t, at(q))
        BY <1>1, <3>7 DEF Reached, n
      <4>2. ~test_empty(t, j) /\ ~test_deleted(t, j)
        BY DEF LiveBuckets
      <4>3. r \in stops
        BY <3>7, <4>1, <4>2 DEF holds
      <4>4. last # r /\ last <= r
        BY <2>2, <2>5, <4>1, <4>2, <4>3
      <4>5. last \in 0 .. r - 1
        <5>1. r \in Nat
          BY <1>1, <4>1
        <5>. QED
          BY <2>3, <4>4, <5>1
      <4>. QED
        BY <2>5, <4>1, <4>5
    <3>8. Free(t, k, at(least))
      BY <1>2, <3>3, <3>4, <3>6, <3>7 DEF Free, n
    <3>9. p.first = ILLEGAL_BUCKET /\ p.second = at(least)
      BY <1>3, <1>5, <2>5
    <3>. QED
      BY <3>8, <3>9 DEF p
  <2>. QED
    BY <2>4, <2>5
<1>. QED
  BY <1>4, <1>5

\* In a table with an empty bucket every search ends, in any table that for a
\* key that is there, and finds what is there.
LEMMA Lookups ==
  ASSUME NEW t, Sound(t), NEW k \in Key,
         \/ num_nonempty(t) < bucket_count(t)
         \/ \E i \in LiveBuckets(t) : object(t, i).key = k
  PROVE  LET p      == find_position(t, k)
             places == {i \in LiveBuckets(t) : object(t, i).key = k}
         IN  /\ ~search_fails(p)
             /\ places = {} => p.first = ILLEGAL_BUCKET /\ p.second \in Buckets(t)
             /\ places # {} => places = {p.first} /\ p.first # ILLEGAL_BUCKET
<1>. DEFINE n        == bucket_count(t)
            at(i)    == Probe(k, i, n)
            stops    == {i \in Buckets(t) : test_empty(t, at(i)) \/ holds(t, at(i), k)}
            last     == Min(stops)
            reusable == {i \in 0 .. last : test_deleted(t, at(i))} \cup {last}
            least    == Min(reusable)
            p        == find_position(t, k)
            places   == {i \in LiveBuckets(t) : object(t, i).key = k}
<1>1. /\ IsTable(t) /\ n \in BucketCounts /\ n \in Nat /\ Buckets(t) = 0 .. n - 1
      /\ NoneTwice(t)
  BY SoundFields, Fields DEF Sound
<1>2. /\ \A i \in Buckets(t) : at(i) \in Buckets(t)
      /\ \A b \in Buckets(t) : b # ILLEGAL_BUCKET /\ b \in Nat
      /\ \A b \in Buckets(t) : \E i \in Buckets(t) : at(i) = b
  BY <1>1, ProbesAreBuckets
<1>3. stops # {}
  <2>1. CASE num_nonempty(t) < bucket_count(t)
    <3>1. PICK b \in Buckets(t) : test_empty(t, b)
      BY <1>1, <2>1, SomeEmpty
    <3>2. PICK i \in Buckets(t) : at(i) = b
      BY <1>2
    <3>. QED
      BY <3>1, <3>2
  <2>2. CASE \E i \in LiveBuckets(t) : object(t, i).key = k
    <3>1. PICK j \in LiveBuckets(t) : object(t, j).key = k
      BY <2>2
    <3>2. j \in Buckets(t) /\ holds(t, j, k)
      BY <3>1 DEF LiveBuckets, holds
    <3>3. PICK i \in Buckets(t) : at(i) = j
      BY <1>2, <3>2
    <3>. QED
      BY <3>2, <3>3
  <2>. QED
    BY <2>1, <2>2
<1>4. last \in Buckets(t)
  <2>1. stops \in SUBSET Nat
    BY <1>1
  <2>2. last \in stops
    BY <1>3, <2>1, MinIsMember
  <2>. QED
    BY <2>2
<1>5. least \in Buckets(t)
  <2>. HIDE DEF last
  <2>1. reusable \in SUBSET Nat /\ last \in reusable
    BY <1>1, <1>4
  <2>2. least \in reusable
    BY <2>1, MinIsMember
  <2>3. least \in 0 .. last
    BY <1>1, <1>4, <2>2
  <2>. HIDE DEF n, least
  <2>. QED
    BY <1>1, <1>4, <2>3
<1>6. p = IF test_empty(t, at(last))
          THEN [first |-> ILLEGAL_BUCKET, second |-> at(least)]
          ELSE [first |-> at(last), second |-> ILLEGAL_BUCKET]
  BY <1>3 DEF find_position, position
<1>7. /\ p.first # ILLEGAL_BUCKET => p.first \in places
      /\ p.first = ILLEGAL_BUCKET /\ p.second # ILLEGAL_BUCKET => places = {}
  BY FindPosition DEF Free
<1>. HIDE DEF p, last, least, n
<1>8. ~search_fails(p) /\ (p.first = ILLEGAL_BUCKET => p.second \in Buckets(t))
  BY <1>2, <1>4, <1>5, <1>6 DEF search_fails
<1>9. p.first # ILLEGAL_BUCKET => places = {p.first}
  BY <1>1, <1>7 DEF NoneTwice
<1>. QED
  BY <1>7, <1>8, <1>9 DEF p, search_fails

-----------------------------------------------------------------------------
(* Writing one object.                                                     *)

\* What a table reads like with an object written in it.
LEMMA WrittenReads ==
  ASSUME NEW t, IsTable(t), NEW pos \in Buckets(t), NEW obj \in Slot,
         NEW u, u.table = T!set(t.table, pos, obj)
  PROVE  /\ TabSound(u.table) /\ bucket_count(u) = bucket_count(t)
         /\ Buckets(u) = Buckets(t)
         /\ Used(u.table) = Used(t.table) \cup {pos}
         /\ object(u, pos) = obj
         /\ \A j \in Used(t.table) : j # pos => object(u, j) = object(t, j)
         /\ \A j \in Buckets(t) : test_empty(u, j) => test_empty(t, j)
<1>1. pos \in Numbers(t.table) /\ TabSound(t.table)
  BY Fields DEF IsTable
<1>2. Written(u.table, t.table, pos, obj)
  BY <1>1, SetWrites
<1>3. bucket_count(u) = bucket_count(t)
  BY <1>2 DEF Written, bucket_count
<1>4. Buckets(u) = Buckets(t)
  BY <1>3, SameOperators DEF Buckets, Numbers, bucket_count
<1>5. \A j \in Buckets(t) : test_empty(u, j) => test_empty(t, j)
  <2>1. Buckets(t) = Numbers(t.table) /\ Numbers(u.table) = Numbers(t.table)
    BY <1>3, Fields DEF Numbers, bucket_count
  <2>2. Used(t.table) \subseteq Used(u.table)
    BY <1>2 DEF Written
  <2>. QED
    BY <2>1, <2>2 DEF Used, test_empty
<1>. QED
  BY <1>2, <1>3, <1>4, <1>5 DEF Written, object

\* An object of key k may be inserted.
Allowed(t, k) == t.settings.use_deleted => k # t.delkey

\* u is t with obj in the free bucket pos.
Inserts(u, t, pos, obj) ==
  /\ Sound(u)
  /\ Objects(u) = Objects(t) \cup {obj} /\ size(u) = size(t) + 1
  /\ u.settings = t.settings /\ u.delkey = t.delkey
  /\ bucket_count(u) = bucket_count(t)
  /\ num_nonempty(u) <= num_nonempty(t) + 1
  /\ LiveBuckets(u) = LiveBuckets(t) \cup {pos}
  /\ object(u, pos) = obj /\ pos \notin LiveBuckets(t)
  /\ \A j \in LiveBuckets(t) : object(u, j) = object(t, j)

\* An object put in a free bucket, be it empty or deleted, is found there, and
\* everything else still is; nothing else comes or goes.
LEMMA PutSound ==
  ASSUME NEW t, Sound(t), NEW obj \in Slot, Allowed(t, obj.key), NEW pos,
         Free(t, obj.key, pos), size(t) < MaxSize,
         NEW u, IsTable(u), u.table = T!set(t.table, pos, obj),
         u.settings = t.settings, u.delkey = t.delkey,
         u.num_deleted = IF test_deleted(t, pos) THEN t.num_deleted - 1 ELSE t.num_deleted
  PROVE  Inserts(u, t, pos, obj)
<1>. DEFINE n    == bucket_count(t)
            used == Used(t.table)
<1>1. /\ IsTable(t) /\ n \in BucketCounts /\ n \in Nat /\ Buckets(t) = 0 .. n - 1
      /\ t.num_deleted \in Nat /\ size(t) \in Nat /\ MaxSize \in Nat
      /\ IsFiniteSet(used) /\ num_nonempty(t) = Cardinality(used) /\ num_nonempty(t) \in Nat
      /\ used = {i \in Buckets(t) : ~test_empty(t, i)}
      /\ pos \in Buckets(t) /\ obj.key \in Key
  BY SoundFields, Fields DEF Free, Slot
<1>2. /\ bucket_count(u) = n /\ Buckets(u) = Buckets(t)
      /\ Used(u.table) = used \cup {pos} /\ object(u, pos) = obj
      /\ \A j \in used : j # pos => object(u, j) = object(t, j)
      /\ \A j \in Buckets(t) : test_empty(u, j) => test_empty(t, j)
  <2>1. IsTable(t) /\ pos \in Buckets(t)
    BY <1>1
  <2>. QED
    BY <2>1, WrittenReads, SMTT(40)
<1>3. /\ LiveBuckets(t) = used \ Marked(t) /\ Marked(t) \subseteq used
      /\ \A i \in Buckets(t) : test_deleted(t, i) <=> i \in Marked(t)
      /\ IsFiniteSet(Marked(t)) /\ t.num_deleted = Cardinality(Marked(t))
      /\ LiveBuckets(t) \subseteq Buckets(t)
  BY LiveCount DEF Sound
<1>4. pos \notin LiveBuckets(t)
  BY DEF Free, LiveBuckets
<1>5. Marked(u) = Marked(t) \ {pos}
  <2>1. CASE t.settings.use_deleted
    <3>1. Marked(u) = {i \in Used(u.table) : object(u, i).key = t.delkey}
      BY <2>1 DEF Marked
    <3>2. Marked(t) = {i \in used : object(t, i).key = t.delkey}
      BY <2>1 DEF Marked
    <3>3. obj.key # t.delkey
      BY <2>1 DEF Allowed
    <3>. HIDE DEF used
    <3>. QED
      BY <1>2, <3>1, <3>2, <3>3
  <2>2. CASE ~t.settings.use_deleted
    BY <2>2 DEF Marked
  <2>. QED
    BY <2>1, <2>2
<1>. HIDE DEF n, used
<1>6. u.num_deleted = Cardinality(Marked(u))
  <2>1. CASE test_deleted(t, pos)
    <3>1. pos \in Marked(t)
      BY <1>1, <1>3, <2>1
    <3>2. Cardinality(Marked(t) \ {pos}) = Cardinality(Marked(t)) - 1
      BY <1>3, <3>1, FS_RemoveElement
    <3>. QED
      BY <1>3, <1>5, <2>1, <3>2
  <2>2. CASE ~test_deleted(t, pos)
    <3>1. Marked(u) = Marked(t)
      BY <1>1, <1>3, <1>5, <2>2
    <3>. QED
      BY <1>3, <2>2, <3>1
  <2>. QED
    BY <2>1, <2>2
<1>7. LiveBuckets(u) = LiveBuckets(t) \cup {pos}
  <2>1. LiveBuckets(u) = Used(u.table) \ Marked(u)
    BY <1>6, LiveCount
  <2>. QED
    BY <1>2, <1>3, <1>5, <2>1
<1>8. num_nonempty(u) = IF test_deleted(t, pos) THEN num_nonempty(t) ELSE num_nonempty(t) + 1
  <2>0. num_nonempty(u) = Cardinality(used \cup {pos})
    BY <1>2, Fields
  <2>1. CASE test_deleted(t, pos)
    <3>1. used \cup {pos} = used
      BY <1>1, <1>3, <2>1
    <3>. QED
      BY <1>1, <2>0, <2>1, <3>1
  <2>2. CASE ~test_deleted(t, pos)
    <3>1. pos \notin used
      BY <1>1, <2>2 DEF Free
    <3>2. Cardinality(used \cup {pos}) = Cardinality(used) + 1
      BY <1>1, <3>1, FS_AddElement
    <3>. QED
      BY <1>1, <2>0, <2>2, <3>2
  <2>. QED
    BY <2>1, <2>2
<1>9. size(u) = size(t) + 1 /\ num_nonempty(u) <= num_nonempty(t) + 1
  <2>. DEFINE x == num_nonempty(t)
              y == num_nonempty(u)
  <2>1. size(t) = x - t.num_deleted /\ size(u) = y - u.num_deleted /\ x \in Nat
    BY <1>1 DEF size
  <2>2. \/ y = x /\ u.num_deleted = t.num_deleted - 1
        \/ y = x + 1 /\ u.num_deleted = t.num_deleted
    BY <1>8
  <2>. HIDE DEF x, y
  <2>3. size(u) = size(t) + 1 /\ y <= x + 1
    BY <1>1, <2>1, <2>2
  <2>. QED
    BY <2>3 DEF x, y
<1>10. \A j \in LiveBuckets(t) : object(u, j) = object(t, j)
  BY <1>2, <1>3, <1>4
<1>11. Objects(u) = Objects(t) \cup {obj}
  <2>1. Objects(u) = {object(u, i) : i \in LiveBuckets(t)} \cup {object(u, pos)}
    BY <1>7 DEF Objects
  <2>2. {object(u, i) : i \in LiveBuckets(t)} = Objects(t)
    BY <1>10 DEF Objects
  <2>. QED
    BY <1>2, <2>1, <2>2
<1>12. NoneTwice(u)
  <2>1. \A j \in LiveBuckets(t) : object(u, j).key # obj.key
    BY <1>10 DEF Free
  <2>2. \A i, j \in LiveBuckets(t) : object(u, i).key = object(u, j).key => i = j
    BY <1>10 DEF Sound, NoneTwice
  <2>. QED
    BY <1>2, <1>7, <2>1, <2>2 DEF NoneTwice
<1>13. ASSUME NEW j \in LiveBuckets(u) PROVE Reached(u, j)
  <2>1. CASE j = pos
    <3>1. PICK p \in Buckets(t) :
            /\ Probe(obj.key, p, n) = pos
            /\ \A q \in 0 .. p - 1 : ~test_empty(t, Probe(obj.key, q, n))
      BY DEF Free, n
    <3>2. ASSUME NEW q \in 0 .. p - 1 PROVE ~test_empty(u, Probe(obj.key, q, n))
      <4>1. q \in Buckets(t)
        BY <1>1, <3>1
      <4>2. Probe(obj.key, q, n) \in Buckets(t)
        BY <1>1, <4>1, ProbesAreBuckets DEF n
      <4>. QED
        BY <1>2, <3>1, <4>2
    <3>. QED
      BY <1>2, <2>1, <3>1, <3>2 DEF Reached
  <2>2. CASE j # pos
    <3>1. j \in LiveBuckets(t) /\ object(u, j) = object(t, j)
      BY <1>7, <1>10, <2>2
    <3>2. PICK p \in Buckets(t) :
            /\ Probe(object(t, j).key, p, n) = j
            /\ \A q \in 0 .. p - 1 : ~test_empty(t, Probe(object(t, j).key, q, n))
      BY <3>1 DEF Sound, Reached, n
    <3>3. object(t, j).key \in Key
      BY <3>1, SoundLive
    <3>4. ASSUME NEW q \in 0 .. p - 1 PROVE ~test_empty(u, Probe(object(t, j).key, q, n))
      <4>1. q \in Buckets(t)
        BY <1>1, <3>2
      <4>2. Probe(object(t, j).key, q, n) \in Buckets(t)
        BY <1>1, <3>3, <4>1, ProbesAreBuckets DEF n
      <4>. QED
        BY <1>2, <3>2, <4>2
    <3>. QED
      BY <1>2, <3>1, <3>2, <3>4 DEF Reached
  <2>. QED
    BY <2>1, <2>2
<1>14. size(u) <= MaxSize
  BY <1>1, <1>9
<1>15. Sound(u)
  <2>1. RoomFor(u.settings) /\ InSync(u)
    BY <1>2 DEF Sound, InSync, n
  <2>2. bucket_count(u) \in BucketCounts
    BY <1>1, <1>2
  <2>. QED
    BY <1>6, <1>12, <1>13, <1>14, <2>1, <2>2 DEF Sound
<1>. QED
  BY <1>2, <1>4, <1>7, <1>9, <1>10, <1>11, <1>15 DEF Inserts, n

\* insert_at throws, or inserts.
LEMMA InsertAtSound ==
  ASSUME NEW t, Sound(t), NEW obj \in Slot, Allowed(t, obj.key), NEW pos,
         Free(t, obj.key, pos)
  PROVE  LET r == insert_at(t, obj, pos)
         IN  \/ r.res = "length_error" /\ r.ht = t
             \/ r.res = "inserted" /\ Inserts(r.ht, t, pos, obj)
<1>1. CASE size(t) >= MaxSize
  BY <1>1 DEF insert_at, Outcome
<1>2. CASE ~(size(t) >= MaxSize)
  <2>. DEFINE d == IF test_deleted(t, pos) THEN t.num_deleted - 1 ELSE t.num_deleted
              tab == T!set(t.table, pos, obj)
              u == [t EXCEPT !.num_deleted = d, !.table = tab]
  <2>1. insert_at(t, obj, pos) = [ht |-> u, res |-> "inserted"]
    BY <1>2 DEF insert_at, Outcome
  <2>2. size(t) < MaxSize /\ IsTable(t) /\ pos \in Buckets(t) /\ t.num_deleted \in Nat
    BY <1>2, SoundFields DEF Free
  <2>3. d \in Nat
    BY <2>2 DEF test_deleted
  <2>4. TabSound(tab)
    <3>. DEFINE v == [table |-> tab]
    <3>1. v.table = T!set(t.table, pos, obj)
      OBVIOUS
    <3>. HIDE DEF v
    <3>2. TabSound(v.table)
      BY <2>2, <3>1, WrittenReads
    <3>. QED
      BY <3>1, <3>2
  <2>. HIDE DEF d, tab
  <2>0. t = [settings |-> t.settings, delkey |-> t.delkey,
             num_deleted |-> t.num_deleted, table |-> t.table]
    BY <2>2 DEF IsTable
  <2>5. /\ u.table = tab /\ u.settings = t.settings /\ u.delkey = t.delkey
        /\ u.num_deleted = d
        /\ u = [settings |-> u.settings, delkey |-> u.delkey,
                num_deleted |-> u.num_deleted, table |-> u.table]
    <3>. DEFINE v == [t EXCEPT !.num_deleted = d]
    <3>1. v = [settings |-> t.settings, delkey |-> t.delkey,
               num_deleted |-> d, table |-> t.table]
      BY <2>0
    <3>2. u = [v EXCEPT !.table = tab]
      OBVIOUS
    <3>. HIDE DEF v, u
    <3>. QED
      BY <3>1, <3>2
  <2>. HIDE DEF u
  <2>6. IsTable(u)
    BY <2>2, <2>3, <2>4, <2>5 DEF IsTable
  <2>7. Inserts(u, t, pos, obj)
    BY <2>2, <2>5, <2>6, PutSound DEF d, tab
  <2>. QED
    BY <2>1, <2>7
<1>. QED
  BY <1>1, <1>2

-----------------------------------------------------------------------------
(* Writing over objects.                                                   *)

\* A table whose elements are assigned as before, with the same keys in those
\* that are live, and whose counters count, is sound.
LEMMA FewerLiveSound ==
  ASSUME NEW t, Sound(t), NEW u, IsTable(u), RoomFor(u.settings), InSync(u),
         bucket_count(u) = bucket_count(t), Used(u.table) = Used(t.table),
         u.num_deleted = Cardinality(Marked(u)), u.num_deleted >= t.num_deleted,
         LiveBuckets(u) \subseteq LiveBuckets(t),
         \A j \in LiveBuckets(u) : object(u, j).key = object(t, j).key
  PROVE  Sound(u)
<1>. DEFINE n == bucket_count(t)
<1>1. /\ IsTable(t) /\ n \in BucketCounts /\ n \in Nat /\ Buckets(t) = 0 .. n - 1
      /\ Used(t.table) = {i \in Buckets(t) : ~test_empty(t, i)}
      /\ Buckets(u) = 0 .. n - 1
      /\ Used(u.table) = {i \in Buckets(u) : ~test_empty(u, i)}
  BY SoundFields, Fields
<1>2. \A j \in Buckets(t) : test_empty(u, j) <=> test_empty(t, j)
  BY <1>1
<1>. HIDE DEF n
<1>3. NoneTwice(u)
  BY DEF Sound, NoneTwice
<1>4. ASSUME NEW j \in LiveBuckets(u) PROVE Reached(u, j)
  <2>. DEFINE k == object(t, j).key
  <2>1. j \in LiveBuckets(t) /\ object(u, j).key = k /\ k \in Key
    BY SoundLive
  <2>2. PICK p \in Buckets(t) :
          /\ Probe(k, p, n) = j
          /\ \A q \in 0 .. p - 1 : ~test_empty(t, Probe(k, q, n))
    BY <2>1 DEF Sound, Reached, n
  <2>. HIDE DEF k
  <2>3. ASSUME NEW q \in 0 .. p - 1 PROVE ~test_empty(u, Probe(k, q, n))
    <3>1. q \in Buckets(t)
      BY <1>1, <2>2
    <3>2. Probe(k, q, n) \in Buckets(t)
      BY <1>1, <2>1, <3>1, ProbesAreBuckets DEF n
    <3>. QED
      BY <1>2, <2>2, <3>2
  <2>4. \E r \in Buckets(u) : /\ Probe(k, r, bucket_count(u)) = j
                              /\ \A q \in 0 .. r - 1 :
                                   ~test_empty(u, Probe(k, q, bucket_count(u)))
    BY <1>1, <2>2, <2>3 DEF n
  <2>. QED
    BY <2>1, <2>4 DEF Reached
<1>5. size(u) <= MaxSize
  <2>1. num_nonempty(u) = num_nonempty(t)
    BY <1>1, Fields
  <2>2. /\ u.num_deleted \in Nat /\ t.num_deleted \in Nat /\ num_nonempty(t) \in Nat
        /\ MaxSize \in Nat /\ num_nonempty(t) - t.num_deleted <= MaxSize
    BY Fields, SoundFields DEF Sound, size
  <2>. DEFINE x == num_nonempty(t)
  <2>. HIDE DEF x
  <2>3. x - u.num_deleted <= MaxSize
    BY <2>2 DEF x
  <2>. QED
    BY <2>1, <2>3 DEF size, x
<1>. QED
  BY <1>1, <1>3, <1>4, <1>5 DEF Sound, n

\* u is t with the deleted key in the buckets of S.
Struck(u, t, S) ==
  /\ IsTable(u) /\ bucket_count(u) = bucket_count(t)
  /\ u.settings = t.settings /\ u.delkey = t.delkey /\ u.num_deleted = t.num_deleted
  /\ Used(u.table) = Used(t.table)
  /\ \A j \in S : object(u, j).key = t.delkey
  /\ \A j \in Used(t.table) \ S : object(u, j) = object(t, j)

\* set_deleted changes the key of an assigned element.
LEMMA SetDeletedStrikes ==
  ASSUME NEW t, IsTable(t), NEW S \in SUBSET Used(t.table), NEW u, Struck(u, t, S),
         NEW pos \in Used(t.table)
  PROVE  Struck(set_deleted(u, pos), t, S \cup {pos})
<1>. DEFINE obj == [key |-> u.delkey, val |-> DefaultVal]
            tab == T!set(u.table, pos, obj)
            v   == [u EXCEPT !.table = tab]
<1>1. /\ IsTable(u) /\ bucket_count(u) = bucket_count(t)
      /\ u.settings = t.settings /\ u.delkey = t.delkey /\ u.num_deleted = t.num_deleted
      /\ Used(u.table) = Used(t.table)
  BY DEF Struck
<1>2. u = [settings |-> u.settings, delkey |-> u.delkey,
           num_deleted |-> u.num_deleted, table |-> u.table]
  BY <1>1 DEF IsTable
<1>3. pos \in Buckets(u)
  BY <1>1, Fields
<1>4. obj \in Slot /\ obj.key = u.delkey
  BY <1>1, Fields, KeysAssumption DEF Slot
<1>. HIDE DEF obj
<1>5. tab = T!set(u.table, pos, obj)
  OBVIOUS
<1>. HIDE DEF tab
<1>6. /\ v.table = tab /\ v.settings = u.settings /\ v.delkey = u.delkey
      /\ v.num_deleted = u.num_deleted
      /\ v = [settings |-> v.settings, delkey |-> v.delkey,
              num_deleted |-> v.num_deleted, table |-> v.table]
  BY <1>2
<1>7. set_deleted(u, pos) = v
  BY DEF set_deleted, tab, obj
<1>. HIDE DEF v
<1>8. /\ TabSound(v.table) /\ bucket_count(v) = bucket_count(u)
      /\ Used(v.table) = Used(u.table) \cup {pos} /\ object(v, pos) = obj
      /\ \A j \in Used(u.table) : j # pos => object(v, j) = object(u, j)
  <2>1. v.table = T!set(u.table, pos, obj)
    BY <1>5, <1>6
  <2>. QED
    BY <1>1, <1>3, <1>4, <2>1, WrittenReads, SMTT(30)
<1>9. IsTable(v)
  BY <1>1, <1>6, <1>8 DEF IsTable
<1>10. Used(v.table) = Used(t.table)
  BY <1>1, <1>8
<1>11. \A j \in S \cup {pos} : object(v, j).key = t.delkey
  BY <1>1, <1>4, <1>8 DEF Struck
<1>12. \A j \in Used(t.table) \ (S \cup {pos}) : object(v, j) = object(t, j)
  BY <1>1, <1>8 DEF Struck
<1>. QED
  BY <1>1, <1>6, <1>7, <1>8, <1>9, <1>10, <1>11, <1>12 DEF Struck

\* u is t without the objects in the buckets of S.
Erases(u, t, S) ==
  /\ Sound(u) /\ SameReserved(u, t)
  /\ LiveBuckets(u) = LiveBuckets(t) \ S
  /\ \A j \in LiveBuckets(u) : object(u, j) = object(t, j)
  /\ bucket_count(u) = bucket_count(t) /\ num_nonempty(u) = num_nonempty(t)

\* Erasing is to strike out, count what was live and consider to shrink.
LEMMA StruckSound ==
  ASSUME NEW t, Sound(t), t.settings.use_deleted, NEW S \in SUBSET Used(t.table),
         NEW u, Struck(u, t, S), NEW v, IsTable(v), v.table = u.table,
         v.delkey = t.delkey, SameReserved(v, t),
         v.settings.enlarge_threshold = t.settings.enlarge_threshold,
         v.settings.shrink_threshold = t.settings.shrink_threshold,
         v.settings.shrink_factor = t.settings.shrink_factor,
         v.num_deleted = t.num_deleted + Cardinality(S \ Marked(t))
  PROVE  Erases(v, t, S)
<1>1. /\ IsTable(t) /\ t.num_deleted \in Nat /\ Marked(t) \subseteq Used(t.table)
      /\ IsFiniteSet(Marked(t)) /\ IsFiniteSet(Used(t.table))
      /\ t.num_deleted = Cardinality(Marked(t))
      /\ LiveBuckets(t) = Used(t.table) \ Marked(t)
  BY Fields, LiveCount DEF Sound
<1>2. bucket_count(v) = bucket_count(t) /\ Used(v.table) = Used(t.table)
      /\ \A j : object(v, j) = object(u, j)
  BY DEF Struck, bucket_count, object
<1>3. Marked(v) = Marked(t) \cup S
  <2>1. Marked(v) = {j \in Used(t.table) : object(u, j).key = t.delkey}
    BY <1>2 DEF Marked, SameReserved
  <2>2. Marked(t) = {j \in Used(t.table) : object(t, j).key = t.delkey}
    BY DEF Marked
  <2>3. \A j \in Used(t.table) :
          object(u, j).key = t.delkey <=> j \in S \/ object(t, j).key = t.delkey
    BY DEF Struck
  <2>. QED
    BY <2>1, <2>2, <2>3
<1>4. /\ Cardinality(Marked(t) \cup S) = Cardinality(Marked(t)) + Cardinality(S \ Marked(t))
      /\ Cardinality(S \ Marked(t)) \in Nat
  <2>. DEFINE M == Marked(t)
              D == S \ M
  <2>1. IsFiniteSet(D)
    BY <1>1, FS_Subset
  <2>. HIDE DEF M, D
  <2>2. Cardinality(M \cup D) = Cardinality(M) + Cardinality(D) - Cardinality(M \cap D)
    BY <1>1, <2>1, FS_Union DEF M
  <2>3. M \cup D = M \cup S /\ M \cap D = {}
    BY DEF D
  <2>4. Cardinality(M \cap D) = 0 /\ Cardinality(D) \in Nat /\ Cardinality(M) \in Nat
    BY <1>1, <2>1, <2>3, FS_EmptySet, FS_CardinalityType DEF M
  <2>5. Cardinality(M \cup D) = Cardinality(M) + Cardinality(D)
    BY <2>2, <2>4
  <2>6. Cardinality(M \cup S) = Cardinality(M) + Cardinality(D) /\ Cardinality(D) \in Nat
    BY <2>3, <2>4, <2>5
  <2>. QED
    BY <2>6 DEF M, D
<1>5. v.num_deleted = Cardinality(Marked(v)) /\ v.num_deleted >= t.num_deleted
  BY <1>1, <1>3, <1>4
<1>6. LiveBuckets(v) = LiveBuckets(t) \ S
  <2>1. LiveBuckets(v) = Used(v.table) \ Marked(v)
    BY <1>5, LiveCount
  <2>. QED
    BY <1>1, <1>2, <1>3, <2>1
<1>7. \A j \in LiveBuckets(v) : object(v, j) = object(t, j)
  BY <1>1, <1>2, <1>6 DEF Struck
<1>8. RoomFor(v.settings)
  BY SameRoom DEF Sound, SameReserved
<1>9. InSync(v)
  BY <1>2 DEF Sound, InSync, SameReserved, enlarge_size, shrink_size
<1>10. Sound(v)
  <2>1. \A j \in LiveBuckets(v) : object(v, j).key = object(t, j).key
    BY <1>7
  <2>. QED
    BY <1>2, <1>5, <1>6, <1>8, <1>9, <2>1, FewerLiveSound
<1>11. num_nonempty(v) = num_nonempty(t)
  BY <1>1, <1>2, Fields
<1>. QED
  BY <1>2, <1>6, <1>7, <1>10, <1>11 DEF Erases

\* A table is itself with nothing struck out.
LEMMA NothingStruck ==
  ASSUME NEW t, IsTable(t)
  PROVE  Struck(t, t, {})
  BY DEF Struck

\* erase(iterator), of a live object or of a bucket deleted before.
LEMMA EraseAtSound ==
  ASSUME NEW t, Sound(t), t.settings.use_deleted,
         NEW pos \in Used(t.table)
  PROVE  Erases(erase_at(t, pos), t, {pos})
<1>. DEFINE u == set_deleted(t, pos)
<1>1. IsTable(t) /\ t.num_deleted \in Nat /\ pos \in Buckets(t)
      /\ \A i \in Buckets(t) : test_deleted(t, i) <=> i \in Marked(t)
  BY SoundFields, Fields, SoundLive
<1>2. Struck(u, t, {pos})
  <2>1. Struck(u, t, {} \cup {pos})
    BY <1>1, NothingStruck, SetDeletedStrikes
  <2>. QED
    BY <2>1
<1>. HIDE DEF u
<1>3. /\ IsTable(u) /\ u.settings = t.settings /\ u.delkey = t.delkey
      /\ u.num_deleted = t.num_deleted
  BY <1>2 DEF Struck
<1>4. CASE test_deleted(t, pos)
  <2>1. {pos} \ Marked(t) = {}
    BY <1>1, <1>4
  <2>2. u.num_deleted = t.num_deleted + Cardinality({pos} \ Marked(t))
    BY <1>1, <1>3, <2>1, FS_EmptySet
  <2>3. Erases(u, t, {pos})
    <3>1. SameReserved(u, t)
      BY <1>3 DEF SameReserved
    <3>. QED
      BY <1>2, <1>3, <2>2, <3>1, StruckSound
  <2>. QED
    BY <1>4, <2>3 DEF erase_at, u
<1>5. CASE ~test_deleted(t, pos)
  <2>. DEFINE d == u.num_deleted + 1
              s == [u.settings EXCEPT !.consider_shrink = TRUE]
              v == [u EXCEPT !.num_deleted = @ + 1, !.settings.consider_shrink = TRUE]
  <2>1. {pos} \ Marked(t) = {pos}
    BY <1>1, <1>5
  <2>2. d = t.num_deleted + Cardinality({pos} \ Marked(t)) /\ d \in Nat
    <3>1. Cardinality({pos} \ Marked(t)) = 1
      BY <2>1, FS_Singleton
    <3>. QED
      BY <1>1, <1>3, <3>1
  <2>3. /\ s \in Settings /\ s.use_deleted = t.settings.use_deleted
        /\ s.enlarge_factor = t.settings.enlarge_factor
        /\ s.shrink_factor = t.settings.shrink_factor
        /\ s.enlarge_threshold = t.settings.enlarge_threshold
        /\ s.shrink_threshold = t.settings.shrink_threshold
    <3>1. u.settings \in Settings /\ u.settings = t.settings
      BY <1>3 DEF IsTable
    <3>. QED
      BY <3>1 DEF Settings
  <2>4. u = [settings |-> u.settings, delkey |-> u.delkey,
             num_deleted |-> u.num_deleted, table |-> u.table]
    BY <1>3 DEF IsTable
  <2>5. v = [settings |-> s, delkey |-> u.delkey, num_deleted |-> d, table |-> u.table]
    <3>. DEFINE w == [u EXCEPT !.num_deleted = d]
    <3>1. w = [settings |-> u.settings, delkey |-> u.delkey,
               num_deleted |-> d, table |-> u.table]
      <4>. HIDE DEF d
      <4>. QED
        BY <2>4
    <3>2. v = [w EXCEPT !.settings = [@ EXCEPT !.consider_shrink = TRUE]]
      OBVIOUS
    <3>. HIDE DEF w, d, v
    <3>. QED
      BY <3>1, <3>2
  <2>. HIDE DEF s, d, v
  <2>6. IsTable(v)
    BY <1>3, <2>2, <2>3, <2>5 DEF IsTable
  <2>7. /\ v.table = u.table /\ v.delkey = t.delkey /\ v.settings = s /\ v.num_deleted = d
    BY <1>3, <2>5
  <2>8. SameReserved(v, t)
    BY <2>3, <2>7 DEF SameReserved
  <2>9. Erases(v, t, {pos})
    BY <1>2, <2>2, <2>3, <2>6, <2>7, <2>8, StruckSound
  <2>. QED
    BY <1>5, <2>9 DEF erase_at, u, v
<1>. QED
  BY <1>4, <1>5

-----------------------------------------------------------------------------
(* Each of the recursive functions of the model is what its definition     *)
(* says: such a function exists.                                           *)

\* One step past a deleted bucket.
Skip(t, at) == IF at # end(t) /\ test_deleted_at(t, at) THEN T!increment(t.table, at) ELSE at

\* advance_past_deleted.
LEMMA SkipsUnfold ==
  ASSUME NEW t, NEW it, t.num_deleted \in Nat
  PROVE  \E upto :
           /\ upto[0] = it
           /\ \A i \in 1 .. t.num_deleted : upto[i] = Skip(t, upto[i - 1])
           /\ advance_past_deleted(t, it) = upto[t.num_deleted]
<1>. DEFINE Runs(f, n) ==
              f = [i \in 0 .. n |-> IF i = 0 THEN it ELSE Skip(t, f[i - 1])]
            Stuck == {n \in Nat : ~ \E f : Runs(f, n)}
<1>1. Stuck = {}
  <2>. SUFFICES ASSUME Stuck # {} PROVE FALSE
    OBVIOUS
  <2>1. PICK n \in Stuck : \A m \in Stuck : n <= m
    BY LeastNumber
  <2>2. n # 0
    <3>1. Runs([i \in 0 .. 0 |-> it], 0)
      OBVIOUS
    <3>. QED
      BY <3>1
  <2>3. PICK f : Runs(f, n - 1)
    <3>1. n \in Nat
      OBVIOUS
    <3>2. n - 1 \in Nat /\ ~ (n <= n - 1)
      BY <2>2, <3>1
    <3>3. n - 1 \notin Stuck
      BY <2>1, <3>2
    <3>. QED
      BY <3>2, <3>3
  <2>. DEFINE g == [i \in 0 .. n |-> IF i = n THEN Skip(t, f[n - 1]) ELSE f[i]]
  <2>4. ASSUME NEW i \in 0 .. n
        PROVE  g[i] = IF i = 0 THEN it ELSE Skip(t, g[i - 1])
    <3>. n \in Nat
      OBVIOUS
    <3>1. CASE i = n
      BY <2>2, <3>1
    <3>2. CASE i # n
      <4>1. i \in 0 .. n - 1
        BY <3>2
      <4>2. f[i] = IF i = 0 THEN it ELSE Skip(t, f[i - 1])
        BY <2>3, <4>1
      <4>3. g[i] = f[i] /\ (i # 0 => g[i - 1] = f[i - 1])
        BY <4>1
      <4>. QED
        BY <4>2, <4>3
    <3>. QED
      BY <3>1, <3>2
  <2>5. Runs(g, n)
    BY <2>4, Zenon
  <2>. QED
    BY <2>5
<1>2. PICK f : Runs(f, t.num_deleted)
  BY <1>1
<1>. DEFINE upto[i \in 0 .. t.num_deleted] == IF i = 0 THEN it ELSE Skip(t, upto[i - 1])
<1>3. upto = [i \in 0 .. t.num_deleted |-> IF i = 0 THEN it ELSE Skip(t, upto[i - 1])]
  BY <1>2, Zenon DEF upto
<1>4. advance_past_deleted(t, it) = upto[t.num_deleted]
  BY Zenon DEF advance_past_deleted, Skip
<1>. HIDE DEF upto
<1>5. \A i \in 0 .. t.num_deleted : upto[i] = IF i = 0 THEN it ELSE Skip(t, upto[i - 1])
  BY <1>3, Zenon
<1>6. \A i \in 1 .. t.num_deleted : i \in 0 .. t.num_deleted /\ i # 0
  OBVIOUS
<1>7. \A i \in 1 .. t.num_deleted : upto[i] = Skip(t, upto[i - 1])
  BY <1>5, <1>6, Zenon
<1>8. 0 \in 0 .. t.num_deleted
  OBVIOUS
<1>9. upto[0] = it
  BY <1>5, <1>8, Zenon
<1>. QED
  BY <1>4, <1>7, <1>9

\* The loop of copy_from.
LEMMA CopyUnfolds ==
  ASSUME NEW l, size(l.from) \in Nat
  PROVE  \E upto :
           /\ upto[0] = l
           /\ \A i \in 1 .. size(l.from) : upto[i] = copy_step(upto[i - 1])
           /\ run(l, copy_step) = upto[size(l.from)]
<1>. DEFINE Runs(f, n) ==
              f = [i \in 0 .. n |-> IF i = 0 THEN l ELSE copy_step(f[i - 1])]
            Stuck == {n \in Nat : ~ \E f : Runs(f, n)}
<1>1. Stuck = {}
  <2>. SUFFICES ASSUME Stuck # {} PROVE FALSE
    OBVIOUS
  <2>1. PICK n \in Stuck : \A m \in Stuck : n <= m
    BY LeastNumber
  <2>2. n # 0
    <3>1. Runs([i \in 0 .. 0 |-> l], 0)
      OBVIOUS
    <3>. QED
      BY <3>1
  <2>3. PICK f : Runs(f, n - 1)
    <3>1. n \in Nat
      OBVIOUS
    <3>2. n - 1 \in Nat /\ ~ (n <= n - 1)
      BY <2>2, <3>1
    <3>3. n - 1 \notin Stuck
      BY <2>1, <3>2
    <3>. QED
      BY <3>2, <3>3
  <2>. DEFINE g == [i \in 0 .. n |-> IF i = n THEN copy_step(f[n - 1]) ELSE f[i]]
  <2>4. ASSUME NEW i \in 0 .. n
        PROVE  g[i] = IF i = 0 THEN l ELSE copy_step(g[i - 1])
    <3>. n \in Nat
      OBVIOUS
    <3>1. CASE i = n
      BY <2>2, <3>1
    <3>2. CASE i # n
      <4>1. i \in 0 .. n - 1
        BY <3>2
      <4>2. f[i] = IF i = 0 THEN l ELSE copy_step(f[i - 1])
        BY <2>3, <4>1
      <4>3. g[i] = f[i] /\ (i # 0 => g[i - 1] = f[i - 1])
        BY <4>1
      <4>. QED
        BY <4>2, <4>3
    <3>. QED
      BY <3>1, <3>2
  <2>5. Runs(g, n)
    BY <2>4, Zenon
  <2>. QED
    BY <2>5
<1>2. PICK f : Runs(f, size(l.from))
  BY <1>1
<1>. DEFINE upto[i \in 0 .. size(l.from)] == IF i = 0 THEN l ELSE copy_step(upto[i - 1])
<1>3. upto = [i \in 0 .. size(l.from) |-> IF i = 0 THEN l ELSE copy_step(upto[i - 1])]
  BY <1>2, Zenon DEF upto
<1>4. run(l, copy_step) = upto[size(l.from)]
  BY Zenon DEF run
<1>. HIDE DEF upto
<1>5. \A i \in 0 .. size(l.from) : upto[i] = IF i = 0 THEN l ELSE copy_step(upto[i - 1])
  BY <1>3, Zenon
<1>6. \A i \in 1 .. size(l.from) : i \in 0 .. size(l.from) /\ i # 0
  OBVIOUS
<1>7. \A i \in 1 .. size(l.from) : upto[i] = copy_step(upto[i - 1])
  BY <1>5, <1>6, Zenon
<1>8. 0 \in 0 .. size(l.from)
  OBVIOUS
<1>9. upto[0] = l
  BY <1>5, <1>8, Zenon
<1>. QED
  BY <1>4, <1>7, <1>9

\* The loop of move_from.
LEMMA MoveUnfolds ==
  ASSUME NEW l, size(l.from) \in Nat
  PROVE  \E upto :
           /\ upto[0] = l
           /\ \A i \in 1 .. size(l.from) : upto[i] = move_step(upto[i - 1])
           /\ run(l, move_step) = upto[size(l.from)]
<1>. DEFINE Runs(f, n) ==
              f = [i \in 0 .. n |-> IF i = 0 THEN l ELSE move_step(f[i - 1])]
            Stuck == {n \in Nat : ~ \E f : Runs(f, n)}
<1>1. Stuck = {}
  <2>. SUFFICES ASSUME Stuck # {} PROVE FALSE
    OBVIOUS
  <2>1. PICK n \in Stuck : \A m \in Stuck : n <= m
    BY LeastNumber
  <2>2. n # 0
    <3>1. Runs([i \in 0 .. 0 |-> l], 0)
      OBVIOUS
    <3>. QED
      BY <3>1
  <2>3. PICK f : Runs(f, n - 1)
    <3>1. n \in Nat
      OBVIOUS
    <3>2. n - 1 \in Nat /\ ~ (n <= n - 1)
      BY <2>2, <3>1
    <3>3. n - 1 \notin Stuck
      BY <2>1, <3>2
    <3>. QED
      BY <3>2, <3>3
  <2>. DEFINE g == [i \in 0 .. n |-> IF i = n THEN move_step(f[n - 1]) ELSE f[i]]
  <2>4. ASSUME NEW i \in 0 .. n
        PROVE  g[i] = IF i = 0 THEN l ELSE move_step(g[i - 1])
    <3>. n \in Nat
      OBVIOUS
    <3>1. CASE i = n
      BY <2>2, <3>1
    <3>2. CASE i # n
      <4>1. i \in 0 .. n - 1
        BY <3>2
      <4>2. f[i] = IF i = 0 THEN l ELSE move_step(f[i - 1])
        BY <2>3, <4>1
      <4>3. g[i] = f[i] /\ (i # 0 => g[i - 1] = f[i - 1])
        BY <4>1
      <4>. QED
        BY <4>2, <4>3
    <3>. QED
      BY <3>1, <3>2
  <2>5. Runs(g, n)
    BY <2>4, Zenon
  <2>. QED
    BY <2>5
<1>2. PICK f : Runs(f, size(l.from))
  BY <1>1
<1>. DEFINE upto[i \in 0 .. size(l.from)] == IF i = 0 THEN l ELSE move_step(upto[i - 1])
<1>3. upto = [i \in 0 .. size(l.from) |-> IF i = 0 THEN l ELSE move_step(upto[i - 1])]
  BY <1>2, Zenon DEF upto
<1>4. run(l, move_step) = upto[size(l.from)]
  BY Zenon DEF run
<1>. HIDE DEF upto
<1>5. \A i \in 0 .. size(l.from) : upto[i] = IF i = 0 THEN l ELSE move_step(upto[i - 1])
  BY <1>3, Zenon
<1>6. \A i \in 1 .. size(l.from) : i \in 0 .. size(l.from) /\ i # 0
  OBVIOUS
<1>7. \A i \in 1 .. size(l.from) : upto[i] = move_step(upto[i - 1])
  BY <1>5, <1>6, Zenon
<1>8. 0 \in 0 .. size(l.from)
  OBVIOUS
<1>9. upto[0] = l
  BY <1>5, <1>8, Zenon
<1>. QED
  BY <1>4, <1>7, <1>9

\* The loop of insert(f, l).
LEMMA InsertEachUnfolds ==
  ASSUME NEW t, NEW objs, Len(objs) \in Nat
  PROVE  \E upto :
           /\ upto[0] = Outcome(t, "ok")
           /\ \A i \in 1 .. Len(objs) : upto[i] = insert_next(upto[i - 1], objs[i])
           /\ insert_each(t, objs) = upto[Len(objs)]
<1>. DEFINE Runs(f, n) ==
              f = [i \in 0 .. n |-> IF i = 0 THEN Outcome(t, "ok") ELSE insert_next(f[i - 1], objs[i])]
            Stuck == {n \in Nat : ~ \E f : Runs(f, n)}
<1>1. Stuck = {}
  <2>. SUFFICES ASSUME Stuck # {} PROVE FALSE
    OBVIOUS
  <2>1. PICK n \in Stuck : \A m \in Stuck : n <= m
    BY LeastNumber
  <2>2. n # 0
    <3>1. Runs([i \in 0 .. 0 |-> Outcome(t, "ok")], 0)
      OBVIOUS
    <3>. QED
      BY <3>1
  <2>3. PICK f : Runs(f, n - 1)
    <3>1. n \in Nat
      OBVIOUS
    <3>2. n - 1 \in Nat /\ ~ (n <= n - 1)
      BY <2>2, <3>1
    <3>3. n - 1 \notin Stuck
      BY <2>1, <3>2
    <3>. QED
      BY <3>2, <3>3
  <2>. DEFINE g == [i \in 0 .. n |-> IF i = n THEN insert_next(f[n - 1], objs[n]) ELSE f[i]]
  <2>4. ASSUME NEW i \in 0 .. n
        PROVE  g[i] = IF i = 0 THEN Outcome(t, "ok") ELSE insert_next(g[i - 1], objs[i])
    <3>. n \in Nat
      OBVIOUS
    <3>1. CASE i = n
      BY <2>2, <3>1
    <3>2. CASE i # n
      <4>1. i \in 0 .. n - 1
        BY <3>2
      <4>2. f[i] = IF i = 0 THEN Outcome(t, "ok") ELSE insert_next(f[i - 1], objs[i])
        BY <2>3, <4>1
      <4>3. g[i] = f[i] /\ (i # 0 => g[i - 1] = f[i - 1])
        BY <4>1
      <4>. QED
        BY <4>2, <4>3
    <3>. QED
      BY <3>1, <3>2
  <2>5. Runs(g, n)
    BY <2>4, Zenon
  <2>. QED
    BY <2>5
<1>2. PICK f : Runs(f, Len(objs))
  BY <1>1
<1>. DEFINE upto[i \in 0 .. Len(objs)] == IF i = 0 THEN Outcome(t, "ok") ELSE insert_next(upto[i - 1], objs[i])
<1>3. upto = [i \in 0 .. Len(objs) |-> IF i = 0 THEN Outcome(t, "ok") ELSE insert_next(upto[i - 1], objs[i])]
  BY <1>2, Zenon DEF upto
<1>4. insert_each(t, objs) = upto[Len(objs)]
  BY Zenon DEF insert_each
<1>. HIDE DEF upto
<1>5. \A i \in 0 .. Len(objs) : upto[i] = IF i = 0 THEN Outcome(t, "ok") ELSE insert_next(upto[i - 1], objs[i])
  BY <1>3, Zenon
<1>6. \A i \in 1 .. Len(objs) : i \in 0 .. Len(objs) /\ i # 0
  OBVIOUS
<1>7. \A i \in 1 .. Len(objs) : upto[i] = insert_next(upto[i - 1], objs[i])
  BY <1>5, <1>6, Zenon
<1>8. 0 \in 0 .. Len(objs)
  OBVIOUS
<1>9. upto[0] = Outcome(t, "ok")
  BY <1>5, <1>8, Zenon
<1>. QED
  BY <1>4, <1>7, <1>9

\* The loop of erase(f, l).
LEMMA DeleteEachUnfolds ==
  ASSUME NEW t, NEW gone, bucket_count(t) \in Nat
  PROVE  \E upto :
           /\ upto[0] = t
           /\ \A i \in 1 .. bucket_count(t) : upto[i] = set_deleted_if(upto[i - 1], gone, i - 1)
           /\ set_deleted_each(t, gone) = upto[bucket_count(t)]
<1>. DEFINE Runs(f, n) ==
              f = [i \in 0 .. n |-> IF i = 0 THEN t ELSE set_deleted_if(f[i - 1], gone, i - 1)]
            Stuck == {n \in Nat : ~ \E f : Runs(f, n)}
<1>1. Stuck = {}
  <2>. SUFFICES ASSUME Stuck # {} PROVE FALSE
    OBVIOUS
  <2>1. PICK n \in Stuck : \A m \in Stuck : n <= m
    BY LeastNumber
  <2>2. n # 0
    <3>1. Runs([i \in 0 .. 0 |-> t], 0)
      OBVIOUS
    <3>. QED
      BY <3>1
  <2>3. PICK f : Runs(f, n - 1)
    <3>1. n \in Nat
      OBVIOUS
    <3>2. n - 1 \in Nat /\ ~ (n <= n - 1)
      BY <2>2, <3>1
    <3>3. n - 1 \notin Stuck
      BY <2>1, <3>2
    <3>. QED
      BY <3>2, <3>3
  <2>. DEFINE g == [i \in 0 .. n |-> IF i = n THEN set_deleted_if(f[n - 1], gone, n - 1) ELSE f[i]]
  <2>4. ASSUME NEW i \in 0 .. n
        PROVE  g[i] = IF i = 0 THEN t ELSE set_deleted_if(g[i - 1], gone, i - 1)
    <3>. n \in Nat
      OBVIOUS
    <3>1. CASE i = n
      BY <2>2, <3>1
    <3>2. CASE i # n
      <4>1. i \in 0 .. n - 1
        BY <3>2
      <4>2. f[i] = IF i = 0 THEN t ELSE set_deleted_if(f[i - 1], gone, i - 1)
        BY <2>3, <4>1
      <4>3. g[i] = f[i] /\ (i # 0 => g[i - 1] = f[i - 1])
        BY <4>1
      <4>. QED
        BY <4>2, <4>3
    <3>. QED
      BY <3>1, <3>2
  <2>5. Runs(g, n)
    BY <2>4, Zenon
  <2>. QED
    BY <2>5
<1>2. PICK f : Runs(f, bucket_count(t))
  BY <1>1
<1>. DEFINE upto[i \in 0 .. bucket_count(t)] == IF i = 0 THEN t ELSE set_deleted_if(upto[i - 1], gone, i - 1)
<1>3. upto = [i \in 0 .. bucket_count(t) |-> IF i = 0 THEN t ELSE set_deleted_if(upto[i - 1], gone, i - 1)]
  BY <1>2, Zenon DEF upto
<1>4. set_deleted_each(t, gone) = upto[bucket_count(t)]
  BY Zenon DEF set_deleted_each
<1>. HIDE DEF upto
<1>5. \A i \in 0 .. bucket_count(t) : upto[i] = IF i = 0 THEN t ELSE set_deleted_if(upto[i - 1], gone, i - 1)
  BY <1>3, Zenon
<1>6. \A i \in 1 .. bucket_count(t) : i \in 0 .. bucket_count(t) /\ i # 0
  OBVIOUS
<1>7. \A i \in 1 .. bucket_count(t) : upto[i] = set_deleted_if(upto[i - 1], gone, i - 1)
  BY <1>5, <1>6, Zenon
<1>8. 0 \in 0 .. bucket_count(t)
  OBVIOUS
<1>9. upto[0] = t
  BY <1>5, <1>8, Zenon
<1>. QED
  BY <1>4, <1>7, <1>9

-----------------------------------------------------------------------------
(* The walk over the live objects.                                         *)

\* it is at the first of the buckets S, or at the end when there is none.
At(t, it, S) ==
  \/ S = {} /\ it = end(t)
  \/ \E j \in S : it = Spot(t.table, j) /\ \A x \in S : j <= x

\* What an iterator over the elements meets.
LEMMA SpotOf ==
  ASSUME NEW t, Sound(t), NEW i \in Used(t.table)
  PROVE  LET it == Spot(t.table, i)
         IN  /\ it # end(t) /\ T!get_pos(t.table, it) = i
             /\ T!dereference(t.table, it) = object(t, i)
             /\ test_deleted_at(t, it) <=> i \in Marked(t)
             /\ i \in Buckets(t) /\ i \in Nat
<1>1. TabSound(t.table) /\ i \in Buckets(t) /\ Buckets(t) = 0 .. bucket_count(t) - 1
      /\ T!test(t.table, i)
  BY SoundFields, Fields DEF IsTable, Used
<1>2. /\ Spot(t.table, i) # end(t) /\ T!get_pos(t.table, Spot(t.table, i)) = i
      /\ T!dereference(t.table, Spot(t.table, i)) = object(t, i)
  BY <1>1, SpotIs DEF End, end, object
<1>3. test_deleted(t, i) <=> i \in Marked(t)
  BY <1>1, SoundLive
<1>4. test_deleted_at(t, Spot(t.table, i)) <=> test_deleted(t, i)
  BY <1>1, <1>2 DEF test_deleted_at, test_deleted
<1>. QED
  BY <1>1, <1>2, <1>3, <1>4

\* Skipping as often as there are deleted buckets is enough to get past them.
LEMMA AdvanceIs ==
  ASSUME NEW t, Sound(t), NEW i \in Used(t.table)
  PROVE  At(t, advance_past_deleted(t, Spot(t.table, i)), {x \in LiveBuckets(t) : i <= x})
<1>. DEFINE tab  == t.table
            N    == t.num_deleted
            it   == Spot(tab, i)
            Ahead == {x \in LiveBuckets(t) : i <= x}
            Passed(j) == {x \in Marked(t) : x < j}
            Good(at, k) ==
              \/ At(t, at, Ahead)
              \/ \E j \in Marked(t) : /\ at = Spot(tab, j) /\ i <= j
                                      /\ \A x \in Ahead : j < x
                                      /\ Cardinality(Passed(j)) >= k
<1>1. /\ TabSound(tab) /\ N \in Nat /\ N = Cardinality(Marked(t))
      /\ Used(tab) \subseteq Nat /\ IsFiniteSet(Marked(t))
      /\ Marked(t) \subseteq Used(tab) /\ LiveBuckets(t) = Used(tab) \ Marked(t)
  <2>1. /\ IsTable(t) /\ Used(tab) \subseteq Buckets(t)
        /\ Buckets(t) = 0 .. bucket_count(t) - 1 /\ bucket_count(t) \in Nat
    BY SoundFields, Fields
  <2>2. Used(tab) \subseteq Nat
    BY <2>1
  <2>. QED
    BY <2>1, <2>2, SoundFields, LiveCount DEF Sound, IsTable
<1>2. \A j \in Marked(t) : IsFiniteSet(Passed(j)) /\ Cardinality(Passed(j)) \in Nat
  BY <1>1, FS_Subset, FS_CardinalityType
<1>3. PICK upto :
        /\ upto[0] = it
        /\ \A k \in 1 .. N : upto[k] = Skip(t, upto[k - 1])
        /\ advance_past_deleted(t, it) = upto[N]
  BY <1>1, SkipsUnfold
<1>4. Good(upto[0], 0)
  <2>1. CASE i \in Marked(t)
    <3>1. \A x \in Ahead : i < x
      BY <1>1, <2>1
    <3>2. Cardinality(Passed(i)) >= 0
      BY <1>2, <2>1
    <3>3. i <= i /\ upto[0] = Spot(tab, i)
      BY <1>1, <1>3
    <3>. HIDE DEF Ahead, Passed, tab
    <3>. QED
      BY <2>1, <3>1, <3>2, <3>3
  <2>2. CASE i \notin Marked(t)
    <3>1. i \in Ahead
      BY <1>1, <2>2
    <3>. QED
      BY <1>3, <3>1 DEF At
  <2>. QED
    BY <2>1, <2>2
<1>5. ASSUME NEW k \in 1 .. N, Good(upto[k - 1], k - 1) PROVE Good(upto[k], k)
  <2>1. upto[k] = Skip(t, upto[k - 1])
    BY <1>3
  <2>2. CASE At(t, upto[k - 1], Ahead)
    <3>1. upto[k] = upto[k - 1]
      <4>1. CASE upto[k - 1] = end(t)
        BY <2>1, <4>1 DEF Skip
      <4>2. CASE \E j \in Ahead : upto[k - 1] = Spot(tab, j)
        <5>1. PICK j \in Ahead : upto[k - 1] = Spot(tab, j)
          BY <4>2
        <5>2. j \in Used(tab) /\ j \notin Marked(t)
          BY <1>1
        <5>3. ~test_deleted_at(t, Spot(tab, j))
          BY <5>2, SpotOf
        <5>. QED
          BY <2>1, <5>1, <5>3 DEF Skip
      <4>. QED
        BY <2>2, <4>1, <4>2 DEF At
    <3>. QED
      BY <2>2, <3>1
  <2>3. ASSUME NEW j \in Marked(t), upto[k - 1] = Spot(tab, j), i <= j,
               \A x \in Ahead : j < x, Cardinality(Passed(j)) >= k - 1
        PROVE  Good(upto[k], k)
    <3>1. upto[k] = T!increment(tab, Spot(tab, j))
      <4>1. test_deleted_at(t, Spot(tab, j)) /\ Spot(tab, j) # end(t)
        BY <1>1, SpotOf
      <4>. QED
        BY <2>1, <2>3, <4>1 DEF Skip
    <3>2. \/ /\ upto[k] = End(tab)
             /\ \A x \in Used(tab) : ~(j < x)
          \/ \E y \in Used(tab) : /\ upto[k] = Spot(tab, y)
                                  /\ j < y /\ \A x \in Used(tab) : ~(j < x /\ x < y)
      BY <1>1, <3>1, TabWalk
    <3>3. CASE upto[k] = End(tab) /\ \A x \in Used(tab) : ~(j < x)
      <4>1. Ahead = {}
        BY <1>1, <2>3, <3>3
      <4>. QED
        BY <3>3, <4>1 DEF At, End, end
    <3>4. ASSUME NEW y \in Used(tab), upto[k] = Spot(tab, y), j < y,
                 \A x \in Used(tab) : ~(j < x /\ x < y)
          PROVE  Good(upto[k], k)
      <4>1. i <= y /\ \A x \in Ahead : y <= x
        BY <1>1, <2>3, <3>4
      <4>2. CASE y \in Marked(t)
        <5>1. \A x \in Ahead : y < x
          BY <1>1, <4>1, <4>2
        <5>2. Passed(j) \cup {j} \subseteq Passed(y) /\ j \notin Passed(j)
          BY <1>1, <3>4
        <5>3. Cardinality(Passed(j) \cup {j}) = Cardinality(Passed(j)) + 1
          BY <1>2, <5>2, FS_AddElement
        <5>4. Cardinality(Passed(j) \cup {j}) <= Cardinality(Passed(y))
          BY <1>2, <4>2, <5>2, FS_Subset
        <5>5. Cardinality(Passed(y)) >= k
          <6>. DEFINE a == Cardinality(Passed(j))
                      b == Cardinality(Passed(y))
          <6>1. a \in Nat /\ b \in Nat /\ a + 1 <= b /\ a >= k - 1
            BY <1>2, <2>3, <4>2, <5>3, <5>4
          <6>. HIDE DEF a, b
          <6>2. b >= k
            BY <6>1
          <6>. QED
            BY <6>2 DEF b
        <5>. QED
          BY <3>4, <4>1, <4>2, <5>1, <5>5
      <4>3. CASE y \notin Marked(t)
        <5>1. y \in Ahead
          BY <1>1, <4>1, <4>3
        <5>. QED
          BY <3>4, <4>1, <5>1 DEF At
      <4>. QED
        BY <4>2, <4>3
    <3>. QED
      BY <3>2, <3>3, <3>4
  <2>. HIDE DEF At
  <2>. QED
    BY <1>5, <2>2, <2>3
<1>. HIDE DEF Good
<1>6. \A k \in 0 .. N : Good(upto[k], k)
  <2>. DEFINE Bad == {k \in 0 .. N : ~Good(upto[k], k)}
  <2>. SUFFICES ASSUME Bad # {} PROVE FALSE
    OBVIOUS
  <2>1. PICK k \in Bad : \A m \in Bad : k <= m
    <3>1. Bad \in SUBSET Nat
      OBVIOUS
    <3>. HIDE DEF Bad
    <3>. QED
      BY <3>1, LeastNumber
  <2>2. k # 0
    BY <1>4
  <2>3. k \in 1 .. N /\ k - 1 \in 0 .. N /\ ~(k <= k - 1)
    BY <1>1, <2>2
  <2>4. Good(upto[k - 1], k - 1)
    BY <2>1, <2>3
  <2>5. Good(upto[k], k)
    BY <1>5, <2>3, <2>4
  <2>. QED
    BY <2>5
<1>7. Good(upto[N], N)
  <2>1. N \in 0 .. N
    BY <1>1
  <2>. QED
    BY <1>6, <2>1
<1>8. At(t, upto[N], Ahead)
  <2>. SUFFICES ASSUME NEW j \in Marked(t), Cardinality(Passed(j)) >= N PROVE FALSE
    BY <1>7 DEF Good
  <2>1. Passed(j) \subseteq Marked(t) \ {j} /\ IsFiniteSet(Marked(t) \ {j})
    BY <1>1, FS_RemoveElement
  <2>2. Cardinality(Passed(j)) <= Cardinality(Marked(t) \ {j})
    BY <2>1, FS_Subset
  <2>3. Cardinality(Marked(t) \ {j}) = N - 1
    BY <1>1, FS_RemoveElement
  <2>. HIDE DEF N
  <2>4. Cardinality(Passed(j)) \in Nat
    BY <1>2
  <2>. DEFINE c == Cardinality(Passed(j))
  <2>5. c <= N - 1 /\ c >= N /\ c \in Nat /\ N \in Nat
    BY <1>1, <2>2, <2>3, <2>4
  <2>. HIDE DEF c
  <2>. QED
    BY <2>5
<1>. QED
  BY <1>3, <1>8

\* The end is not advanced past.
LEMMA AdvanceEnd ==
  ASSUME NEW t, Sound(t)
  PROVE  advance_past_deleted(t, end(t)) = end(t)
<1>. DEFINE N == t.num_deleted
<1>1. N \in Nat
  BY SoundFields
<1>2. PICK upto :
        /\ upto[0] = end(t)
        /\ \A k \in 1 .. N : upto[k] = Skip(t, upto[k - 1])
        /\ advance_past_deleted(t, end(t)) = upto[N]
  BY <1>1, SkipsUnfold
<1>. HIDE DEF N
<1>3. \A k \in 0 .. N : upto[k] = end(t)
  <2>. DEFINE Bad == {k \in 0 .. N : upto[k] # end(t)}
  <2>. SUFFICES ASSUME Bad # {} PROVE FALSE
    OBVIOUS
  <2>1. PICK k \in Bad : \A m \in Bad : k <= m
    <3>1. Bad \in SUBSET Nat
      OBVIOUS
    <3>. HIDE DEF Bad
    <3>. QED
      BY <3>1, LeastNumber
  <2>2. k # 0
    BY <1>2
  <2>3. k \in 1 .. N /\ k - 1 \in 0 .. N /\ ~(k <= k - 1)
    BY <1>1, <2>2
  <2>4. upto[k - 1] = end(t)
    BY <2>1, <2>3
  <2>5. upto[k] = end(t)
    BY <1>2, <2>3, <2>4 DEF Skip
  <2>. QED
    BY <2>5
<1>. QED
  BY <1>1, <1>2, <1>3

\* An iteration begins at the first live object.
LEMMA BeginIs ==
  ASSUME NEW t, Sound(t)
  PROVE  At(t, begin(t), LiveBuckets(t))
<1>. DEFINE tab == t.table
<1>1. TabSound(tab) /\ LiveBuckets(t) \subseteq Used(tab)
  BY SoundFields, SoundLive DEF IsTable
<1>2. CASE Used(tab) = {} /\ T!nonempty_begin(tab) = End(tab)
  <2>1. begin(t) = end(t)
    BY <1>2, AdvanceEnd DEF begin, End, end
  <2>. QED
    BY <1>1, <1>2, <2>1 DEF At
<1>3. ASSUME NEW i \in Used(tab), T!nonempty_begin(tab) = Spot(tab, i),
             \A x \in Used(tab) : i <= x
      PROVE  At(t, begin(t), LiveBuckets(t))
  <2>1. At(t, begin(t), {x \in LiveBuckets(t) : i <= x})
    BY <1>3, AdvanceIs DEF begin
  <2>2. {x \in LiveBuckets(t) : i <= x} = LiveBuckets(t)
    BY <1>1, <1>3
  <2>. QED
    BY <2>1, <2>2
<1>. QED
  BY <1>1, <1>2, <1>3, TabWalk

\* An iteration goes on to the next live object, or to the end.
LEMMA NextIs ==
  ASSUME NEW t, Sound(t), NEW i \in Used(t.table)
  PROVE  At(t, next(t, Spot(t.table, i)), {x \in LiveBuckets(t) : i < x})
<1>. DEFINE tab == t.table
            Ahead == {x \in LiveBuckets(t) : i < x}
<1>1. TabSound(tab) /\ LiveBuckets(t) \subseteq Used(tab) /\ \A x \in Used(tab) : x \in Nat
  BY SoundFields, SoundLive, SpotOf DEF IsTable
<1>2. CASE T!increment(tab, Spot(tab, i)) = End(tab) /\ \A x \in Used(tab) : ~(i < x)
  <2>1. next(t, Spot(tab, i)) = end(t)
    BY <1>2, AdvanceEnd DEF next, End, end
  <2>. QED
    BY <1>1, <1>2, <2>1 DEF At
<1>3. ASSUME NEW j \in Used(tab), T!increment(tab, Spot(tab, i)) = Spot(tab, j),
             i < j, \A x \in Used(tab) : ~(i < x /\ x < j)
      PROVE  At(t, next(t, Spot(tab, i)), Ahead)
  <2>1. At(t, next(t, Spot(tab, i)), {x \in LiveBuckets(t) : j <= x})
    BY <1>3, AdvanceIs DEF next
  <2>2. {x \in LiveBuckets(t) : j <= x} = Ahead
    BY <1>1, <1>3
  <2>. QED
    BY <2>1, <2>2
<1>. QED
  BY <1>1, <1>2, <1>3, TabWalk

-----------------------------------------------------------------------------
(* Tables with nothing in them.                                            *)

\* u has n buckets, nothing in them, and the reserved key and grow factor of t.
Vacant(u, t, n) ==
  /\ IsTable(u) /\ InSync(u) /\ SameReserved(u, t)
  /\ bucket_count(u) = n /\ Used(u.table) = {} /\ u.num_deleted = 0

\* Such a table is sound when n is a size with room.
LEMMA VacantSound ==
  ASSUME NEW t, IsTable(t), RoomFor(t.settings), NEW n \in BucketCounts, NEW u, Vacant(u, t, n)
  PROVE  /\ Sound(u) /\ Objects(u) = {} /\ size(u) = 0 /\ num_nonempty(u) = 0
         /\ LiveBuckets(u) = {}
<1>1. RoomFor(u.settings)
  BY SameRoom DEF Vacant, SameReserved
<1>. QED
  BY <1>1, BlankSound DEF Vacant

\* A table with other contents.
LEMMA TableExcept ==
  ASSUME NEW t, IsTable(t), NEW tab, NEW m
  PROVE  LET v == [settings |-> t.settings, delkey |-> t.delkey,
                   num_deleted |-> m, table |-> tab]
         IN  /\ [t EXCEPT !.table = tab, !.num_deleted = m] = v
             /\ [t EXCEPT !.num_deleted = m, !.table = tab] = v
             /\ m = t.num_deleted => [t EXCEPT !.table = tab] = v
<1>. DEFINE a == t.settings
            b == t.delkey
            c == t.num_deleted
            d == t.table
<1>1. t = [settings |-> a, delkey |-> b, num_deleted |-> c, table |-> d]
  BY DEF IsTable
<1>. HIDE DEF a, b, c, d
<1>. DEFINE e == [t EXCEPT !.table = tab]
            f == [t EXCEPT !.num_deleted = m]
<1>2. /\ e = [settings |-> a, delkey |-> b, num_deleted |-> c, table |-> tab]
      /\ f = [settings |-> a, delkey |-> b, num_deleted |-> m, table |-> d]
  BY <1>1
<1>. HIDE DEF e, f
<1>3. [e EXCEPT !.num_deleted = m] =
        [settings |-> a, delkey |-> b, num_deleted |-> m, table |-> tab]
  BY <1>2
<1>4. [f EXCEPT !.table = tab] =
        [settings |-> a, delkey |-> b, num_deleted |-> m, table |-> tab]
  BY <1>2
<1>5. [t EXCEPT !.table = tab, !.num_deleted = m] = [e EXCEPT !.num_deleted = m]
  BY DEF e
<1>6. [t EXCEPT !.num_deleted = m, !.table = tab] = [f EXCEPT !.table = tab]
  BY DEF f
<1>. QED
  BY <1>2, <1>3, <1>4, <1>5, <1>6 DEF a, b, c, e

\* New thresholds for a table with nothing in it.
LEMMA VacantIs ==
  ASSUME NEW t, IsTable(t), NEW n \in Nat, NEW tab, Blank(tab, n),
         NEW v, v = [settings |-> t.settings, delkey |-> t.delkey,
                     num_deleted |-> 0, table |-> tab]
  PROVE  Vacant(thresholds_of(v), t, n)
<1>1. /\ v.settings = t.settings /\ v.delkey = t.delkey
      /\ v.num_deleted = 0 /\ v.table = tab
      /\ v = [settings |-> v.settings, delkey |-> v.delkey,
              num_deleted |-> v.num_deleted, table |-> v.table]
  OBVIOUS
<1>2. IsTable(v) /\ bucket_count(v) = n /\ Used(v.table) = {}
  BY <1>1 DEF IsTable, Blank, bucket_count
<1>. DEFINE u == thresholds_of(v)
<1>3. /\ IsTable(u) /\ u.table = v.table /\ u.delkey = v.delkey
      /\ u.num_deleted = v.num_deleted /\ SameReserved(u, v) /\ InSync(u)
  BY <1>2, ThresholdsOf
<1>. HIDE DEF u
<1>4. bucket_count(u) = n
  BY <1>2, <1>3 DEF bucket_count
<1>. QED
  BY <1>1, <1>2, <1>3, <1>4 DEF Vacant, SameReserved, u

\* clear leaves nothing in a table, whatever num_deleted says was in it: it
\* passes over the sparsetable only when there is nothing to clear.
LEMMA ClearVacates ==
  ASSUME NEW t, IsTable(t)
  PROVE  Vacant(clear(t), t, bucket_count(t))
<1>. DEFINE tab == IF ~empty(t) \/ t.num_deleted # 0 THEN T!clear(t.table) ELSE t.table
            v   == [t EXCEPT !.table = tab, !.num_deleted = 0]
<1>1. clear(t) = thresholds_of(v)
  BY DEF clear
<1>. HIDE DEF tab
<1>5. v = [settings |-> t.settings, delkey |-> t.delkey, num_deleted |-> 0, table |-> tab]
  BY TableExcept
<1>. HIDE DEF v
<1>2. /\ TabSound(t.table) /\ bucket_count(t) \in Nat /\ t.num_deleted \in Nat
      /\ num_nonempty(t) \in Nat /\ num_nonempty(t) = Cardinality(Used(t.table))
      /\ IsFiniteSet(Used(t.table))
  BY Fields DEF IsTable
<1>3. CASE ~empty(t) \/ t.num_deleted # 0
  <2>1. Blank(T!clear(t.table), bucket_count(t))
    BY <1>2, Blanks DEF bucket_count
  <2>. QED
    BY <1>1, <1>2, <1>3, <1>5, <2>1, VacantIs DEF tab
<1>4. CASE empty(t) /\ t.num_deleted = 0
  <2>1. num_nonempty(t) = 0
    BY <1>2, <1>4 DEF empty, size
  <2>2. Used(t.table) = {}
    BY <1>2, <2>1, FS_EmptySet
  <2>3. Blank(t.table, bucket_count(t))
    BY <1>2, <2>2 DEF Blank, bucket_count
  <2>. QED
    BY <1>1, <1>2, <1>4, <1>5, <2>3, VacantIs DEF tab
<1>. QED
  BY <1>3, <1>4

\* What copy_from and move_from start from has n buckets or more.
LEMMA ClearedForVacates ==
  ASSUME NEW t, IsTable(t), NEW n \in Nat
  PROVE  Vacant(cleared_for(t, n), t, IF n > bucket_count(t) THEN n ELSE bucket_count(t))
<1>. DEFINE u == clear(t)
<1>1. Vacant(u, t, bucket_count(t)) /\ bucket_count(t) \in Nat
  BY ClearVacates, Fields
<1>. HIDE DEF u
<1>2. CASE n > bucket_count(t)
  <2>1. Blank(u.table, bucket_count(t))
    BY <1>1 DEF Vacant, Blank, IsTable, bucket_count
  <2>2. Blank(T!resize(u.table, n), n)
    <3>1. bucket_count(t) <= n
      BY <1>1, <1>2
    <3>. QED
      BY <1>1, <2>1, <3>1, Blanks
  <2>. DEFINE tab == T!resize(u.table, n)
              v   == [u EXCEPT !.table = tab]
  <2>3. v = [settings |-> u.settings, delkey |-> u.delkey, num_deleted |-> 0, table |-> tab]
    <3>. HIDE DEF tab
    <3>. QED
      BY <1>1, TableExcept DEF Vacant
  <2>4. cleared_for(t, n) = thresholds_of(v)
    BY <1>1, <1>2 DEF cleared_for, u, Vacant
  <2>. HIDE DEF tab, v
  <2>5. Vacant(thresholds_of(v), u, n)
    <3>1. IsTable(u) /\ Blank(tab, n)
      BY <1>1, <2>2 DEF Vacant, tab
    <3>. QED
      BY <2>3, <3>1, VacantIs
  <2>6. Vacant(thresholds_of(v), t, n)
    BY <1>1, <2>5 DEF Vacant, SameReserved
  <2>. QED
    BY <1>2, <2>4, <2>6
<1>3. CASE ~(n > bucket_count(t))
  BY <1>1, <1>3 DEF cleared_for, u, Vacant
<1>. QED
  BY <1>2, <1>3

\* What a copy or a move is constructed into: no buckets, or n of them.
LEMMA NoBucketsVacant ==
  ASSUME NEW from, IsTable(from)
  PROVE  Vacant(no_buckets_of(from), from, 0)
<1>. DEFINE tab == T!new_sparsetable(0)
            v   == [from EXCEPT !.num_deleted = 0, !.table = tab]
<1>1. Blank(tab, 0)
  BY Blanks
<1>2. no_buckets_of(from) = thresholds_of(v)
  BY DEF no_buckets_of
<1>. HIDE DEF tab
<1>3. v = [settings |-> from.settings, delkey |-> from.delkey, num_deleted |-> 0, table |-> tab]
  BY TableExcept
<1>. HIDE DEF v
<1>. QED
  BY <1>1, <1>2, <1>3, VacantIs

\* A table constructed for a copy or a move has the size asked for and no object.
LEMMA ConstructedVacates ==
  ASSUME NEW from, IsTable(from), NEW n \in Nat
  PROVE  Vacant(cleared_for(no_buckets_of(from), n), from, n)
<1>. DEFINE u == no_buckets_of(from)
<1>1. IsTable(u) /\ bucket_count(u) = 0 /\ Vacant(u, from, 0)
  BY NoBucketsVacant DEF Vacant
<1>. HIDE DEF u
<1>2. Vacant(cleared_for(u, n), u, n)
  <2>1. Vacant(cleared_for(u, n), u, IF n > 0 THEN n ELSE 0)
    BY <1>1, ClearedForVacates
  <2>. QED
    BY <2>1
<1>. QED
  BY <1>1, <1>2 DEF Vacant, SameReserved, u

\* The constructor, told to expect num objects.
LEMMA NewTableSound ==
  ASSUME \E n \in BucketCounts : MaxSize < (n * HT_OCCUPANCY_PCT) \div 100,
         NEW num \in Nat,
         num > 0 => ~min_buckets_overflows(new_table(0).settings, num, 0)
  PROVE  /\ Sound(new_table(num)) /\ Objects(new_table(num)) = {}
         /\ num_nonempty(new_table(num)) < bucket_count(new_table(num))
         /\ new_table(num).settings.enlarge_factor = HT_OCCUPANCY_PCT
         /\ bucket_count(new_table(num)) >= HT_MIN_BUCKETS
<1>. DEFINE s == new_settings(HT_OCCUPANCY_PCT, HT_EMPTY_PCT)
            n == IF num = 0 THEN HT_DEFAULT_STARTING_BUCKETS ELSE min_buckets(s, num, 0)
            W(m) == [settings |-> s, delkey |-> DefaultKey, num_deleted |-> 0,
                     table |-> T!new_sparsetable(m)]
            u == new_table(num)
<1>1. s \in Settings /\ s.enlarge_factor = HT_OCCUPANCY_PCT
  BY DEF new_settings, Settings, Percent, HT_OCCUPANCY_PCT, HT_EMPTY_PCT
<1>2. u = thresholds_of(W(n)) /\ new_table(0) = thresholds_of(W(HT_DEFAULT_STARTING_BUCKETS))
  BY DEF new_table
<1>. HIDE DEF s
<1>3. ASSUME NEW m \in BucketCounts
      PROVE  /\ IsTable(W(m)) /\ W(m).settings = s
             /\ Vacant(thresholds_of(W(m)), W(m), m)
             /\ thresholds_of(W(m)).settings.enlarge_factor = s.enlarge_factor
  <2>1. m \in Nat
    BY BucketCountIsPower
  <2>. DEFINE tab == T!new_sparsetable(m)
              w   == W(m)
  <2>2. Blank(tab, m)
    BY <2>1, Blanks
  <2>. HIDE DEF tab
  <2>3. w.settings = s /\ w.delkey = DefaultKey /\ w.num_deleted = 0 /\ w.table = tab
    BY DEF tab
  <2>4. w = [settings |-> w.settings, delkey |-> w.delkey, num_deleted |-> 0, table |-> tab]
    BY DEF tab
  <2>. HIDE DEF w
  <2>5. IsTable(w)
    BY <1>1, <2>2, <2>3, <2>4, KeysAssumption DEF IsTable, Blank
  <2>6. Vacant(thresholds_of(w), w, m)
    BY <2>1, <2>2, <2>4, <2>5, VacantIs
  <2>7. thresholds_of(w).settings.enlarge_factor = s.enlarge_factor
    BY <2>3, <2>6 DEF Vacant, SameReserved
  <2>. QED
    BY <2>3, <2>5, <2>6, <2>7 DEF w
<1>. HIDE DEF W
<1>4. n \in BucketCounts
  <2>1. CASE num = 0
    BY <2>1, StartingSizes
  <2>2. CASE num # 0
    <3>1. new_table(0).settings.enlarge_factor = s.enlarge_factor
      BY <1>2, <1>3, StartingSizes
    <3>2. roomy_sizes(s, num, 0) # {}
      BY <2>2, <3>1 DEF min_buckets_overflows, roomy_sizes, enlarge_size
    <3>3. PICK m \in BucketCounts : num < enlarge_size(s, m)
      BY <3>2 DEF roomy_sizes
    <3>4. s.enlarge_factor \in Percent /\ 0 <= m /\ 0 \in Nat
      BY <1>1, BucketCountIsPower DEF Settings
    <3>5. min_buckets(s, num, 0) \in BucketCounts
      BY <3>3, <3>4, MinBuckets
    <3>. QED
      BY <2>2, <3>5
  <2>. QED
    BY <2>1, <2>2
<1>. HIDE DEF n
<1>5. n \in Nat /\ n >= HT_MIN_BUCKETS /\ n \in Nat \ {0}
  BY <1>4, BucketCountIsPower DEF BucketCounts
<1>6. RoomFor(W(n).settings)
  BY <1>1, <1>3, <1>4 DEF RoomFor, enlarge_size
<1>. HIDE DEF u
<1>7. Vacant(u, W(n), n) /\ IsTable(W(n)) /\ u.settings.enlarge_factor = s.enlarge_factor
  BY <1>2, <1>3, <1>4
<1>8. Sound(u) /\ Objects(u) = {} /\ num_nonempty(u) = 0
  BY <1>4, <1>6, <1>7, VacantSound
<1>9. bucket_count(u) = n
  BY <1>7 DEF Vacant
<1>. QED
  BY <1>1, <1>5, <1>7, <1>8, <1>9 DEF u

-----------------------------------------------------------------------------
(* Reading a table while a destructive iterator frees it.                  *)

\* src without the groups in front of row r.
Left(src, r) == [src EXCEPT !.table = Remains(@, r)]

\* A table being moved keeps its fields, all but the groups freed.
LEMMA LeftFields ==
  ASSUME NEW src, Sound(src), NEW r \in 1 .. Rows(src.table) + 1
  PROVE  LET d == Left(src, r)
         IN  /\ d = [settings |-> src.settings, delkey |-> src.delkey,
                     num_deleted |-> src.num_deleted, table |-> Remains(src.table, r)]
             /\ d.table = Remains(src.table, r) /\ d.num_deleted = src.num_deleted
             /\ d.delkey = src.delkey /\ d.settings = src.settings
             /\ end(d) = end(src) /\ size(d) = size(src)
<1>. DEFINE d == Left(src, r)
            tab == Remains(src.table, r)
<1>1. IsTable(src) /\ TabSound(src.table)
  BY SoundFields DEF IsTable
<1>2. d = [src EXCEPT !.table = tab]
  BY DEF Left
<1>. HIDE DEF tab, d
<1>3. d = [settings |-> src.settings, delkey |-> src.delkey,
           num_deleted |-> src.num_deleted, table |-> tab]
  BY <1>1, <1>2, TableExcept
<1>4. tab.num_buckets = src.table.num_buckets /\ End(tab) = End(src.table)
  BY <1>1, RemainsRead DEF tab
<1>5. end(d) = end(src) /\ size(d) = size(src)
  BY <1>3, <1>4 DEF end, End, size, num_nonempty
<1>. QED
  BY <1>3, <1>5 DEF tab, d

\* From a live object on, the iterator goes as it would have over all of src.
LEMMA LeftWalk ==
  ASSUME NEW src, Sound(src), NEW i \in Used(src.table)
  PROVE  LET it == Spot(src.table, i)
             d  == Left(src, it.row)
         IN  /\ it.row \in 1 .. Rows(src.table)
             /\ T!dereference(d.table, it) = object(src, i)
             /\ next(d, it) = next(src, it)
<1>. DEFINE tab == src.table
            it == Spot(tab, i)
            r == it.row
            d == Left(src, r)
            N == src.num_deleted
            Ok(at) == \/ at = End(tab)
                      \/ \E j \in Used(tab) : at = Spot(tab, j) /\ r <= at.row
<1>1. /\ TabSound(tab) /\ N \in Nat /\ Rows(tab) \in Nat
      /\ r \in 1 .. Rows(tab) /\ r \in Nat /\ r \in 1 .. Rows(tab) + 1
  <2>1. TabSound(tab) /\ N \in Nat
    BY SoundFields DEF IsTable
  <2>2. Rows(tab) \in Nat /\ r \in 1 .. Rows(tab) /\ r \in Nat
    BY <2>1, SpotIs
  <2>. QED
    BY <2>1, <2>2
<1>2. /\ d.table = Remains(tab, r) /\ d.num_deleted = N /\ d.delkey = src.delkey
      /\ end(d) = end(src)
  BY <1>1, LeftFields
<1>3. ASSUME NEW j \in Used(tab), r <= Spot(tab, j).row
      PROVE  /\ T!dereference(d.table, Spot(tab, j)) = T!dereference(tab, Spot(tab, j))
             /\ T!increment(d.table, Spot(tab, j)) = T!increment(tab, Spot(tab, j))
             /\ Ok(T!increment(tab, Spot(tab, j)))
  <2>1. Spot(tab, j).row \in r .. Rows(tab) /\ Spot(tab, j).row \in Nat
    <3>1. Spot(tab, j).row \in 1 .. Rows(tab) /\ Spot(tab, j).row \in Nat
      BY <1>1, SpotIs
    <3>. HIDE DEF r
    <3>. QED
      BY <1>1, <1>3, <3>1
  <2>2. /\ T!dereference(d.table, Spot(tab, j)) = T!dereference(tab, Spot(tab, j))
        /\ T!increment(d.table, Spot(tab, j)) = T!increment(tab, Spot(tab, j))
    BY <1>1, <1>2, <2>1, RemainsWalk
  <2>3. ASSUME NEW y \in Used(tab), T!increment(tab, Spot(tab, j)) = Spot(tab, y), j < y
        PROVE  Ok(T!increment(tab, Spot(tab, j)))
    <3>1. Behind(Spot(tab, j), Spot(tab, y))
      BY <1>1, <2>3, SpotsOrdered
    <3>2. Spot(tab, y).row \in Nat
      BY <1>1, SpotIs
    <3>3. r <= Spot(tab, y).row
      BY <1>1, <1>3, <2>1, <3>1, <3>2 DEF Behind
    <3>. QED
      BY <2>3, <3>3
  <2>4. Ok(T!increment(tab, Spot(tab, j)))
    BY <1>1, <2>3, TabWalk
  <2>. QED
    BY <2>2, <2>4
<1>4. r <= r
  BY <1>1
<1>5. /\ T!dereference(d.table, it) = object(src, i)
      /\ T!increment(d.table, it) = T!increment(tab, it) /\ Ok(T!increment(tab, it))
  <2>1. /\ T!dereference(d.table, it) = T!dereference(tab, it)
        /\ T!increment(d.table, it) = T!increment(tab, it) /\ Ok(T!increment(tab, it))
    BY <1>3, <1>4
  <2>2. T!dereference(tab, it) = object(src, i)
    BY SpotOf
  <2>. QED
    BY <2>1, <2>2
<1>6. ASSUME NEW at, Ok(at)
      PROVE  Skip(d, at) = Skip(src, at) /\ Ok(Skip(src, at))
  <2>1. CASE at = End(tab)
    BY <1>2, <2>1 DEF Skip, end, End
  <2>2. ASSUME NEW j \in Used(tab), at = Spot(tab, j), r <= at.row
        PROVE  Skip(d, at) = Skip(src, at) /\ Ok(Skip(src, at))
    <3>1. /\ T!dereference(d.table, at) = T!dereference(tab, at)
          /\ T!increment(d.table, at) = T!increment(tab, at)
          /\ Ok(T!increment(tab, at))
      BY <1>3, <2>2
    <3>2. test_deleted_at(d, at) <=> test_deleted_at(src, at)
      BY <1>2, <3>1 DEF test_deleted_at
    <3>. HIDE DEF Ok
    <3>. QED
      BY <1>2, <1>6, <3>1, <3>2 DEF Skip
  <2>. QED
    BY <1>6, <2>1, <2>2
<1>. DEFINE first == T!increment(tab, it)
<1>7. PICK u : /\ u[0] = first
               /\ \A k \in 1 .. N : u[k] = Skip(src, u[k - 1])
               /\ advance_past_deleted(src, first) = u[N]
  BY <1>1, SkipsUnfold
<1>8. PICK v : /\ v[0] = first
               /\ \A k \in 1 .. N : v[k] = Skip(d, v[k - 1])
               /\ advance_past_deleted(d, first) = v[N]
  <2>1. d.num_deleted \in Nat
    BY <1>1, <1>2
  <2>. HIDE DEF d, first, N
  <2>. QED
    BY <1>2, <2>1, SkipsUnfold
<1>. HIDE DEF Ok, d, N
<1>9. \A k \in 0 .. N : v[k] = u[k] /\ Ok(u[k])
  <2>. DEFINE Bad == {k \in 0 .. N : ~(v[k] = u[k] /\ Ok(u[k]))}
  <2>. SUFFICES ASSUME Bad # {} PROVE FALSE
    OBVIOUS
  <2>1. PICK k \in Bad : \A m \in Bad : k <= m
    <3>1. Bad \in SUBSET Nat
      OBVIOUS
    <3>. HIDE DEF Bad
    <3>. QED
      BY <3>1, LeastNumber
  <2>2. k # 0
    BY <1>5, <1>7, <1>8
  <2>3. k \in 1 .. N /\ k - 1 \in 0 .. N /\ ~(k <= k - 1)
    BY <1>1, <2>2
  <2>4. v[k - 1] = u[k - 1] /\ Ok(u[k - 1])
    BY <2>1, <2>3
  <2>5. v[k] = u[k] /\ Ok(u[k])
    BY <1>6, <1>7, <1>8, <2>3, <2>4
  <2>. QED
    BY <2>5
<1>10. advance_past_deleted(d, first) = advance_past_deleted(src, first)
  BY <1>1, <1>7, <1>8, <1>9
<1>11. next(d, it) = next(src, it)
  BY <1>5, <1>10 DEF next
<1>. QED
  BY <1>1, <1>5, <1>11 DEF d

-----------------------------------------------------------------------------
(* The loop of copy_from and move_from.                                    *)

\* An object of a key that is not in the table goes in an empty bucket.
LEMMA PlaceSound ==
  ASSUME NEW to, Sound(to), to.num_deleted = 0, size(to) < bucket_count(to),
         size(to) < MaxSize, NEW obj \in Slot, Allowed(to, obj.key),
         \A j \in LiveBuckets(to) : object(to, j).key # obj.key,
         NEW u, u = [to EXCEPT !.table = place(@, obj)]
  PROVE  \E pos : Inserts(u, to, pos, obj) /\ u.num_deleted = 0
<1>. DEFINE tab   == to.table
            n     == bucket_count(to)
            at(i) == Probe(obj.key, i, n)
            open  == {i \in Buckets(to) : test_empty(to, at(i))}
            p     == Min(open)
            pos   == at(p)
            w     == T!set(tab, pos, obj)
<1>1. /\ IsTable(to) /\ n \in BucketCounts /\ n \in Nat /\ TabSound(tab)
      /\ num_nonempty(to) = size(to)
      /\ Buckets(to) = 0 .. n - 1 /\ Buckets(to) = Numbers(tab)
      /\ obj.key \in Key
  <2>1. /\ IsTable(to) /\ n \in BucketCounts /\ n \in Nat /\ TabSound(tab)
        /\ size(to) + to.num_deleted = num_nonempty(to) /\ size(to) \in Nat
        /\ num_nonempty(to) \in Nat
    BY SoundFields DEF IsTable
  <2>2. Buckets(to) = 0 .. n - 1 /\ Buckets(to) = Numbers(tab)
    BY <2>1, Fields
  <2>3. obj.key \in Key
    BY DEF Slot
  <2>. QED
    BY <2>1, <2>2, <2>3
<1>2. place(tab, obj) = w
  <2>1. open = {i \in T!Locations(tab) : ~T!test(tab, Probe(obj.key, i, tab.table_size))}
    BY DEF Buckets, test_empty, bucket_count
  <2>. QED
    BY <2>1 DEF place, bucket_count
<1>3. open # {}
  <2>1. PICK b \in Buckets(to) : test_empty(to, b)
    BY <1>1, SomeEmpty
  <2>. QED
    BY <1>1, <2>1, ProbesAreBuckets
<1>4. p \in open /\ \A q \in open : p <= q
  <2>1. open \in SUBSET Nat
    BY <1>1
  <2>. HIDE DEF open
  <2>. QED
    BY <1>3, <2>1, MinIsMember
<1>5. p \in Buckets(to) /\ pos \in Buckets(to) /\ test_empty(to, pos)
  <2>1. p \in Buckets(to) /\ test_empty(to, at(p))
    BY <1>4
  <2>. QED
    BY <1>1, <2>1, ProbesAreBuckets
<1>6. \A q \in 0 .. p - 1 : ~test_empty(to, at(q))
  <2>. SUFFICES ASSUME NEW q \in 0 .. p - 1, test_empty(to, at(q)) PROVE FALSE
    OBVIOUS
  <2>1. q \in Buckets(to) /\ ~(p <= q)
    BY <1>1, <1>5
  <2>. QED
    BY <1>4, <2>1
<1>. HIDE DEF open, p
<1>7. Free(to, obj.key, pos)
  <2>1. \E x \in Buckets(to) : /\ at(x) = pos
                               /\ \A q \in 0 .. x - 1 : ~test_empty(to, at(q))
    BY <1>5, <1>6
  <2>. QED
    BY <1>5, <2>1 DEF Free
<1>8. u = [settings |-> to.settings, delkey |-> to.delkey,
           num_deleted |-> to.num_deleted, table |-> w]
  <2>1. u = [to EXCEPT !.table = w]
    BY <1>2
  <2>. HIDE DEF w
  <2>. QED
    BY <1>1, <2>1, TableExcept
<1>9. TabSound(w)
  BY <1>1, <1>5, SetWrites DEF Written
<1>. HIDE DEF pos, w
<1>10. /\ u.settings = to.settings /\ u.delkey = to.delkey /\ u.table = w
       /\ u.num_deleted = to.num_deleted
  BY <1>8
<1>11. IsTable(u)
  BY <1>1, <1>8, <1>9, <1>10 DEF IsTable
<1>12. ~test_deleted(to, pos)
  BY DEF test_deleted
<1>13. u.table = T!set(to.table, pos, obj)
  BY <1>10 DEF w
<1>14. Inserts(u, to, pos, obj)
  BY <1>7, <1>10, <1>11, <1>12, <1>13, PutSound
<1>. QED
  BY <1>10, <1>14

\* The live objects an iterator has passed.
Done(src, it) == {x \in LiveBuckets(src) : Behind(Spot(src.table, x), it)}

\* The loop that fills a table of n buckets with the objects of src: those the
\* iterator has passed are there, and if it frees what it passes, it has.
Underway(l, src, n, frees) ==
  /\ l = Loop(l.from, l.to, l.it)
  /\ l.from = IF frees THEN Left(src, l.it.row) ELSE src
  /\ l.it = end(src) \/ \E i \in LiveBuckets(src) : l.it = Spot(src.table, i)
  /\ Sound(l.to) /\ l.to.num_deleted = 0 /\ SameReserved(l.to, src)
  /\ bucket_count(l.to) = n /\ size(src) < n
  /\ size(l.to) = Cardinality(Done(src, l.it))
  /\ Objects(l.to) = {object(src, x) : x \in Done(src, l.it)}

\* What has been passed, from one live object to the next.
LEMMA DoneGrows ==
  ASSUME NEW src, Sound(src)
  PROVE  /\ \A it : /\ Done(src, it) \subseteq LiveBuckets(src)
                    /\ IsFiniteSet(Done(src, it)) /\ Cardinality(Done(src, it)) \in Nat
                    /\ Cardinality(Done(src, it)) <= size(src)
         /\ Done(src, end(src)) = LiveBuckets(src)
         /\ \A i \in LiveBuckets(src) :
              LET it == Spot(src.table, i)
              IN  /\ Done(src, it) = {x \in LiveBuckets(src) : x < i}
                  /\ Done(src, next(src, it)) = Done(src, it) \cup {i}
                  /\ i \notin Done(src, it)
         /\ Done(src, begin(src)) = {}
<1>. DEFINE tab == src.table
            live == LiveBuckets(src)
<1>1. /\ TabSound(tab) /\ live \subseteq Used(tab) /\ IsFiniteSet(live)
      /\ Cardinality(live) = size(src)
      /\ \A x \in live : x \in Nat
  <2>1. live \subseteq Used(tab)
    BY SoundLive
  <2>2. \A x \in live : x \in Nat
    BY <2>1, SpotOf
  <2>. QED
    BY <2>1, <2>2, SoundFields, SoundLive DEF IsTable
<1>2. ASSUME NEW it
      PROVE  /\ Done(src, it) \subseteq live
             /\ IsFiniteSet(Done(src, it)) /\ Cardinality(Done(src, it)) \in Nat
             /\ Cardinality(Done(src, it)) <= size(src)
  <2>1. Done(src, it) \subseteq live
    BY DEF Done
  <2>2. IsFiniteSet(Done(src, it)) /\ Cardinality(Done(src, it)) <= Cardinality(live)
    BY <1>1, <2>1, FS_Subset
  <2>. QED
    BY <1>1, <2>1, <2>2, FS_CardinalityType
<1>3. Done(src, end(src)) = live
  BY <1>1, SpotsOrdered DEF Done, end, End
<1>4. ASSUME NEW i \in live
      PROVE  Done(src, Spot(tab, i)) = {x \in live : x < i} /\ i \notin Done(src, Spot(tab, i))
  <2>1. \A x \in live : Behind(Spot(tab, x), Spot(tab, i)) <=> x < i
    BY <1>1, SpotsOrdered
  <2>2. ~(i < i)
    BY <1>1
  <2>. QED
    BY <2>1, <2>2 DEF Done
<1>5. ASSUME NEW it, NEW S \in SUBSET live, At(src, it, S),
             \A x \in live : x \in S \/ \A y \in S : x < y
      PROVE  Done(src, it) = live \ S
  <2>1. CASE S = {} /\ it = end(src)
    BY <1>3, <2>1
  <2>2. ASSUME NEW j \in S, it = Spot(tab, j), \A x \in S : j <= x
        PROVE  Done(src, it) = live \ S
    <3>1. Done(src, it) = {x \in live : x < j}
      BY <1>4, <2>2
    <3>2. \A x \in live : x < j <=> x \notin S
      BY <1>1, <1>5, <2>2
    <3>. QED
      BY <3>1, <3>2
  <2>. QED
    BY <1>5, <2>1, <2>2 DEF At
<1>6. ASSUME NEW i \in live
      PROVE  Done(src, next(src, Spot(tab, i))) = Done(src, Spot(tab, i)) \cup {i}
  <2>. DEFINE S == {x \in live : i < x}
  <2>1. At(src, next(src, Spot(tab, i)), S)
    BY <1>1, NextIs
  <2>2. \A x \in live : x \in S \/ \A y \in S : x < y
    BY <1>1
  <2>3. Done(src, next(src, Spot(tab, i))) = live \ S
    <3>. HIDE DEF S
    <3>1. S \in SUBSET live
      BY DEF S
    <3>. QED
      BY <1>5, <2>1, <2>2, <3>1
  <2>4. live \ S = {x \in live : x < i} \cup {i}
    BY <1>1
  <2>. QED
    BY <1>4, <2>3, <2>4
<1>7. Done(src, begin(src)) = {}
  <2>1. At(src, begin(src), live)
    BY BeginIs
  <2>2. Done(src, begin(src)) = live \ live
    <3>. HIDE DEF live
    <3>. QED
      BY <1>5, <2>1
  <2>. QED
    BY <2>2
<1>. QED
  BY <1>2, <1>3, <1>4, <1>6, <1>7

\* A loop that is not at its end puts one more object in the new table.
LEMMA StepGoesOn ==
  ASSUME NEW src, Sound(src), NEW n, NEW frees \in BOOLEAN, NEW l, Underway(l, src, n, frees),
         l.it # end(src)
  PROVE  LET m == IF frees THEN move_step(l) ELSE copy_step(l)
         IN  /\ Underway(m, src, n, frees)
             /\ Cardinality(Done(src, m.it)) = Cardinality(Done(src, l.it)) + 1
             /\ m.it = next(src, l.it)
<1>. DEFINE tab == src.table
            c   == copy_step(l)
            m   == IF frees THEN move_step(l) ELSE copy_step(l)
<1>1. PICK i \in LiveBuckets(src) : l.it = Spot(tab, i)
  BY DEF Underway
<1>. DEFINE it  == Spot(tab, i)
            obj == object(src, i)
            it2 == next(src, it)
            to2 == [l.to EXCEPT !.table = place(@, obj)]
<1>2. /\ TabSound(tab) /\ i \in Used(tab) /\ IsTable(src)
      /\ LiveBuckets(src) \subseteq Used(tab)
      /\ obj \in Slot /\ Allowed(src, obj.key)
      /\ size(src) <= MaxSize /\ MaxSize \in Nat /\ size(src) \in Nat
  <2>1. LiveBuckets(src) \subseteq Used(tab) /\ obj \in Slot /\ Allowed(src, obj.key)
    BY SoundLive DEF Allowed
  <2>. QED
    BY <2>1, SoundFields DEF IsTable
<1>3. /\ T!dereference(l.from.table, it) = obj /\ next(l.from, it) = it2
  <2>1. CASE frees
    BY <1>1, <1>2, <2>1, LeftWalk DEF Underway
  <2>2. CASE ~frees
    BY <1>1, <1>2, <2>2, SpotOf DEF Underway
  <2>. QED
    BY <2>1, <2>2
<1>4. c = Loop(l.from, to2, it2)
  BY <1>1, <1>3 DEF copy_step
<1>5. /\ Done(src, it2) = Done(src, it) \cup {i} /\ i \notin Done(src, it)
      /\ Done(src, it) \subseteq LiveBuckets(src) /\ IsFiniteSet(Done(src, it))
      /\ Cardinality(Done(src, it)) \in Nat /\ Cardinality(Done(src, it2)) \in Nat
      /\ Cardinality(Done(src, it2)) <= size(src)
  BY DoneGrows
<1>6. Cardinality(Done(src, it2)) = Cardinality(Done(src, it)) + 1
  BY <1>5, FS_AddElement
<1>7. /\ Sound(l.to) /\ l.to.num_deleted = 0 /\ SameReserved(l.to, src)
      /\ bucket_count(l.to) = n /\ size(src) < n
      /\ size(l.to) = Cardinality(Done(src, it))
      /\ Objects(l.to) = {object(src, x) : x \in Done(src, it)}
  BY <1>1 DEF Underway
<1>8. size(l.to) < size(src) /\ size(l.to) < bucket_count(l.to) /\ size(l.to) < MaxSize
  <2>1. n \in Nat /\ size(l.to) \in Nat
    BY <1>7, SoundFields
  <2>2. size(l.to) + 1 <= size(src)
    BY <1>5, <1>6, <1>7
  <2>. QED
    BY <1>2, <1>7, <2>1, <2>2
<1>9. Allowed(l.to, obj.key)
  BY <1>2, <1>7 DEF Allowed, SameReserved
<1>10. \A j \in LiveBuckets(l.to) : object(l.to, j).key # obj.key
  <2>. SUFFICES ASSUME NEW j \in LiveBuckets(l.to), object(l.to, j).key = obj.key PROVE FALSE
    OBVIOUS
  <2>1. object(l.to, j) \in Objects(l.to)
    BY DEF Objects
  <2>2. PICK x \in Done(src, it) : object(l.to, j) = object(src, x)
    BY <1>7, <2>1
  <2>3. x = i
    BY <1>5, <2>2 DEF Sound, NoneTwice
  <2>. QED
    BY <1>5, <2>3
<1>11. PICK pos : Inserts(to2, l.to, pos, obj) /\ to2.num_deleted = 0
  <2>. HIDE DEF obj
  <2>. QED
    BY <1>2, <1>7, <1>8, <1>9, <1>10, PlaceSound
<1>16. /\ frees => m = [c EXCEPT !.from = freed(c.from, l.it, c.it)]
       /\ ~frees => m = c
  BY DEF move_step
<1>. HIDE DEF to2, it2, c, m
<1>12. m.to = to2 /\ m.it = it2 /\ m = Loop(m.from, m.to, m.it)
       /\ m.from = IF frees THEN Left(src, it2.row) ELSE src
  <2>1. CASE ~frees
    <3>1. l.from = src
      BY <2>1 DEF Underway
    <3>. QED
      BY <1>4, <1>16, <2>1, <3>1 DEF Loop
  <2>2. CASE frees
    <3>. DEFINE r == it.row
                s == it2.row
                w == freed(l.from, it, it2)
    <3>1. l.from = Left(src, r)
      BY <1>1, <2>2 DEF Underway
    <3>2. m = [c EXCEPT !.from = w]
      BY <1>1, <1>4, <1>16, <2>2 DEF Loop
    <3>. HIDE DEF w
    <3>3. m = Loop(w, to2, it2)
      BY <1>4, <3>2 DEF Loop
    <3>4. r \in 1 .. Rows(tab) + 1 /\ s \in r .. Rows(tab) + 1
      <4>1. r \in 1 .. Rows(tab) /\ r \in Nat /\ Rows(tab) \in Nat
        BY <1>2, SpotIs
      <4>2. CASE it2 = end(src)
        <5>1. s = Rows(tab) + 1
          BY <1>2, <4>2, SpotIs DEF end, End
        <5>. HIDE DEF r, s
        <5>. QED
          BY <4>1, <5>1
      <4>3. ASSUME NEW y \in LiveBuckets(src), it2 = Spot(tab, y), i < y
            PROVE  s \in r .. Rows(tab) + 1
        <5>1. Behind(it, it2) /\ s \in 1 .. Rows(tab) /\ s \in Nat
          BY <1>2, <4>3, SpotIs, SpotsOrdered
        <5>2. r <= s
          <6>. HIDE DEF it
          <6>. QED
            BY <4>1, <5>1 DEF Behind
        <5>. HIDE DEF r, s
        <5>. QED
          BY <4>1, <5>1, <5>2
      <4>4. At(src, it2, {x \in LiveBuckets(src) : i < x})
        BY <1>2, NextIs DEF it2
      <4>5. s \in r .. Rows(tab) + 1
        BY <4>2, <4>3, <4>4 DEF At
      <4>. HIDE DEF r, s
      <4>. QED
        BY <4>1, <4>5
    <3>5. w = Left(src, s)
      <4>. DEFINE d == Left(src, r)
                  a == T!destroy_rows(d.table, r, s)
      <4>1. d = [settings |-> src.settings, delkey |-> src.delkey,
                 num_deleted |-> src.num_deleted, table |-> Remains(tab, r)]
        BY <3>4, LeftFields
      <4>2. a = Remains(tab, s)
        BY <1>2, <3>4, <4>1, RemainsOn
      <4>3. w = [d EXCEPT !.table = a]
        BY <3>1 DEF freed, w
      <4>. HIDE DEF a, d
      <4>4. w = [settings |-> src.settings, delkey |-> src.delkey,
                 num_deleted |-> src.num_deleted, table |-> a]
        BY <4>1, <4>3
      <4>5. s \in 1 .. Rows(tab) + 1
        BY <3>4
      <4>6. Left(src, s) = [settings |-> src.settings, delkey |-> src.delkey,
                            num_deleted |-> src.num_deleted, table |-> Remains(tab, s)]
        BY <4>5, LeftFields
      <4>. QED
        BY <4>2, <4>4, <4>6
    <3>. QED
      BY <2>2, <3>3, <3>5 DEF Loop
  <2>. QED
    BY <2>1, <2>2
<1>13. it2 = end(src) \/ \E y \in LiveBuckets(src) : it2 = Spot(tab, y)
  BY <1>2, NextIs DEF it2, At
<1>14. /\ Sound(to2) /\ SameReserved(to2, src) /\ bucket_count(to2) = n
       /\ size(to2) = Cardinality(Done(src, it2))
       /\ Objects(to2) = {object(src, x) : x \in Done(src, it2)}
  <2>1. Sound(to2) /\ SameReserved(to2, src) /\ bucket_count(to2) = n
    BY <1>7, <1>11 DEF Inserts, SameReserved
  <2>2. size(to2) = Cardinality(Done(src, it2))
    BY <1>6, <1>7, <1>11 DEF Inserts
  <2>3. Objects(to2) = {object(src, x) : x \in Done(src, it)} \cup {obj}
    BY <1>7, <1>11 DEF Inserts
  <2>4. {object(src, x) : x \in Done(src, it)} \cup {obj} = {object(src, x) : x \in Done(src, it2)}
    BY <1>5
  <2>. QED
    BY <2>1, <2>2, <2>3, <2>4
<1>15. Underway(m, src, n, frees)
  BY <1>7, <1>11, <1>12, <1>13, <1>14 DEF Underway
<1>. QED
  BY <1>1, <1>6, <1>12, <1>15 DEF it2, m

\* It is at its end exactly when all objects are in the new table.
LEMMA LoopEnds ==
  ASSUME NEW src, Sound(src), NEW n, NEW frees \in BOOLEAN, NEW l, Underway(l, src, n, frees)
  PROVE  /\ loop_ended(l) <=> l.it = end(src)
         /\ size(l.from) = size(src)
         /\ l.it = end(src) <=> Cardinality(Done(src, l.it)) = size(src)
         /\ l.it = end(src) => Sound(l.to) /\ SameMap(l.to, src)
<1>1. end(l.from) = end(src) /\ size(l.from) = size(src)
  <2>1. CASE frees
    <3>1. l.it.row \in 1 .. Rows(src.table) + 1
      <4>1. TabSound(src.table) /\ Rows(src.table) \in Nat
        BY SoundFields, SpotIs DEF IsTable
      <4>2. CASE l.it = end(src)
        <5>1. l.it.row = Rows(src.table) + 1
          BY <4>1, <4>2, SpotIs DEF end, End
        <5>. QED
          BY <4>1, <5>1
      <4>3. ASSUME NEW i \in LiveBuckets(src), l.it = Spot(src.table, i)
            PROVE  l.it.row \in 1 .. Rows(src.table) + 1
        <5>1. l.it.row \in 1 .. Rows(src.table)
          BY <4>1, <4>3, SoundLive, SpotIs
        <5>. QED
          BY <4>1, <5>1
      <4>. QED
        BY <4>2, <4>3 DEF Underway
    <3>2. l.from = Left(src, l.it.row)
      BY <2>1 DEF Underway
    <3>. QED
      BY <3>1, <3>2, LeftFields
  <2>2. CASE ~frees
    BY <2>2 DEF Underway
  <2>. QED
    BY <2>1, <2>2
<1>2. /\ IsFiniteSet(LiveBuckets(src)) /\ Cardinality(LiveBuckets(src)) = size(src)
      /\ size(src) \in Nat
  BY SoundLive, SoundFields
<1>3. ASSUME l.it = end(src)
      PROVE  Cardinality(Done(src, l.it)) = size(src) /\ Sound(l.to) /\ SameMap(l.to, src)
  <2>1. Done(src, l.it) = LiveBuckets(src)
    BY <1>3, DoneGrows
  <2>. QED
    BY <1>2, <2>1 DEF Underway, SameMap, Objects
<1>4. ASSUME l.it # end(src)
      PROVE  Cardinality(Done(src, l.it)) # size(src)
  <2>1. PICK i \in LiveBuckets(src) : l.it = Spot(src.table, i)
    BY <1>4 DEF Underway
  <2>2. /\ Done(src, l.it) \subseteq LiveBuckets(src) /\ i \notin Done(src, l.it)
        /\ IsFiniteSet(Done(src, l.it)) /\ Cardinality(Done(src, l.it)) \in Nat
    BY <2>1, DoneGrows
  <2>3. Cardinality(Done(src, l.it)) < Cardinality(LiveBuckets(src))
    BY <1>2, <2>2, FS_Subset
  <2>. QED
    BY <1>2, <2>2, <2>3
<1>. QED
  BY <1>1, <1>3, <1>4 DEF loop_ended

\* The loop from its beginning,
LEMMA LoopBegins ==
  ASSUME NEW src, Sound(src), NEW n \in BucketCounts, size(src) < n,
         NEW to, Vacant(to, src, n)
  PROVE  /\ Underway(copy_begin(to, src), src, n, FALSE)
         /\ Underway(move_begin(to, src), src, n, TRUE)
         /\ Done(src, copy_begin(to, src).it) = {} /\ Done(src, move_begin(to, src).it) = {}
         /\ copy_begin(to, src).it = begin(src) /\ move_begin(to, src).it = begin(src)
         /\ move_begin(to, src).to = to
<1>. DEFINE it == begin(src)
            c  == copy_begin(to, src)
            m  == move_begin(to, src)
            w  == freed(src, T!Iterator(1, 0), it)
<1>1. c = Loop(src, to, it) /\ m = Loop(w, to, it)
  BY DEF copy_begin, move_begin
<1>2. w = Left(src, it.row)
  BY DEF freed, Left, Remains, T!Iterator
<1>3. Done(src, it) = {}
  BY DoneGrows
<1>4. Cardinality(Done(src, it)) = 0 /\ {object(src, x) : x \in Done(src, it)} = {}
  BY <1>3, FS_EmptySet
<1>5. it = end(src) \/ \E i \in LiveBuckets(src) : it = Spot(src.table, i)
  BY BeginIs DEF At
<1>6. IsTable(src) /\ RoomFor(src.settings)
  BY SoundFields
<1>7. Sound(to) /\ Objects(to) = {} /\ size(to) = 0
  BY <1>6, VacantSound
<1>8. to.num_deleted = 0 /\ SameReserved(to, src) /\ bucket_count(to) = n
  BY DEF Vacant
<1>. HIDE DEF it, w, c, m
<1>9. /\ c.from = src /\ c.to = to /\ c.it = it /\ c = Loop(c.from, c.to, c.it)
      /\ m.from = w /\ m.to = to /\ m.it = it /\ m = Loop(m.from, m.to, m.it)
  BY <1>1 DEF Loop
<1>10. Underway(c, src, n, FALSE)
  BY <1>4, <1>5, <1>7, <1>8, <1>9 DEF Underway
<1>11. Underway(m, src, n, TRUE)
  BY <1>2, <1>4, <1>5, <1>7, <1>8, <1>9 DEF Underway
<1>. QED
  BY <1>3, <1>9, <1>10, <1>11 DEF it, c, m

\* As many steps as there are objects take a move to its end, whether it frees
\* the groups behind it or not: the target holds what the source did.
LEMMA AllSteps ==
  ASSUME NEW src, Sound(src), NEW n, NEW frees \in BOOLEAN, NEW upto,
         Underway(upto[0], src, n, frees), Done(src, upto[0].it) = {},
         \A i \in 1 .. size(src) :
           upto[i] = IF frees THEN move_step(upto[i - 1]) ELSE copy_step(upto[i - 1])
  PROVE  LET u == upto[size(src)].to
         IN  Sound(u) /\ SameMap(u, src) /\ u.num_deleted = 0 /\ bucket_count(u) = n
<1>. DEFINE N == size(src)
            Good(i) == Underway(upto[i], src, n, frees) /\ Cardinality(Done(src, upto[i].it)) = i
<1>1. N \in Nat
  BY SoundFields
<1>2. Good(0)
  BY FS_EmptySet
<1>3. ASSUME NEW i \in 1 .. N, Good(i - 1)
      PROVE  Good(i)
  <2>. DEFINE l == upto[i - 1]
  <2>1. Underway(l, src, n, frees) /\ Cardinality(Done(src, l.it)) = i - 1
    BY <1>3
  <2>2. l.it # end(src)
    <3>1. i - 1 # N
      BY <1>1
    <3>. HIDE DEF l
    <3>. QED
      BY <2>1, <3>1, LoopEnds
  <2>. DEFINE m == IF frees THEN move_step(l) ELSE copy_step(l)
  <2>3. upto[i] = m
    OBVIOUS
  <2>. HIDE DEF l
  <2>4. Underway(m, src, n, frees) /\ Cardinality(Done(src, m.it)) = Cardinality(Done(src, l.it)) + 1
    BY <2>1, <2>2, StepGoesOn
  <2>5. i - 1 + 1 = i
    OBVIOUS
  <2>. HIDE DEF m
  <2>. QED
    BY <2>1, <2>3, <2>4, <2>5
<1>. HIDE DEF Good
<1>4. \A i \in 0 .. N : Good(i)
  <2>. DEFINE Bad == {i \in 0 .. N : ~Good(i)}
  <2>. SUFFICES ASSUME Bad # {} PROVE FALSE
    OBVIOUS
  <2>1. PICK i \in Bad : \A m \in Bad : i <= m
    <3>1. Bad \in SUBSET Nat
      OBVIOUS
    <3>. HIDE DEF Bad
    <3>. QED
      BY <3>1, LeastNumber
  <2>2. i # 0
    BY <1>2
  <2>3. i \in 1 .. N /\ i - 1 \in 0 .. N /\ ~(i <= i - 1)
    BY <1>1, <2>2
  <2>. QED
    BY <1>3, <2>1, <2>3
<1>5. Good(N)
  BY <1>1, <1>4
<1>. DEFINE l == upto[N]
<1>6. Underway(l, src, n, frees) /\ Cardinality(Done(src, l.it)) = size(src)
  BY <1>5 DEF Good
<1>. HIDE DEF l, N
<1>7. Sound(l.to) /\ SameMap(l.to, src)
  BY <1>6, LoopEnds
<1>. QED
  BY <1>6, <1>7 DEF Underway, l, N

\* move_from and copy_from, all of their steps: a sound table of the size asked
\* for, with the same objects and no deleted bucket.
LEMMA MovedSound ==
  ASSUME NEW src, Sound(src), NEW n \in BucketCounts, size(src) < n
  PROVE  LET u == moved(src, n)
         IN  /\ Sound(u) /\ SameMap(u, src) /\ u.num_deleted = 0
             /\ bucket_count(u) = n /\ num_nonempty(u) = size(src)
<1>. DEFINE to == cleared_for(no_buckets_of(src), n)
            l  == move_begin(to, src)
            r  == run(l, move_step)
            u  == moved(src, n)
<1>1. IsTable(src) /\ n \in Nat /\ size(src) \in Nat
  BY SoundFields, BucketCountIsPower
<1>2. Vacant(to, src, n)
  BY <1>1, ConstructedVacates
<1>3. u = swapped(r.to)
  BY DEF moved, moving_to, move_end
<1>. HIDE DEF to
<1>4. Underway(l, src, n, TRUE) /\ Done(src, l.it) = {}
  BY <1>2, LoopBegins
<1>. HIDE DEF l, u
<1>5. size(l.from) = size(src)
  BY <1>4, LoopEnds
<1>6. PICK upto : /\ upto[0] = l
                  /\ \A i \in 1 .. size(l.from) : upto[i] = move_step(upto[i - 1])
                  /\ r = upto[size(l.from)]
  BY <1>1, <1>5, MoveUnfolds
<1>. HIDE DEF r
<1>7. Sound(r.to) /\ SameMap(r.to, src) /\ r.to.num_deleted = 0 /\ bucket_count(r.to) = n
  <2>1. \A i \in 1 .. size(src) :
          upto[i] = IF TRUE THEN move_step(upto[i - 1]) ELSE copy_step(upto[i - 1])
    BY <1>5, <1>6
  <2>2. Underway(upto[0], src, n, TRUE) /\ Done(src, upto[0].it) = {}
    BY <1>4, <1>6
  <2>3. LET w == upto[size(src)].to
        IN  Sound(w) /\ SameMap(w, src) /\ w.num_deleted = 0 /\ bucket_count(w) = n
    BY <2>1, <2>2, AllSteps
  <2>. QED
    BY <1>5, <1>6, <2>3
<1>8. /\ Sound(u) /\ SameMap(u, r.to) /\ u.num_deleted = 0 /\ bucket_count(u) = n
  BY <1>3, <1>7, SwappedSound
<1>9. SameMap(u, src)
  BY <1>7, <1>8 DEF SameMap, SameReserved
<1>10. num_nonempty(u) = size(src)
  <2>1. size(u) + u.num_deleted = num_nonempty(u) /\ size(u) \in Nat
    BY <1>8, SoundFields
  <2>2. size(u) = size(src)
    BY <1>9 DEF SameMap
  <2>. QED
    BY <1>8, <2>1, <2>2
<1>. QED
  BY <1>8, <1>9, <1>10 DEF u

\* copy_from, of a table with room for the objects of another one.
LEMMA CopyFromSound ==
  ASSUME NEW src, Sound(src), NEW t, IsTable(t), SameReserved(t, src),
         bucket_count(t) \in BucketCounts \cup {0}, NEW wanted \in BucketCounts
  PROVE  LET u == copy_from(t, src, wanted)
         IN  /\ Sound(u) /\ SameMap(u, src) /\ u.num_deleted = 0
             /\ wanted <= bucket_count(u) /\ num_nonempty(u) < bucket_count(u)
<1>. DEFINE m  == min_buckets(t.settings, size(src), wanted)
            n  == IF m > bucket_count(t) THEN m ELSE bucket_count(t)
            to == cleared_for(t, m)
            l  == copy_begin(to, src)
            r  == run(l, copy_step)
            u  == copy_from(t, src, wanted)
<1>1. /\ size(src) \in Nat /\ size(src) <= MaxSize /\ RoomFor(t.settings)
      /\ t.settings \in Settings /\ wanted \in Nat /\ wanted <= wanted
      /\ bucket_count(t) \in Nat
  <2>1. RoomFor(t.settings)
    BY SoundFields, SameRoom DEF SameReserved
  <2>2. wanted \in Nat /\ wanted <= wanted
    BY BucketCountIsPower
  <2>. QED
    BY <2>1, <2>2, SoundFields, Fields
<1>2. m \in BucketCounts /\ wanted <= m /\ size(src) < m
  BY <1>1, RoomyEnough
<1>3. u = r.to
  BY DEF copy_from
<1>. HIDE DEF m
<1>4. m \in Nat
  BY <1>2, BucketCountIsPower
<1>5. n \in BucketCounts /\ wanted <= n /\ size(src) < n
  BY <1>1, <1>2, <1>4
<1>6. Vacant(to, src, n)
  <2>1. Vacant(to, t, n)
    BY <1>4, ClearedForVacates
  <2>. HIDE DEF to, n
  <2>. QED
    BY <2>1 DEF Vacant, SameReserved
<1>. HIDE DEF to, n
<1>7. Underway(l, src, n, FALSE) /\ Done(src, l.it) = {} /\ l.from = src
  <2>1. Underway(l, src, n, FALSE) /\ Done(src, l.it) = {}
    BY <1>5, <1>6, LoopBegins
  <2>. HIDE DEF l
  <2>. QED
    BY <2>1 DEF Underway
<1>. HIDE DEF l, u
<1>8. PICK upto : /\ upto[0] = l
                  /\ \A i \in 1 .. size(src) : upto[i] = copy_step(upto[i - 1])
                  /\ r = upto[size(src)]
  <2>1. size(l.from) \in Nat
    BY <1>1, <1>7
  <2>2. \E upto :
           /\ upto[0] = l
           /\ \A i \in 1 .. size(l.from) : upto[i] = copy_step(upto[i - 1])
           /\ r = upto[size(l.from)]
    BY <2>1, CopyUnfolds
  <2>. QED
    BY <1>7, <2>2
<1>. HIDE DEF r
<1>9. Sound(r.to) /\ SameMap(r.to, src) /\ r.to.num_deleted = 0 /\ bucket_count(r.to) = n
  <2>1. \A i \in 1 .. size(src) :
          upto[i] = IF FALSE THEN move_step(upto[i - 1]) ELSE copy_step(upto[i - 1])
    BY <1>8
  <2>2. Underway(upto[0], src, n, FALSE) /\ Done(src, upto[0].it) = {}
    BY <1>7, <1>8
  <2>3. LET w == upto[size(src)].to
        IN  Sound(w) /\ SameMap(w, src) /\ w.num_deleted = 0 /\ bucket_count(w) = n
    BY <2>1, <2>2, AllSteps
  <2>. QED
    BY <1>8, <2>3
<1>10. num_nonempty(u) < bucket_count(u)
  <2>1. size(u) + u.num_deleted = num_nonempty(u) /\ size(u) \in Nat
    BY <1>3, <1>9, SoundFields
  <2>2. size(u) = size(src) /\ bucket_count(u) = n /\ u.num_deleted = 0
    BY <1>3, <1>9 DEF SameMap
  <2>. QED
    BY <1>5, <2>1, <2>2
<1>. QED
  BY <1>3, <1>5, <1>9, <1>10 DEF u

\* The copy constructor.
LEMMA CopyOfSound ==
  ASSUME NEW src, Sound(src), NEW wanted \in BucketCounts
  PROVE  LET u == copy_of(src, wanted)
         IN  /\ Sound(u) /\ SameMap(u, src) /\ u.num_deleted = 0
             /\ wanted <= bucket_count(u) /\ num_nonempty(u) < bucket_count(u)
<1>. DEFINE v == no_buckets_of(src)
<1>1. IsTable(v) /\ SameReserved(v, src) /\ bucket_count(v) = 0
  BY NoBucketsVacant, SoundFields DEF Vacant
<1>. HIDE DEF v
<1>2. LET u == copy_from(v, src, wanted)
      IN  /\ Sound(u) /\ SameMap(u, src) /\ u.num_deleted = 0
          /\ wanted <= bucket_count(u) /\ num_nonempty(u) < bucket_count(u)
  BY <1>1, CopyFromSound
<1>. QED
  BY <1>2 DEF copy_of, v

\* operator= leaves a copy of the other table.
LEMMA AssignSound ==
  ASSUME NEW t, Sound(t), NEW src, Sound(src)
  PROVE  LET u == assign(t, src)
         IN  /\ Sound(u) /\ SameMap(u, src) /\ u.num_deleted = 0
             /\ HT_MIN_BUCKETS <= bucket_count(u) /\ num_nonempty(u) < bucket_count(u)
<1>. DEFINE v == [t EXCEPT !.settings    = src.settings,
                           !.delkey      = src.delkey,
                           !.num_deleted = src.num_deleted]
<1>1. /\ v.settings = src.settings /\ v.delkey = src.delkey
      /\ v.num_deleted = src.num_deleted /\ v.table = t.table
      /\ v = [settings |-> v.settings, delkey |-> v.delkey,
              num_deleted |-> v.num_deleted, table |-> v.table]
  <2>. DEFINE a == t.settings
              b == t.delkey
              c == t.num_deleted
              d == t.table
              x == src.settings
              y == src.delkey
              z == src.num_deleted
              e == [t EXCEPT !.settings = x]
              f == [e EXCEPT !.delkey = y]
              g == [f EXCEPT !.num_deleted = z]
  <2>1. t = [settings |-> a, delkey |-> b, num_deleted |-> c, table |-> d]
    BY SoundFields DEF IsTable
  <2>2. v = g
    OBVIOUS
  <2>. HIDE DEF a, b, c, d, x, y, z, v, g
  <2>3. e = [settings |-> x, delkey |-> b, num_deleted |-> c, table |-> d]
    BY <2>1
  <2>. HIDE DEF e
  <2>4. f = [settings |-> x, delkey |-> y, num_deleted |-> c, table |-> d]
    BY <2>3
  <2>. HIDE DEF f
  <2>5. g = [settings |-> x, delkey |-> y, num_deleted |-> z, table |-> d]
    BY <2>4 DEF g
  <2>6. v = [settings |-> x, delkey |-> y, num_deleted |-> z, table |-> d]
    BY <2>2, <2>5
  <2>7. v.settings = x /\ v.delkey = y /\ v.num_deleted = z /\ v.table = d
    BY <2>6
  <2>. QED
    BY <2>6, <2>7 DEF x, y, z, d
<1>2. assign(t, src) = copy_from(v, src, HT_MIN_BUCKETS)
  BY DEF assign
<1>. HIDE DEF v
<1>3. IsTable(v) /\ SameReserved(v, src) /\ bucket_count(v) \in BucketCounts
  <2>1. IsTable(t) /\ IsTable(src) /\ bucket_count(t) \in BucketCounts
    BY SoundFields
  <2>. QED
    BY <1>1, <2>1 DEF IsTable, SameReserved, bucket_count
<1>4. LET u == copy_from(v, src, HT_MIN_BUCKETS)
      IN  /\ Sound(u) /\ SameMap(u, src) /\ u.num_deleted = 0
          /\ HT_MIN_BUCKETS <= bucket_count(u) /\ num_nonempty(u) < bucket_count(u)
  BY <1>3, StartingSizes, CopyFromSound
<1>. QED
  BY <1>2, <1>4

\* clear.
LEMMA ClearSound ==
  ASSUME NEW t, Sound(t)
  PROVE  LET u == clear(t)
         IN  /\ Sound(u) /\ SameReserved(u, t) /\ Objects(u) = {}
             /\ num_nonempty(u) < bucket_count(u) /\ bucket_count(u) = bucket_count(t)
<1>. DEFINE u == clear(t)
<1>1. IsTable(t) /\ RoomFor(t.settings) /\ bucket_count(t) \in BucketCounts
      /\ bucket_count(t) \in Nat \ {0}
  BY SoundFields
<1>2. Vacant(u, t, bucket_count(t))
  BY <1>1, ClearVacates
<1>. HIDE DEF u
<1>3. Sound(u) /\ Objects(u) = {} /\ num_nonempty(u) = 0
  BY <1>1, <1>2, VacantSound
<1>. QED
  BY <1>1, <1>2, <1>3 DEF Vacant, u

-----------------------------------------------------------------------------
(* Resizing.                                                               *)

\* After d more buckets are taken there is still an empty one, under a grow
\* factor that sees to it.
Spare(t, d) == t.settings.enlarge_factor < 100 /\ num_nonempty(t) + d < bucket_count(t)

\* Nothing but the settings of u may differ from t.
SameBuckets(u, t) ==
  u.table = t.table /\ u.delkey = t.delkey /\ u.num_deleted = t.num_deleted

\* What resizing t, for d more objects, may leave and answer: "kept" when no
\* object moved.
Resized(r, t, d) ==
  /\ Sound(r.ht) /\ SameMap(r.ht, t)
  /\ r.res \in {"kept", "resized", "length_error"}
  /\ r.res = "kept" => SameBuckets(r.ht, t)
  /\ Spare(t, 0) => /\ Spare(r.ht, 0)
                    /\ r.res # "length_error" => Spare(r.ht, d)

\* A table with other settings.
LEMMA SettingsExcept ==
  ASSUME NEW t, IsTable(t), NEW s
  PROVE  [t EXCEPT !.settings = s] = [settings |-> s, delkey |-> t.delkey,
                                      num_deleted |-> t.num_deleted, table |-> t.table]
<1>. DEFINE a == t.settings
            b == t.delkey
            c == t.num_deleted
            d == t.table
<1>1. t = [settings |-> a, delkey |-> b, num_deleted |-> c, table |-> d]
  BY DEF IsTable
<1>. HIDE DEF a, b, c, d
<1>2. [t EXCEPT !.settings = s] = [settings |-> s, delkey |-> b, num_deleted |-> c, table |-> d]
  BY <1>1
<1>. QED
  BY <1>2 DEF b, c, d

\* The wish to shrink is dropped.
LEMMA ConsideredSound ==
  ASSUME NEW t, Sound(t)
  PROVE  LET u == considered(t)
         IN  /\ Sound(u) /\ SameMap(u, t) /\ SameBuckets(u, t)
             /\ LiveBuckets(u) = LiveBuckets(t)
             /\ bucket_count(u) = bucket_count(t) /\ num_nonempty(u) = num_nonempty(t)
<1>. DEFINE s == [t.settings EXCEPT !.consider_shrink = FALSE]
            u == considered(t)
<1>1. IsTable(t) /\ t.settings \in Settings /\ RoomFor(t.settings) /\ InSync(t)
  BY SoundFields DEF Sound
<1>2. /\ s \in Settings /\ s.enlarge_factor = t.settings.enlarge_factor
      /\ s.shrink_factor = t.settings.shrink_factor
      /\ s.enlarge_threshold = t.settings.enlarge_threshold
      /\ s.shrink_threshold = t.settings.shrink_threshold
      /\ s.use_deleted = t.settings.use_deleted
  BY <1>1 DEF Settings
<1>3. u = [t EXCEPT !.settings = s]
  BY DEF considered
<1>. HIDE DEF s, u
<1>4. u = [settings |-> s, delkey |-> t.delkey, num_deleted |-> t.num_deleted, table |-> t.table]
  BY <1>1, <1>3, SettingsExcept
<1>5. u.settings = s /\ SameBuckets(u, t)
  BY <1>4 DEF SameBuckets
<1>6. IsTable(u)
  BY <1>1, <1>2, <1>4, <1>5 DEF IsTable, SameBuckets
<1>7. RoomFor(u.settings)
  BY <1>1, <1>2, <1>5, SameRoom
<1>8. InSync(u)
  BY <1>1, <1>2, <1>5 DEF InSync, enlarge_size, shrink_size, bucket_count, SameBuckets
<1>9. /\ Sound(u) /\ Objects(u) = Objects(t) /\ size(u) = size(t)
      /\ LiveBuckets(u) = LiveBuckets(t) /\ num_nonempty(u) = num_nonempty(t)
      /\ bucket_count(u) = bucket_count(t)
  BY <1>2, <1>5, <1>6, <1>7, <1>8, SettingsOnly DEF SameBuckets
<1>. QED
  BY <1>2, <1>5, <1>9 DEF SameMap, SameReserved, SameBuckets, u

\* What maybe_shrink shrinks to has room.
LEMMA ShrunkSize ==
  ASSUME NEW t, Sound(t), shrinks(t)
  PROVE  shrunk_size(t) \in BucketCounts /\ size(t) < shrunk_size(t)
<1>. DEFINE sizes == {n \in BucketCounts :
                        /\ HT_DEFAULT_STARTING_BUCKETS <= n /\ n < bucket_count(t)
                        /\ \/ n = HT_DEFAULT_STARTING_BUCKETS
                           \/ size(t) >= shrink_size(t.settings, n)}
            m == Max(sizes)
<1>1. sizes \in SUBSET (0 .. SizeMax) /\ SizeMax \in Nat
  BY SizesAssumption DEF BucketCounts
<1>2. HT_DEFAULT_STARTING_BUCKETS \in sizes
  BY StartingSizes, BucketCountIsPower, SoundFields DEF shrinks
<1>3. m \in sizes
  BY <1>1, <1>2, MaxIsMember
<1>4. m \in BucketCounts
  BY <1>3
<1>. HIDE DEF m, sizes
<1>5. m \in Nat /\ m <= m
  BY <1>4, BucketCountIsPower
<1>6. /\ min_buckets(t.settings, size(t), m) \in BucketCounts
      /\ size(t) < min_buckets(t.settings, size(t), m)
  BY <1>4, <1>5, SoundFields, RoomyEnough
<1>. QED
  BY <1>6 DEF shrunk_size, m, sizes

\* maybe_shrink, whether it shrinks or drops the request.
LEMMA MaybeShrinkSound ==
  ASSUME NEW t, Sound(t)
  PROVE  Resized(maybe_shrink(t), t, 0)
<1>1. Resized(Outcome(considered(t), "kept"), t, 0)
  <2>. DEFINE u == considered(t)
  <2>1. /\ Sound(u) /\ SameMap(u, t) /\ SameBuckets(u, t)
        /\ bucket_count(u) = bucket_count(t) /\ num_nonempty(u) = num_nonempty(t)
    BY ConsideredSound
  <2>. HIDE DEF u
  <2>2. Spare(t, 0) => Spare(u, 0)
    BY <2>1 DEF Spare, SameMap, SameReserved
  <2>3. Resized(Outcome(u, "kept"), t, 0)
    BY <2>1, <2>2 DEF Resized, Outcome
  <2>. QED
    BY <2>3 DEF u
<1>2. ASSUME shrinks(t)
      PROVE  Resized(Outcome(considered(moved(t, shrunk_size(t))), "resized"), t, 0)
  <2>. DEFINE n == shrunk_size(t)
              v == moved(t, n)
              u == considered(v)
  <2>1. n \in BucketCounts /\ size(t) < n
    BY <1>2, ShrunkSize
  <2>. HIDE DEF n
  <2>2. /\ Sound(v) /\ SameMap(v, t) /\ bucket_count(v) = n /\ num_nonempty(v) = size(t)
    BY <2>1, MovedSound
  <2>. HIDE DEF v
  <2>3. /\ Sound(u) /\ SameMap(u, v)
        /\ bucket_count(u) = bucket_count(v) /\ num_nonempty(u) = num_nonempty(v)
    BY <2>2, ConsideredSound
  <2>. HIDE DEF u
  <2>4. SameMap(u, t)
    BY <2>2, <2>3 DEF SameMap, SameReserved
  <2>5. Spare(t, 0) => Spare(u, 0)
    <3>1. num_nonempty(u) + 0 < bucket_count(u)
      BY <2>1, <2>2, <2>3, SoundFields
    <3>. QED
      BY <2>4, <3>1 DEF Spare, SameMap, SameReserved
  <2>6. Resized(Outcome(u, "resized"), t, 0)
    BY <2>3, <2>4, <2>5 DEF Resized, Outcome
  <2>. QED
    BY <2>6 DEF u, v, n
<1>. QED
  BY <1>1, <1>2 DEF maybe_shrink

\* Where there is room for delta more objects, deleted buckets counted in,
\* resize_to is a size, and has room for them.
LEMMA ResizeToSize ==
  ASSUME NEW t, Sound(t), NEW delta \in Nat,
         ~min_buckets_overflows(t.settings, num_nonempty(t) + delta, 0)
  PROVE  resize_to(t, delta) \in BucketCounts /\ size(t) + delta < resize_to(t, delta)
<1>. DEFINE s    == t.settings
            b    == bucket_count(t)
            fits == min_buckets(s, size(t) + delta, b)
<1>1. /\ b \in BucketCounts /\ b \in Nat /\ num_nonempty(t) \in Nat /\ t.num_deleted \in Nat
      /\ size(t) \in Nat /\ size(t) + t.num_deleted = num_nonempty(t)
      /\ s.enlarge_factor \in Percent
  BY SoundFields, Fields
<1>2. PICK n \in BucketCounts : num_nonempty(t) + delta < enlarge_size(s, n)
  BY DEF min_buckets_overflows, roomy_sizes
<1>3. size(t) + delta < enlarge_size(s, n) /\ size(t) + delta \in Nat
  <2>1. n \in Nat /\ enlarge_size(s, n) \in Nat
    BY <1>1, BucketCountIsPower, EnlargeGrows
  <2>2. size(t) <= num_nonempty(t)
    BY <1>1
  <2>. QED
    BY <1>1, <1>2, <2>1, <2>2
<1>4. fits \in BucketCounts /\ fits \in Nat /\ size(t) + delta < fits
  <2>1. b <= b
    BY <1>1
  <2>2. fits \in BucketCounts /\ size(t) + delta < enlarge_size(s, fits)
    BY <1>1, <1>3, <2>1, MinBuckets
  <2>. HIDE DEF fits
  <2>3. fits \in Nat /\ enlarge_size(s, fits) \in Nat /\ enlarge_size(s, fits) <= fits
    BY <1>1, <2>2, BucketCountIsPower, EnlargeGrows
  <2>. QED
    BY <1>1, <1>3, <2>2, <2>3
<1>5. fits < SizeMax \div 2 => fits * 2 \in BucketCounts
  BY <1>4, TwiceASize
<1>6. size(t) + delta < fits * 2
  <2>. HIDE DEF fits
  <2>. QED
    BY <1>1, <1>4
<1>. QED
  BY <1>4, <1>5, <1>6 DEF resize_to

\* The rest of resize_delta, whatever considering to shrink left, makes room
\* for delta objects, or throws.
LEMMA GrowSound ==
  ASSUME NEW t, NEW u, Resized(u, t, 0), NEW delta \in Nat
  PROVE  Resized(grow_if_needed(u, delta), t, delta)
<1>. DEFINE v == u.ht
            s == v.settings
            n == num_nonempty(v)
            b == bucket_count(v)
            c == moved(v, resize_to(v, delta))
<1>1. /\ Sound(v) /\ SameMap(v, t) /\ n \in Nat /\ b \in Nat /\ b \in BucketCounts
      /\ s.enlarge_factor \in Percent /\ size(v) \in Nat
  <2>1. Sound(v) /\ SameMap(v, t)
    BY DEF Resized
  <2>. QED
    BY <2>1, SoundFields, Fields
<1>2. Resized(Outcome(v, "length_error"), t, delta)
  BY DEF Resized, Outcome
<1>3. ASSUME Spare(v, 0) => Spare(v, delta) PROVE Resized(u, t, delta)
  BY <1>3 DEF Resized
<1>4. ASSUME n + delta <= s.enlarge_threshold, Spare(v, 0) PROVE Spare(v, delta)
  <2>1. enlarge_size(s, b) < b /\ s.enlarge_threshold = enlarge_size(s, b)
    BY <1>1, <1>4, GrowsBeforeFull DEF Spare, Sound, InSync
  <2>2. enlarge_size(s, b) \in Nat
    BY <1>1, EnlargeGrows
  <2>. DEFINE e == enlarge_size(s, b)
  <2>3. e \in Nat /\ e < b /\ n + delta <= e
    BY <1>4, <2>1, <2>2
  <2>. HIDE DEF e, n, b
  <2>4. n + delta < b
    BY <1>1, <2>3
  <2>. QED
    BY <1>4, <2>4 DEF Spare, n, b
<1>5. ASSUME ~min_buckets_overflows(s, n + delta, 0), min_buckets(s, n + delta, 0) <= b,
             Spare(v, 0)
      PROVE  Spare(v, delta)
  <2>. DEFINE m == min_buckets(s, n + delta, 0)
  <2>1. PICK x \in BucketCounts : n + delta < enlarge_size(s, x)
    BY <1>5 DEF min_buckets_overflows, roomy_sizes
  <2>2. 0 \in Nat /\ 0 <= x /\ n + delta \in Nat
    BY <1>1, BucketCountIsPower
  <2>3. m \in BucketCounts /\ n + delta < enlarge_size(s, m)
    BY <1>1, <2>1, <2>2, MinBuckets
  <2>4. m <= b
    BY <1>5
  <2>. HIDE DEF m
  <2>5. enlarge_size(s, m) \in Nat /\ enlarge_size(s, m) < m /\ m \in Nat
    BY <1>1, <1>5, <2>3, GrowsBeforeFull, EnlargeGrows, BucketCountIsPower DEF Spare
  <2>6. n + delta < b
    BY <1>1, <2>3, <2>4, <2>5
  <2>. QED
    BY <1>5, <2>6 DEF Spare
<1>6. ASSUME ~min_buckets_overflows(s, n + delta, 0)
      PROVE  Resized(Outcome(c, "resized"), t, delta)
  <2>. DEFINE m == resize_to(v, delta)
  <2>1. m \in BucketCounts /\ size(v) + delta < m
    BY <1>1, <1>6, ResizeToSize
  <2>. HIDE DEF m
  <2>2. m \in Nat /\ size(v) < m
    BY <1>1, <2>1, BucketCountIsPower
  <2>3. /\ Sound(c) /\ SameMap(c, v) /\ bucket_count(c) = m /\ num_nonempty(c) = size(v)
    BY <1>1, <2>1, <2>2, MovedSound DEF m
  <2>. HIDE DEF c
  <2>4. SameMap(c, t)
    BY <1>1, <2>3 DEF SameMap, SameReserved
  <2>5. Spare(t, 0) => Spare(c, 0) /\ Spare(c, delta)
    <3>1. num_nonempty(c) + 0 < bucket_count(c) /\ num_nonempty(c) + delta < bucket_count(c)
      BY <1>1, <2>1, <2>2, <2>3
    <3>. QED
      BY <2>4, <3>1 DEF Spare, SameMap, SameReserved
  <2>. QED
    BY <2>3, <2>4, <2>5 DEF Resized, Outcome
<1>. HIDE DEF c
<1>. QED
  BY <1>2, <1>3, <1>4, <1>5, <1>6 DEF grow_if_needed, c

\* resize_delta: shrink, grow, both or neither.
LEMMA ResizeDeltaSound ==
  ASSUME NEW t, Sound(t), NEW delta \in Nat
  PROVE  Resized(resize_delta(t, delta), t, delta)
<1>1. Resized(Outcome(t, "kept"), t, 0)
  BY DEF Resized, Outcome, SameMap, SameReserved, SameBuckets
<1>2. Resized(maybe_shrink(t), t, 0)
  BY MaybeShrinkSound
<1>. DEFINE u == IF t.settings.consider_shrink THEN maybe_shrink(t) ELSE Outcome(t, "kept")
<1>3. Resized(u, t, 0)
  BY <1>1, <1>2
<1>. HIDE DEF u
<1>4. Resized(grow_if_needed(u, delta), t, delta)
  BY <1>3, GrowSound
<1>. QED
  BY <1>4 DEF resize_delta, u

\* resize(n), for any n.
LEMMA ResizeSound ==
  ASSUME NEW t, Sound(t), NEW n \in Nat
  PROVE  LET r == resize(t, n)
         IN  /\ Sound(r.ht) /\ SameMap(r.ht, t)
             /\ r.res \in {"kept", "resized", "length_error"}
             /\ Spare(t, 0) => Spare(r.ht, 0)
<1>. DEFINE OK(r) == /\ Sound(r.ht) /\ SameMap(r.ht, t)
                     /\ r.res \in {"kept", "resized", "length_error"}
                     /\ Spare(t, 0) => Spare(r.ht, 0)
            grown(u) == IF n > num_nonempty(u) THEN resize_delta(u, n - num_nonempty(u))
                                               ELSE Outcome(u, "kept")
<1>1. ASSUME NEW u, Sound(u), SameMap(u, t), Spare(t, 0) => Spare(u, 0)
      PROVE  OK(grown(u))
  <2>1. CASE n > num_nonempty(u)
    <3>. DEFINE r == resize_delta(u, n - num_nonempty(u))
    <3>1. n - num_nonempty(u) \in Nat
      BY <1>1, <2>1, SoundFields
    <3>2. Resized(r, u, n - num_nonempty(u))
      BY <1>1, <3>1, ResizeDeltaSound
    <3>. HIDE DEF r
    <3>3. OK(r)
      BY <1>1, <3>2 DEF Resized, SameMap, SameReserved
    <3>. QED
      BY <2>1, <3>3 DEF r
  <2>2. CASE ~(n > num_nonempty(u))
    BY <1>1, <2>2 DEF Outcome
  <2>. QED
    BY <2>1, <2>2
<1>2. /\ Sound(maybe_shrink(t).ht) /\ SameMap(maybe_shrink(t).ht, t)
      /\ Spare(t, 0) => Spare(maybe_shrink(t).ht, 0)
  BY MaybeShrinkSound DEF Resized
<1>3. SameMap(t, t)
  BY DEF SameMap, SameReserved
<1>4. resize(t, n) = grown(IF t.settings.consider_shrink \/ n = 0 THEN maybe_shrink(t).ht
                                                                  ELSE t)
  BY DEF resize
<1>. HIDE DEF OK, grown
<1>5. OK(resize(t, n))
  BY <1>1, <1>2, <1>3, <1>4
<1>. QED
  BY <1>5 DEF OK

-----------------------------------------------------------------------------
(* The load factors and the deleted key.                                   *)

\* New load factors change nothing but the thresholds, as long as there is
\* room under the new grow factor.
LEMMA ParametersSound ==
  ASSUME NEW t, Sound(t), NEW shrink \in Percent, NEW grow \in Percent,
         \E n \in BucketCounts : MaxSize < (n * grow) \div 100
  PROVE  LET u == change_resizing_parameters(t, shrink, grow)
         IN  /\ Sound(u) /\ Objects(u) = Objects(t) /\ size(u) = size(t)
             /\ u.delkey = t.delkey /\ u.settings.use_deleted = t.settings.use_deleted
             /\ grow < 100 /\ Spare(t, 0) => Spare(u, 0)
<1>. DEFINE s == set_resizing_parameters(t.settings, shrink, grow)
            v == [t EXCEPT !.settings = s]
            u == change_resizing_parameters(t, shrink, grow)
<1>1. IsTable(t) /\ t.settings \in Settings
  BY SoundFields
<1>2. s \in Settings /\ s.enlarge_factor = grow /\ s.use_deleted = t.settings.use_deleted
  <2>1. grow \div 2 \in Percent
    BY DEF Percent
  <2>. QED
    BY <1>1, <2>1 DEF set_resizing_parameters, Settings
<1>3. u = thresholds_of(v)
  BY DEF change_resizing_parameters
<1>. HIDE DEF s
<1>4. v = [settings |-> s, delkey |-> t.delkey, num_deleted |-> t.num_deleted, table |-> t.table]
  BY <1>1, SettingsExcept
<1>. HIDE DEF v
<1>5. v.settings = s /\ v.delkey = t.delkey /\ v.num_deleted = t.num_deleted /\ v.table = t.table
  BY <1>4
<1>6. IsTable(v)
  BY <1>1, <1>2, <1>4, <1>5 DEF IsTable
<1>. HIDE DEF u
<1>7. /\ IsTable(u) /\ u.table = t.table /\ u.delkey = t.delkey
      /\ u.num_deleted = t.num_deleted /\ SameReserved(u, v) /\ InSync(u)
  BY <1>3, <1>5, <1>6, ThresholdsOf
<1>8. u.settings.enlarge_factor = grow /\ u.settings.use_deleted = t.settings.use_deleted
  BY <1>2, <1>5, <1>7 DEF SameReserved
<1>9. RoomFor(u.settings)
  BY <1>8 DEF RoomFor, enlarge_size
<1>10. /\ Sound(u) /\ Objects(u) = Objects(t) /\ size(u) = size(t)
       /\ num_nonempty(u) = num_nonempty(t) /\ bucket_count(u) = bucket_count(t)
  BY <1>7, <1>8, <1>9, SettingsOnly
<1>11. grow < 100 /\ Spare(t, 0) => Spare(u, 0)
  BY <1>8, <1>10 DEF Spare
<1>. QED
  BY <1>7, <1>8, <1>10, <1>11 DEF u

\* A table has no more elements than buckets: rid of deleted ones it has room.
LEMMA UsedFits ==
  ASSUME NEW t, Sound(t)
  PROVE  /\ num_nonempty(t) <= bucket_count(t)
         /\ t.num_deleted > 0 => size(t) < bucket_count(t)
<1>1. /\ IsTable(t) /\ bucket_count(t) \in Nat /\ num_nonempty(t) \in Nat
      /\ t.num_deleted \in Nat /\ size(t) \in Nat
      /\ size(t) + t.num_deleted = num_nonempty(t)
  BY SoundFields
<1>2. /\ Used(t.table) \subseteq 0 .. bucket_count(t) - 1
      /\ num_nonempty(t) = Cardinality(Used(t.table))
  BY <1>1, Fields
<1>. DEFINE n == bucket_count(t)
            I == 0 .. n - 1
            U == Used(t.table)
<1>3. IsFiniteSet(I) /\ Cardinality(I) = n
  <2>. DEFINE m == n - 1
  <2>1. m \in Int /\ 0 \in Int /\ n \in Nat
    BY <1>1
  <2>. HIDE DEF m
  <2>2. IsFiniteSet(0 .. m) /\ Cardinality(0 .. m) = IF 0 > m THEN 0 ELSE m - 0 + 1
    BY <2>1, FS_Interval
  <2>3. (IF 0 > m THEN 0 ELSE m - 0 + 1) = n
    <3>. HIDE DEF n
    <3>. QED
      BY <2>1 DEF m
  <2>. QED
    BY <2>2, <2>3 DEF m
<1>4. num_nonempty(t) <= n
  <2>1. U \in SUBSET I
    BY <1>2
  <2>. HIDE DEF U, I
  <2>2. Cardinality(U) <= Cardinality(I)
    BY <1>3, <2>1, FS_Subset
  <2>. HIDE DEF n
  <2>. QED
    BY <1>2, <1>3, <2>2 DEF U
<1>. QED
  BY <1>1, <1>4

\* Where nothing is deleted, the deleted key may change to one no object has,
\* and go.
LEMMA DeletedKeySound ==
  ASSUME NEW t, Sound(t), t.num_deleted = 0, NEW k \in Key, NEW using \in BOOLEAN,
         using => \A i \in LiveBuckets(t) : object(t, i).key # k,
         NEW u, u = IF using THEN use_deleted_key(t, k) ELSE use_no_deleted_key(t)
  PROVE  /\ Sound(u) /\ Objects(u) = Objects(t) /\ size(u) = size(t) /\ u.num_deleted = 0
         /\ u.settings.use_deleted = using
         /\ Spare(t, 0) => Spare(u, 0)
<1>. DEFINE s == [t.settings EXCEPT !.use_deleted = using]
            d == IF using THEN k ELSE t.delkey
<1>1. IsTable(t) /\ t.settings \in Settings /\ RoomFor(t.settings) /\ InSync(t)
      /\ t.delkey \in Key
  BY SoundFields DEF Sound
<1>2. /\ s \in Settings /\ s.enlarge_factor = t.settings.enlarge_factor
      /\ s.shrink_factor = t.settings.shrink_factor
      /\ s.enlarge_threshold = t.settings.enlarge_threshold
      /\ s.shrink_threshold = t.settings.shrink_threshold
      /\ s.use_deleted = using
  BY <1>1 DEF Settings
<1>3. u = [settings |-> s, delkey |-> d, num_deleted |-> t.num_deleted, table |-> t.table]
  <2>. DEFINE w == [t EXCEPT !.settings = s]
  <2>1. u = IF using THEN [w EXCEPT !.delkey = k] ELSE w
    BY DEF use_deleted_key, use_no_deleted_key
  <2>. HIDE DEF s
  <2>2. w = [settings |-> s, delkey |-> t.delkey, num_deleted |-> t.num_deleted,
             table |-> t.table]
    BY <1>1, SettingsExcept
  <2>. HIDE DEF w
  <2>. QED
    BY <2>1, <2>2
<1>. HIDE DEF s, d
<1>4. u.settings = s /\ u.delkey = d /\ u.num_deleted = t.num_deleted /\ u.table = t.table
  BY <1>3
<1>5. IsTable(u)
  BY <1>1, <1>2, <1>3, <1>4 DEF IsTable, d
<1>6. RoomFor(u.settings)
  BY <1>1, <1>2, <1>4, SameRoom
<1>7. InSync(u)
  BY <1>1, <1>2, <1>4 DEF InSync, enlarge_size, shrink_size, bucket_count
<1>8. /\ bucket_count(u) = bucket_count(t) /\ num_nonempty(u) = num_nonempty(t)
      /\ Buckets(u) = Buckets(t) /\ size(u) = size(t)
      /\ \A i : object(u, i) = object(t, i) /\ (test_empty(u, i) <=> test_empty(t, i))
  BY <1>4 DEF bucket_count, num_nonempty, Buckets, size, object, test_empty
<1>9. LiveBuckets(u) = LiveBuckets(t)
  BY <1>4, <1>8 DEF LiveBuckets, test_deleted
<1>10. Marked(t) = {} /\ LiveBuckets(t) = Used(t.table)
  <2>1. IsFiniteSet(Marked(t)) /\ Cardinality(Marked(t)) = 0
    BY <1>1, LiveCount DEF Sound
  <2>2. Marked(t) = {}
    BY <2>1, FS_EmptySet
  <2>. QED
    BY <2>2, SoundLive
<1>11. Marked(u) = {}
  <2>1. using => \A i \in Used(t.table) : object(u, i).key # u.delkey
    BY <1>4, <1>8, <1>10 DEF d
  <2>. QED
    BY <1>2, <1>4, <2>1 DEF Marked
<1>12. u.num_deleted = Cardinality(Marked(u)) /\ u.num_deleted >= t.num_deleted
  BY <1>4, <1>11, FS_EmptySet
<1>13. Sound(u)
  BY <1>4, <1>5, <1>6, <1>7, <1>8, <1>9, <1>12, FewerLiveSound
<1>14. Objects(u) = Objects(t)
  BY <1>8, <1>9 DEF Objects
<1>. QED
  BY <1>2, <1>4, <1>8, <1>13, <1>14 DEF Spare

-----------------------------------------------------------------------------
(* Insertion.                                                              *)

\* One of the objects has key k.
HasKey(objects, k) == \E x \in objects : x.key = k

\* What an insertion of obj into t may leave and answer: the key is new and the
\* object is there now, or the key was there, or nothing happened.
Inserted(r, t, obj) ==
  /\ Sound(r.ht) /\ SameReserved(r.ht, t)
  /\ \/ /\ r.res = "inserted" /\ ~HasKey(Objects(t), obj.key)
        /\ Objects(r.ht) = Objects(t) \cup {obj}
     \/ /\ r.res = "present" /\ HasKey(Objects(t), obj.key)
        /\ Objects(r.ht) = Objects(t)
     \/ r.res \in {"length_error", "table_full"} /\ Objects(r.ht) = Objects(t)

\* Only the objects and the reserved key of t matter.
LEMMA InsertedInto ==
  ASSUME NEW r, NEW t, NEW u, NEW obj, Inserted(r, u, obj),
         Objects(u) = Objects(t), SameReserved(u, t)
  PROVE  Inserted(r, t, obj)
<1>1. SameReserved(r.ht, t)
  BY DEF Inserted, SameReserved
<1>. QED
  BY <1>1 DEF Inserted

\* The keys of the objects are those of the live buckets.
LEMMA KeysOfObjects ==
  ASSUME NEW t, NEW k
  PROVE  HasKey(Objects(t), k) <=> \E i \in LiveBuckets(t) : object(t, i).key = k
<1>1. ASSUME HasKey(Objects(t), k) PROVE \E i \in LiveBuckets(t) : object(t, i).key = k
  BY <1>1 DEF HasKey, Objects
<1>2. ASSUME NEW i \in LiveBuckets(t), object(t, i).key = k PROVE HasKey(Objects(t), k)
  <2>1. object(t, i) \in Objects(t)
    BY DEF Objects
  <2>. QED
    BY <1>2, <2>1 DEF HasKey
<1>. QED
  BY <1>1, <1>2

\* insert_at, into a free bucket, takes at most that one.
LEMMA InsertAtInserts ==
  ASSUME NEW t, Sound(t), NEW obj \in Slot, Allowed(t, obj.key), NEW pos,
         Free(t, obj.key, pos)
  PROVE  LET r == insert_at(t, obj, pos)
         IN  Inserted(r, t, obj) /\ \A d \in Nat : Spare(t, d + 1) => Spare(r.ht, d)
<1>. DEFINE r == insert_at(t, obj, pos)
<1>1. \/ r.res = "length_error" /\ r.ht = t
      \/ r.res = "inserted" /\ Inserts(r.ht, t, pos, obj)
  BY InsertAtSound
<1>. HIDE DEF r
<1>2. num_nonempty(t) \in Nat /\ bucket_count(t) \in Nat
  BY SoundFields
<1>3. CASE r.res = "length_error" /\ r.ht = t
  <2>1. Inserted(r, t, obj)
    BY <1>3 DEF Inserted, SameReserved
  <2>. DEFINE x == num_nonempty(t)
              n == bucket_count(t)
  <2>. HIDE DEF x, n
  <2>2. \A d \in Nat : x + (d + 1) < n => x + d < n
    BY <1>2 DEF x, n
  <2>3. \A d \in Nat : Spare(t, d + 1) => Spare(t, d)
    BY <2>2 DEF Spare, x, n
  <2>. QED
    BY <1>3, <2>1, <2>3 DEF r
<1>4. CASE r.res = "inserted" /\ Inserts(r.ht, t, pos, obj)
  <2>. DEFINE u == r.ht
  <2>1. /\ Sound(u) /\ Objects(u) = Objects(t) \cup {obj}
        /\ u.settings = t.settings /\ u.delkey = t.delkey
        /\ bucket_count(u) = bucket_count(t) /\ num_nonempty(u) <= num_nonempty(t) + 1
    BY <1>4 DEF Inserts
  <2>2. num_nonempty(u) \in Nat
    BY <2>1, SoundFields
  <2>3. ~HasKey(Objects(t), obj.key)
    BY KeysOfObjects DEF Free
  <2>. HIDE DEF u
  <2>4. Inserted(r, t, obj)
    BY <1>4, <2>1, <2>3 DEF Inserted, SameReserved, u
  <2>. DEFINE x == num_nonempty(t)
              y == num_nonempty(u)
              n == bucket_count(t)
  <2>. HIDE DEF x, y, n
  <2>5. \A d \in Nat : x + (d + 1) < n => y + d < n
    BY <1>2, <2>1, <2>2 DEF x, y, n
  <2>6. \A d \in Nat : Spare(t, d + 1) => Spare(u, d)
    BY <2>1, <2>5 DEF Spare, x, y, n
  <2>. QED
    BY <2>4, <2>6 DEF u, r
<1>. QED
  BY <1>1, <1>3, <1>4

\* A table with room for d + 1 has room for d.
LEMMA LessSpare ==
  ASSUME NEW t, Sound(t), NEW d \in Nat, Spare(t, d + 1)
  PROVE  Spare(t, d)
<1>. DEFINE x == num_nonempty(t)
            n == bucket_count(t)
<1>1. x \in Nat /\ n \in Nat /\ x + (d + 1) < n
  BY SoundFields DEF Spare
<1>. HIDE DEF x, n
<1>2. x + d < n
  BY <1>1
<1>. QED
  BY <1>2 DEF Spare, x, n

\* insert_noresize: the search tells a key that is there from one that is not.
LEMMA InsertNoresizeInserts ==
  ASSUME NEW t, Sound(t), NEW obj \in Slot, Allowed(t, obj.key)
  PROVE  LET r == insert_noresize(t, obj)
         IN  Inserted(r, t, obj) /\ \A d \in Nat : Spare(t, d + 1) => Spare(r.ht, d)
<1>. DEFINE p == find_position(t, obj.key)
            r == insert_noresize(t, obj)
            OK(u) == Inserted(u, t, obj) /\ \A d \in Nat : Spare(t, d + 1) => Spare(u.ht, d)
<1>1. /\ p.first # ILLEGAL_BUCKET =>
           p.first \in LiveBuckets(t) /\ object(t, p.first).key = obj.key
      /\ p.first = ILLEGAL_BUCKET /\ p.second # ILLEGAL_BUCKET =>
           Free(t, obj.key, p.second)
  BY FindPosition DEF Slot
<1>. HIDE DEF p
<1>2. r = IF search_fails(p) THEN Outcome(t, "table_full")
          ELSE IF p.first # ILLEGAL_BUCKET THEN Outcome(t, "present")
          ELSE insert_at(t, obj, p.second)
  BY DEF insert_noresize, p
<1>3. \A d \in Nat : Spare(t, d + 1) => Spare(t, d)
  BY LessSpare
<1>4. OK(Outcome(t, "table_full"))
  BY <1>3 DEF Outcome, Inserted, SameReserved
<1>5. ASSUME p.first # ILLEGAL_BUCKET PROVE OK(Outcome(t, "present"))
  <2>1. HasKey(Objects(t), obj.key)
    BY <1>1, <1>5, KeysOfObjects
  <2>. QED
    BY <1>3, <2>1 DEF Outcome, Inserted, SameReserved
<1>6. ASSUME ~search_fails(p), p.first = ILLEGAL_BUCKET PROVE OK(insert_at(t, obj, p.second))
  <2>1. Free(t, obj.key, p.second)
    BY <1>1, <1>6 DEF search_fails
  <2>. QED
    BY <2>1, InsertAtInserts
<1>. HIDE DEF OK, r
<1>7. OK(r)
  BY <1>2, <1>4, <1>5, <1>6
<1>. QED
  BY <1>7 DEF OK, r

\* Where the table resized for d + 1 objects, and one is put in, there is room
\* for d more.
LEMMA InsertAfterResize ==
  ASSUME NEW t, NEW q, Resized(q, t, 1), q.res # "length_error", NEW obj, NEW w,
         Inserted(w, q.ht, obj), \A d \in Nat : Spare(q.ht, d + 1) => Spare(w.ht, d)
  PROVE  Inserted(w, t, obj) /\ (Spare(t, 0) => Spare(w.ht, 0))
<1>1. Inserted(w, t, obj)
  BY InsertedInto DEF Resized, SameMap
<1>2. Spare(t, 0) => Spare(w.ht, 0)
  <2>1. 0 \in Nat /\ 0 + 1 = 1
    OBVIOUS
  <2>. QED
    BY <2>1 DEF Resized
<1>. QED
  BY <1>1, <1>2

\* insert of one object: resize_delta, then insert_noresize.
LEMMA InsertSound ==
  ASSUME NEW t, Sound(t), NEW obj \in Slot, Allowed(t, obj.key)
  PROVE  LET r == insert(t, obj)
         IN  Inserted(r, t, obj) /\ (Spare(t, 0) => Spare(r.ht, 0))
<1>. DEFINE q == resize_delta(t, 1)
<1>1. Resized(q, t, 1)
  BY ResizeDeltaSound
<1>2. insert(t, obj) = IF q.res = "length_error" THEN q ELSE insert_noresize(q.ht, obj)
  BY DEF insert
<1>. HIDE DEF q
<1>3. CASE q.res = "length_error"
  <2>1. Inserted(q, t, obj) /\ (Spare(t, 0) => Spare(q.ht, 0))
    BY <1>1, <1>3 DEF Resized, Inserted, SameMap
  <2>. QED
    BY <1>2, <1>3, <2>1
<1>4. CASE q.res # "length_error"
  <2>. DEFINE w == insert_noresize(q.ht, obj)
  <2>1. Sound(q.ht) /\ Allowed(q.ht, obj.key)
    BY <1>1 DEF Resized, SameMap, SameReserved, Allowed
  <2>2. Inserted(w, q.ht, obj) /\ \A d \in Nat : Spare(q.ht, d + 1) => Spare(w.ht, d)
    BY <2>1, InsertNoresizeInserts
  <2>. HIDE DEF w
  <2>3. Inserted(w, t, obj) /\ (Spare(t, 0) => Spare(w.ht, 0))
    BY <1>1, <1>4, <2>2, InsertAfterResize
  <2>. QED
    BY <1>2, <1>4, <2>3 DEF w
<1>. QED
  BY <1>3, <1>4

\* A bucket that is free stays free as long as no object moves.
LEMMA StillFree ==
  ASSUME NEW t, NEW u, SameBuckets(u, t), NEW k, NEW pos, Free(t, k, pos)
  PROVE  Free(u, k, pos)
<1>1. bucket_count(u) = bucket_count(t) /\ Buckets(u) = Buckets(t)
  BY DEF SameBuckets, bucket_count, Buckets
<1>2. \A i : /\ test_empty(u, i) = test_empty(t, i) /\ object(u, i) = object(t, i)
             /\ test_deleted(u, i) = test_deleted(t, i)
  BY DEF SameBuckets, test_empty, object, test_deleted
<1>3. LiveBuckets(u) = LiveBuckets(t)
  BY <1>1, <1>2 DEF LiveBuckets
<1>. QED
  BY <1>1, <1>2, <1>3 DEF Free

\* operator[] uses the position it found only if no object has moved since.
LEMMA FindOrInsertSound ==
  ASSUME NEW t, Sound(t), NEW k \in Key, Allowed(t, k)
  PROVE  LET r == find_or_insert(t, k)
         IN  /\ Inserted(r, t, [key |-> k, val |-> DefaultVal])
             /\ Spare(t, 0) => Spare(r.ht, 0)
<1>. DEFINE obj == [key |-> k, val |-> DefaultVal]
            p   == find_position(t, k)
            q   == resize_delta(t, 1)
            OK(u) == Inserted(u, t, obj) /\ (Spare(t, 0) => Spare(u.ht, 0))
<1>1. obj \in Slot /\ obj.key = k
  BY KeysAssumption DEF Slot
<1>2. Resized(q, t, 1)
  BY ResizeDeltaSound
<1>3. /\ p.first # ILLEGAL_BUCKET => p.first \in LiveBuckets(t) /\ object(t, p.first).key = k
      /\ p.first = ILLEGAL_BUCKET /\ p.second # ILLEGAL_BUCKET => Free(t, k, p.second)
  BY FindPosition
<1>4. find_or_insert(t, k) =
        IF search_fails(p) THEN Outcome(t, "table_full")
        ELSE IF p.first # ILLEGAL_BUCKET THEN Outcome(t, "present")
        ELSE IF q.res = "length_error" THEN q
        ELSE IF q.res = "resized" THEN insert_noresize(q.ht, obj)
        ELSE insert_at(q.ht, obj, p.second)
  BY DEF find_or_insert
<1>. SUFFICES OK(find_or_insert(t, k))
  OBVIOUS
<1>. HIDE DEF obj, p, q
<1>5. /\ Sound(q.ht) /\ Allowed(q.ht, obj.key)
      /\ q.res \in {"kept", "resized", "length_error"}
  BY <1>1, <1>2 DEF Allowed, Resized, SameMap, SameReserved
<1>6. OK(Outcome(t, "table_full"))
  BY DEF Outcome, Inserted, SameReserved
<1>7. ASSUME p.first # ILLEGAL_BUCKET PROVE OK(Outcome(t, "present"))
  <2>1. HasKey(Objects(t), obj.key)
    BY <1>1, <1>3, <1>7, KeysOfObjects
  <2>. QED
    BY <2>1 DEF Outcome, Inserted, SameReserved
<1>8. ASSUME q.res = "length_error" PROVE OK(q)
  BY <1>2, <1>8 DEF Resized, Inserted, SameMap
<1>9. ASSUME q.res = "resized" PROVE OK(insert_noresize(q.ht, obj))
  <2>1. /\ Inserted(insert_noresize(q.ht, obj), q.ht, obj)
        /\ \A d \in Nat : Spare(q.ht, d + 1) => Spare(insert_noresize(q.ht, obj).ht, d)
    BY <1>1, <1>5, InsertNoresizeInserts
  <2>. QED
    BY <1>2, <1>9, <2>1, InsertAfterResize
<1>10. ASSUME q.res = "kept", Free(t, k, p.second) PROVE OK(insert_at(q.ht, obj, p.second))
  <2>1. Free(q.ht, obj.key, p.second)
    BY <1>1, <1>2, <1>10, StillFree DEF Resized
  <2>2. /\ Inserted(insert_at(q.ht, obj, p.second), q.ht, obj)
        /\ \A d \in Nat : Spare(q.ht, d + 1) => Spare(insert_at(q.ht, obj, p.second).ht, d)
    BY <1>1, <1>5, <2>1, InsertAtInserts
  <2>. QED
    BY <1>2, <1>10, <2>2, InsertAfterResize
<1>. HIDE DEF OK
<1>. QED
  BY <1>3, <1>4, <1>5, <1>6, <1>7, <1>8, <1>9, <1>10 DEF search_fails

\* The objects, with obj if there is none of its key.
Joined(objects, obj) == IF HasKey(objects, obj.key) THEN objects ELSE objects \cup {obj}

\* From the objects A, those of objs up to the n-th inserted in order give B.
Reaches(A, objs, n, B) ==
  \E X : /\ X[0] = A /\ X[n] = B
         /\ \A i \in 1 .. n : X[i] = Joined(X[i - 1], objs[i])

\* No object of a range inserted: nothing changed.
LEMMA ReachesNone ==
  ASSUME NEW A, NEW objs
  PROVE  Reaches(A, objs, 0, A)
<1>. DEFINE X == [i \in {0} |-> A]
<1>1. X[0] = A /\ \A i \in 1 .. 0 : X[i] = Joined(X[i - 1], objs[i])
  OBVIOUS
<1>. HIDE DEF X
<1>. QED
  BY <1>1 DEF Reaches

\* One object of a range more.
LEMMA ReachesNext ==
  ASSUME NEW A, NEW objs, NEW n \in Nat, NEW B, Reaches(A, objs, n, B)
  PROVE  Reaches(A, objs, n + 1, Joined(B, objs[n + 1]))
<1>1. PICK X : /\ X[0] = A /\ X[n] = B
               /\ \A i \in 1 .. n : X[i] = Joined(X[i - 1], objs[i])
  BY DEF Reaches
<1>. DEFINE C == Joined(B, objs[n + 1])
            Y == [i \in 0 .. n + 1 |-> IF i <= n THEN X[i] ELSE C]
<1>2. \A i \in 0 .. n : Y[i] = X[i]
  OBVIOUS
<1>3. Y[n + 1] = C
  OBVIOUS
<1>. HIDE DEF Y, C
<1>4. Y[0] = A
  BY <1>1, <1>2
<1>5. ASSUME NEW i \in 1 .. n + 1 PROVE Y[i] = Joined(Y[i - 1], objs[i])
  <2>1. CASE i <= n
    <3>1. i \in 1 .. n /\ i \in 0 .. n /\ i - 1 \in 0 .. n
      BY <2>1
    <3>. QED
      BY <1>1, <1>2, <3>1
  <2>2. CASE ~(i <= n)
    <3>1. i = n + 1 /\ i - 1 = n /\ n \in 0 .. n
      BY <2>2
    <3>2. Y[i - 1] = B
      BY <1>1, <1>2, <3>1
    <3>. QED
      BY <1>3, <3>1, <3>2 DEF C
  <2>. QED
    BY <2>1, <2>2
<1>6. Reaches(A, objs, n + 1, C)
  BY <1>3, <1>4, <1>5 DEF Reaches
<1>. QED
  BY <1>6 DEF C

\* What insert(f, l) leaves in table t of the objects A after i of objs, with
\* room for d more: all of them are in it, or those before the one that threw.
Grown(r, t, A, objs, i, d) ==
  /\ Sound(r.ht) /\ SameReserved(r.ht, t)
  /\ Spare(t, i + d) => Spare(r.ht, d)
  /\ r.res \in {"ok", "length_error", "table_full"}
  /\ \E n \in 0 .. i : /\ Reaches(A, objs, n, Objects(r.ht))
                       /\ r.res = "ok" => n = i

\* One more object.
LEMMA InsertNextGrows ==
  ASSUME NEW t, NEW A, NEW objs, NEW i \in Nat, NEW d \in Nat, NEW r,
         Grown(r, t, A, objs, i, d + 1),
         objs[i + 1] \in Slot, Allowed(t, objs[i + 1].key)
  PROVE  Grown(insert_next(r, objs[i + 1]), t, A, objs, i + 1, d)
<1>. DEFINE obj == objs[i + 1]
            u   == insert_noresize(r.ht, obj)
<1>1. /\ Sound(r.ht) /\ SameReserved(r.ht, t)
      /\ Spare(t, i + (d + 1)) => Spare(r.ht, d + 1)
      /\ r.res \in {"ok", "length_error", "table_full"}
  BY DEF Grown
<1>2. PICK n \in 0 .. i : Reaches(A, objs, n, Objects(r.ht)) /\ (r.res = "ok" => n = i)
  BY DEF Grown
<1>3. (i + 1) + d = i + (d + 1) /\ n \in 0 .. i + 1 /\ i + 1 \in 0 .. i + 1
  BY <1>2
<1>4. Allowed(r.ht, obj.key)
  BY <1>1 DEF Allowed, SameReserved
<1>5. Inserted(u, r.ht, obj) /\ (Spare(r.ht, d + 1) => Spare(u.ht, d))
  BY <1>1, <1>4, InsertNoresizeInserts
<1>6. Spare(r.ht, d + 1) => Spare(r.ht, d)
  BY <1>1, LessSpare
<1>7. insert_next(r, obj) = IF r.res # "ok" THEN r
                            ELSE IF u.res \in {"inserted", "present"}
                            THEN Outcome(u.ht, "ok") ELSE u
  BY DEF insert_next
<1>. HIDE DEF u, obj
<1>8. ASSUME r.res # "ok" PROVE Grown(r, t, A, objs, i + 1, d)
  BY <1>1, <1>2, <1>3, <1>6, <1>8 DEF Grown
<1>9. ASSUME NEW w, w.ht = u.ht PROVE Sound(w.ht) /\ SameReserved(w.ht, t)
                                     /\ (Spare(t, (i + 1) + d) => Spare(w.ht, d))
  BY <1>1, <1>3, <1>5, <1>9 DEF Inserted, SameReserved
<1>10. ASSUME r.res = "ok", u.res \in {"inserted", "present"}
       PROVE  Grown(Outcome(u.ht, "ok"), t, A, objs, i + 1, d)
  <2>1. Objects(u.ht) = Joined(Objects(r.ht), obj)
    BY <1>5, <1>10 DEF Inserted, Joined
  <2>2. Reaches(A, objs, i + 1, Objects(u.ht))
    BY <1>2, <1>10, <2>1, ReachesNext DEF obj
  <2>. DEFINE w == Outcome(u.ht, "ok")
  <2>3. w.ht = u.ht /\ w.res = "ok"
    BY DEF Outcome
  <2>. HIDE DEF w
  <2>4. Grown(w, t, A, objs, i + 1, d)
    BY <1>3, <1>9, <2>2, <2>3 DEF Grown
  <2>. QED
    BY <2>4 DEF w
<1>11. ASSUME r.res = "ok", u.res \notin {"inserted", "present"}
       PROVE  Grown(u, t, A, objs, i + 1, d)
  <2>1. u.res \in {"length_error", "table_full"} /\ Objects(u.ht) = Objects(r.ht)
    BY <1>5, <1>11 DEF Inserted
  <2>. QED
    BY <1>2, <1>3, <1>9, <2>1 DEF Grown
<1>. QED
  BY <1>7, <1>8, <1>10, <1>11 DEF obj

\* All of them, one after the other.
LEMMA InsertEachSound ==
  ASSUME NEW t, Sound(t), NEW objs, Len(objs) \in Nat,
         \A i \in 1 .. Len(objs) : objs[i] \in Slot /\ Allowed(t, objs[i].key)
  PROVE  Grown(insert_each(t, objs), t, Objects(t), objs, Len(objs), 0)
<1>. DEFINE N == Len(objs)
            A == Objects(t)
<1>1. PICK upto : /\ upto[0] = Outcome(t, "ok")
                  /\ \A i \in 1 .. N : upto[i] = insert_next(upto[i - 1], objs[i])
                  /\ insert_each(t, objs) = upto[N]
  BY InsertEachUnfolds
<1>. HIDE DEF N, A
<1>2. N \in Nat /\ \A i \in 1 .. N : objs[i] \in Slot /\ Allowed(t, objs[i].key)
  BY DEF N
<1>. DEFINE OK(i) == Grown(upto[i], t, A, objs, i, N - i)
            Bad   == {i \in 0 .. N : ~OK(i)}
<1>3. OK(0)
  <2>1. 0 + (N - 0) = N - 0 /\ 0 \in 0 .. 0
    BY <1>2
  <2>2. upto[0].ht = t /\ upto[0].res = "ok"
    BY <1>1 DEF Outcome
  <2>3. Reaches(A, objs, 0, Objects(t))
    BY ReachesNone DEF A
  <2>. QED
    BY <2>1, <2>2, <2>3 DEF Grown, SameReserved
<1>4. ASSUME NEW i \in 0 .. N - 1, OK(i) PROVE OK(i + 1)
  <2>1. i \in Nat /\ N - (i + 1) \in Nat /\ N - i = (N - (i + 1)) + 1
        /\ i + 1 \in 1 .. N /\ (i + 1) - 1 = i
    BY <1>2
  <2>2. Grown(upto[i], t, A, objs, i, (N - (i + 1)) + 1)
    BY <1>4, <2>1
  <2>3. objs[i + 1] \in Slot /\ Allowed(t, objs[i + 1].key)
    BY <1>2, <2>1
  <2>4. upto[i + 1] = insert_next(upto[i], objs[i + 1])
    BY <1>1, <2>1
  <2>. DEFINE d == N - (i + 1)
  <2>5. d \in Nat /\ Grown(upto[i], t, A, objs, i, d + 1)
    BY <2>1, <2>2
  <2>. HIDE DEF d
  <2>6. Grown(insert_next(upto[i], objs[i + 1]), t, A, objs, i + 1, d)
    BY <2>1, <2>3, <2>5, InsertNextGrows
  <2>. QED
    BY <2>4, <2>6 DEF d
<1>. HIDE DEF OK
<1>5. Bad = {}
  <2>. SUFFICES ASSUME Bad # {} PROVE FALSE
    OBVIOUS
  <2>. Bad \in SUBSET Nat
    OBVIOUS
  <2>1. PICK n \in Bad : \A m \in Bad : n <= m
    BY LeastNumber
  <2>2. n # 0
    BY <1>3
  <2>3. n \in 1 .. N /\ n - 1 \in 0 .. N - 1 /\ n - 1 \in 0 .. N /\ ~(n <= n - 1)
        /\ (n - 1) + 1 = n
    BY <1>2, <2>2
  <2>4. OK(n - 1)
    BY <2>1, <2>3
  <2>5. OK((n - 1) + 1)
    BY <1>4, <2>3, <2>4
  <2>6. OK(n)
    BY <2>3, <2>5
  <2>. QED
    BY <2>6
<1>6. N \in 0 .. N /\ N - N = 0
  BY <1>2
<1>7. OK(N)
  BY <1>5, <1>6
<1>8. Grown(upto[N], t, A, objs, N, 0)
  BY <1>6, <1>7 DEF OK
<1>. QED
  BY <1>1, <1>8 DEF N, A

\* insert of a range: one resize for all of it.
LEMMA InsertRangeSound ==
  ASSUME NEW t, Sound(t), NEW objs, Len(objs) \in Nat,
         \A i \in 1 .. Len(objs) : objs[i] \in Slot /\ Allowed(t, objs[i].key)
  PROVE  LET r == insert_range(t, objs)
         IN  /\ Sound(r.ht) /\ SameReserved(r.ht, t)
             /\ Spare(t, 0) => Spare(r.ht, 0)
             /\ r.res \in {"ok", "length_error", "table_full"}
             /\ \E n \in 0 .. Len(objs) :
                  /\ Reaches(Objects(t), objs, n, Objects(r.ht))
                  /\ r.res = "ok" => n = Len(objs)
<1>. DEFINE N == Len(objs)
            q == resize_delta(t, N)
            e == insert_each(q.ht, objs)
            r == insert_range(t, objs)
            OK(u) == /\ Sound(u.ht) /\ SameReserved(u.ht, t)
                     /\ Spare(t, 0) => Spare(u.ht, 0)
                     /\ u.res \in {"ok", "length_error", "table_full"}
                     /\ \E n \in 0 .. N : /\ Reaches(Objects(t), objs, n, Objects(u.ht))
                                          /\ u.res = "ok" => n = N
<1>1. Resized(q, t, N)
  BY ResizeDeltaSound
<1>2. r = IF N >= SizeMax THEN Outcome(t, "length_error")
          ELSE IF q.res = "length_error" THEN q ELSE e
  BY DEF insert_range
<1>. HIDE DEF q, r
<1>3. /\ Sound(q.ht) /\ SameReserved(q.ht, t) /\ Objects(q.ht) = Objects(t)
      /\ Spare(t, 0) => Spare(q.ht, 0)
      /\ Spare(t, 0) /\ q.res # "length_error" => Spare(q.ht, N)
  BY <1>1 DEF Resized, SameMap
<1>4. 0 \in 0 .. N /\ N \in Nat
  OBVIOUS
<1>5. ASSUME NEW u, u.res = "length_error", Sound(u.ht), SameReserved(u.ht, t),
             Objects(u.ht) = Objects(t), Spare(t, 0) => Spare(u.ht, 0)
      PROVE  OK(u)
  <2>1. Reaches(Objects(t), objs, 0, Objects(u.ht))
    BY <1>5, ReachesNone
  <2>. QED
    BY <1>4, <1>5, <2>1
<1>6. OK(Outcome(t, "length_error"))
  <2>. DEFINE u == Outcome(t, "length_error")
  <2>1. u.ht = t /\ u.res = "length_error" /\ SameReserved(t, t)
    BY DEF Outcome, SameReserved
  <2>. HIDE DEF u, OK
  <2>2. OK(u)
    BY <1>5, <2>1
  <2>. QED
    BY <2>2 DEF u
<1>7. ASSUME q.res # "length_error" PROVE OK(e)
  <2>1. \A i \in 1 .. N : objs[i] \in Slot /\ Allowed(q.ht, objs[i].key)
    BY <1>3 DEF Allowed, SameReserved
  <2>2. Grown(e, q.ht, Objects(q.ht), objs, N, 0)
    BY <1>3, <2>1, InsertEachSound
  <2>. HIDE DEF e
  <2>3. N + 0 = N
    OBVIOUS
  <2>4. Sound(e.ht) /\ SameReserved(e.ht, t)
    BY <1>3, <2>2 DEF Grown, SameReserved
  <2>5. Spare(t, 0) => Spare(e.ht, 0)
    BY <1>3, <1>7, <2>2, <2>3 DEF Grown
  <2>. QED
    BY <1>3, <2>2, <2>4, <2>5 DEF Grown
<1>. HIDE DEF OK, e
<1>8. OK(r)
  BY <1>2, <1>3, <1>5, <1>6, <1>7
<1>. QED
  BY <1>8 DEF OK, r

-----------------------------------------------------------------------------
(* Deletion.                                                               *)

\* Erasing takes the keys of the live objects erased, and no room.
LEMMA ErasedObjects ==
  ASSUME NEW t, Sound(t), NEW S, NEW u, Erases(u, t, S)
  PROVE  /\ Objects(u) = {x \in Objects(t) :
                            x.key \notin {object(t, i).key : i \in LiveBuckets(t) \cap S}}
         /\ \A d : Spare(t, d) => Spare(u, d)
<1>. DEFINE keys == {object(t, i).key : i \in LiveBuckets(t) \cap S}
<1>1. \A i, j \in LiveBuckets(t) : object(t, i).key = object(t, j).key => i = j
  BY DEF Sound, NoneTwice
<1>2. \A i \in LiveBuckets(t) : i \in S <=> object(t, i).key \in keys
  BY <1>1
<1>3. /\ LiveBuckets(u) = LiveBuckets(t) \ S
      /\ \A i \in LiveBuckets(u) : object(u, i) = object(t, i)
      /\ bucket_count(u) = bucket_count(t) /\ num_nonempty(u) = num_nonempty(t)
      /\ u.settings.enlarge_factor = t.settings.enlarge_factor
  BY DEF Erases, SameReserved
<1>. HIDE DEF keys
<1>4. ASSUME NEW x \in Objects(u) PROVE x \in Objects(t) /\ x.key \notin keys
  <2>1. PICK i \in LiveBuckets(u) : x = object(u, i)
    BY DEF Objects
  <2>2. i \in LiveBuckets(t) /\ i \notin S /\ x = object(t, i)
    BY <1>3, <2>1
  <2>. QED
    BY <1>2, <2>2 DEF Objects
<1>5. ASSUME NEW x \in Objects(t), x.key \notin keys PROVE x \in Objects(u)
  <2>1. PICK i \in LiveBuckets(t) : x = object(t, i)
    BY DEF Objects
  <2>2. i \in LiveBuckets(u) /\ x = object(u, i)
    BY <1>2, <1>3, <1>5, <2>1
  <2>. QED
    BY <2>2 DEF Objects
<1>6. \A d : Spare(t, d) => Spare(u, d)
  BY <1>3 DEF Spare
<1>. QED
  BY <1>4, <1>5, <1>6 DEF keys

\* erase(key).
LEMMA EraseSound ==
  ASSUME NEW t, Sound(t), t.settings.use_deleted, NEW k \in Key
  PROVE  LET r == erase(t, k)
         IN  /\ Sound(r.ht) /\ SameReserved(r.ht, t)
             /\ \A d : Spare(t, d) => Spare(r.ht, d)
             /\ \/ /\ r.res = "erased" /\ HasKey(Objects(t), k)
                   /\ Objects(r.ht) = {x \in Objects(t) : x.key # k}
                \/ r.res = "absent" /\ ~HasKey(Objects(t), k) /\ Objects(r.ht) = Objects(t)
                \/ r.res = "table_full" /\ Objects(r.ht) = Objects(t)
<1>. DEFINE p == find_position(t, k)
            r == erase(t, k)
            OK(u) == /\ Sound(u.ht) /\ SameReserved(u.ht, t)
                     /\ \A d : Spare(t, d) => Spare(u.ht, d)
                     /\ \/ /\ u.res = "erased" /\ HasKey(Objects(t), k)
                           /\ Objects(u.ht) = {x \in Objects(t) : x.key # k}
                        \/ /\ u.res = "absent" /\ ~HasKey(Objects(t), k)
                           /\ Objects(u.ht) = Objects(t)
                        \/ u.res = "table_full" /\ Objects(u.ht) = Objects(t)
<1>1. /\ p.first # ILLEGAL_BUCKET => p.first \in LiveBuckets(t) /\ object(t, p.first).key = k
      /\ p.first = ILLEGAL_BUCKET /\ p.second # ILLEGAL_BUCKET => Free(t, k, p.second)
  BY FindPosition
<1>2. r = IF size(t) = 0 THEN Outcome(t, "absent")
          ELSE IF search_fails(p) THEN Outcome(t, "table_full")
          ELSE IF p.first = ILLEGAL_BUCKET THEN Outcome(t, "absent")
          ELSE Outcome(erase_at(t, p.first), "erased")
  BY DEF erase
<1>. HIDE DEF p, r
<1>3. LiveBuckets(t) = Used(t.table) \ Marked(t) /\ IsFiniteSet(LiveBuckets(t))
      /\ Cardinality(LiveBuckets(t)) = size(t)
  BY SoundLive
<1>4. ASSUME ~HasKey(Objects(t), k) PROVE OK(Outcome(t, "absent"))
  BY <1>4 DEF Outcome, SameReserved
<1>5. OK(Outcome(t, "table_full"))
  BY DEF Outcome, SameReserved
<1>6. ASSUME size(t) = 0 PROVE ~HasKey(Objects(t), k)
  <2>1. LiveBuckets(t) = {}
    BY <1>3, <1>6, FS_EmptySet
  <2>. QED
    BY <2>1, KeysOfObjects
<1>7. ASSUME ~search_fails(p), p.first = ILLEGAL_BUCKET PROVE ~HasKey(Objects(t), k)
  <2>1. Free(t, k, p.second)
    BY <1>1, <1>7 DEF search_fails
  <2>. QED
    BY <2>1, KeysOfObjects DEF Free
<1>8. ASSUME p.first # ILLEGAL_BUCKET PROVE OK(Outcome(erase_at(t, p.first), "erased"))
  <2>. DEFINE u == erase_at(t, p.first)
              w == Outcome(u, "erased")
  <2>1. p.first \in LiveBuckets(t) /\ object(t, p.first).key = k
    BY <1>1, <1>8
  <2>2. Erases(u, t, {p.first})
    BY <1>3, <2>1, EraseAtSound
  <2>. HIDE DEF u
  <2>3. HasKey(Objects(t), k)
    BY <2>1, KeysOfObjects
  <2>4. {object(t, i).key : i \in LiveBuckets(t) \cap {p.first}} = {k}
    BY <2>1
  <2>5. Objects(u) = {x \in Objects(t) : x.key # k} /\ \A d : Spare(t, d) => Spare(u, d)
    BY <2>2, <2>4, ErasedObjects
  <2>6. w.ht = u /\ w.res = "erased"
    BY DEF Outcome
  <2>. HIDE DEF w
  <2>7. OK(w)
    BY <2>2, <2>3, <2>5, <2>6 DEF Erases
  <2>. QED
    BY <2>7 DEF w, u
<1>. HIDE DEF OK
<1>9. OK(r)
  BY <1>2, <1>4, <1>5, <1>6, <1>7, <1>8
<1>. QED
  BY <1>9 DEF OK, r

\* The loop of erase(f, l) strikes out what is to go.
LEMMA DeleteEachStrikes ==
  ASSUME NEW t, Sound(t), NEW gone \in SUBSET LiveBuckets(t)
  PROVE  Struck(set_deleted_each(t, gone), t, gone)
<1>. DEFINE n == bucket_count(t)
            G(i) == {j \in gone : j < i}
<1>1. /\ IsTable(t) /\ n \in Nat /\ Buckets(t) = 0 .. n - 1
      /\ LiveBuckets(t) \subseteq Used(t.table) /\ LiveBuckets(t) \subseteq Buckets(t)
  BY SoundFields, Fields, SoundLive
<1>2. PICK upto : /\ upto[0] = t
                  /\ \A i \in 1 .. n : upto[i] = set_deleted_if(upto[i - 1], gone, i - 1)
                  /\ set_deleted_each(t, gone) = upto[n]
  BY <1>1, DeleteEachUnfolds
<1>. HIDE DEF n
<1>. DEFINE OK(i) == Struck(upto[i], t, G(i))
            Bad   == {i \in 0 .. n : ~OK(i)}
<1>3. G(0) = {} /\ G(n) = gone
  BY <1>1
<1>4. OK(0)
  BY <1>1, <1>2, <1>3, NothingStruck
<1>5. ASSUME NEW i \in 0 .. n - 1, OK(i) PROVE OK(i + 1)
  <2>1. i + 1 \in 1 .. n /\ (i + 1) - 1 = i /\ i \in Nat
    BY <1>1
  <2>2. upto[i + 1] = IF i \in gone THEN set_deleted(upto[i], i) ELSE upto[i]
    BY <1>2, <2>1 DEF set_deleted_if
  <2>3. G(i + 1) = IF i \in gone THEN G(i) \cup {i} ELSE G(i)
    BY <1>1, <2>1
  <2>4. G(i) \in SUBSET Used(t.table)
    BY <1>1
  <2>. HIDE DEF G
  <2>5. CASE i \in gone
    <3>1. i \in Used(t.table)
      BY <1>1, <2>5
    <3>2. Struck(set_deleted(upto[i], i), t, G(i) \cup {i})
      BY <1>1, <1>5, <2>4, <3>1, SetDeletedStrikes
    <3>. QED
      BY <2>2, <2>3, <2>5, <3>2
  <2>6. CASE i \notin gone
    BY <1>5, <2>2, <2>3, <2>6
  <2>. QED
    BY <2>5, <2>6
<1>. HIDE DEF OK
<1>6. Bad = {}
  <2>. SUFFICES ASSUME Bad # {} PROVE FALSE
    OBVIOUS
  <2>. Bad \in SUBSET Nat
    OBVIOUS
  <2>1. PICK m \in Bad : \A x \in Bad : m <= x
    BY LeastNumber
  <2>2. m # 0
    BY <1>4
  <2>3. m - 1 \in 0 .. n - 1 /\ m - 1 \in 0 .. n /\ ~(m <= m - 1) /\ (m - 1) + 1 = m
    BY <1>1, <2>2
  <2>4. OK(m - 1)
    BY <2>1, <2>3
  <2>5. OK((m - 1) + 1)
    BY <1>5, <2>3, <2>4
  <2>. QED
    BY <2>3, <2>5
<1>7. n \in 0 .. n
  BY <1>1
<1>8. OK(n)
  BY <1>6, <1>7
<1>. QED
  BY <1>2, <1>3, <1>8 DEF OK

\* erase(f, l).
LEMMA EraseRangeSound ==
  ASSUME NEW t, Sound(t), t.settings.use_deleted, NEW f, NEW l
  PROVE  Erases(erase_range(t, f, l), t, {i \in LiveBuckets(t) : f <= i /\ i < l})
<1>. DEFINE gone == {i \in LiveBuckets(t) : f <= i /\ i < l}
            u    == set_deleted_each(t, gone)
            d    == u.num_deleted + Cardinality(gone)
            s    == [u.settings EXCEPT !.consider_shrink = TRUE]
            v    == [u EXCEPT !.num_deleted = @ + Cardinality(gone),
                              !.settings.consider_shrink = TRUE]
<1>1. erase_range(t, f, l) = v
  BY DEF erase_range
<1>2. gone \in SUBSET LiveBuckets(t)
  OBVIOUS
<1>. HIDE DEF gone
<1>3. Struck(u, t, gone)
  BY <1>2, DeleteEachStrikes
<1>. HIDE DEF u
<1>4. /\ IsTable(u) /\ u.settings = t.settings /\ u.delkey = t.delkey
      /\ u.num_deleted = t.num_deleted /\ t.num_deleted \in Nat
  BY <1>3, SoundFields DEF Struck
<1>5. LiveBuckets(t) = Used(t.table) \ Marked(t) /\ IsFiniteSet(LiveBuckets(t))
  BY SoundLive
<1>6. IsFiniteSet(gone) /\ gone \ Marked(t) = gone
  BY <1>2, <1>5, FS_Subset
<1>7. d = t.num_deleted + Cardinality(gone \ Marked(t)) /\ d \in Nat
  <2>1. Cardinality(gone) \in Nat
    BY <1>6, FS_CardinalityType
  <2>. QED
    BY <1>4, <1>6, <2>1
<1>8. /\ s \in Settings /\ s.use_deleted = t.settings.use_deleted
      /\ s.enlarge_factor = t.settings.enlarge_factor
      /\ s.shrink_factor = t.settings.shrink_factor
      /\ s.enlarge_threshold = t.settings.enlarge_threshold
      /\ s.shrink_threshold = t.settings.shrink_threshold
  <2>1. u.settings \in Settings /\ u.settings = t.settings
    BY <1>4 DEF IsTable
  <2>. QED
    BY <2>1 DEF Settings
<1>9. u = [settings |-> u.settings, delkey |-> u.delkey,
           num_deleted |-> u.num_deleted, table |-> u.table]
  BY <1>4 DEF IsTable
<1>10. v = [settings |-> s, delkey |-> u.delkey, num_deleted |-> d, table |-> u.table]
  <2>. DEFINE w == [u EXCEPT !.num_deleted = d]
  <2>1. w = [settings |-> u.settings, delkey |-> u.delkey,
             num_deleted |-> d, table |-> u.table]
    <3>. HIDE DEF d
    <3>. QED
      BY <1>9
  <2>2. v = [w EXCEPT !.settings = [@ EXCEPT !.consider_shrink = TRUE]]
    OBVIOUS
  <2>. HIDE DEF w, d, v
  <2>. QED
    BY <2>1, <2>2
<1>. HIDE DEF s, d, v
<1>11. IsTable(v)
  BY <1>4, <1>7, <1>8, <1>10 DEF IsTable
<1>12. /\ v.table = u.table /\ v.delkey = t.delkey /\ v.settings = s /\ v.num_deleted = d
  BY <1>4, <1>10
<1>13. SameReserved(v, t)
  BY <1>8, <1>12 DEF SameReserved
<1>14. gone \in SUBSET Used(t.table)
  BY <1>2, <1>5
<1>15. Erases(v, t, gone)
  BY <1>3, <1>7, <1>8, <1>11, <1>12, <1>13, <1>14, StruckSound
<1>. QED
  BY <1>1, <1>15 DEF gone

\* An assignment through a reference changes a value, never a key.
LEMMA ValueSound ==
  ASSUME NEW t, Sound(t), NEW pos \in LiveBuckets(t), NEW v \in Val,
         NEW k, k = object(t, pos).key,
         NEW u, u = [t EXCEPT !.table = T!set(@, pos, [key |-> k, val |-> v])]
  PROVE  /\ Sound(u) /\ SameReserved(u, t)
         /\ Objects(u) = {x \in Objects(t) : x.key # k} \cup {[key |-> k, val |-> v]}
         /\ \A d : Spare(t, d) => Spare(u, d)
<1>. DEFINE obj == [key |-> k, val |-> v]
            tab == T!set(t.table, pos, obj)
<1>1. /\ IsTable(t) /\ pos \in Buckets(t) /\ pos \in Used(t.table)
      /\ k \in Key /\ obj \in Slot
      /\ LiveBuckets(t) = Used(t.table) \ Marked(t)
      /\ IsFiniteSet(Marked(t)) /\ t.num_deleted = Cardinality(Marked(t))
      /\ t.num_deleted \in Nat
  BY SoundFields, SoundLive, LiveCount DEF Sound, Slot
<1>2. obj.key = k
  OBVIOUS
<1>3. tab = T!set(t.table, pos, obj)
  OBVIOUS
<1>. HIDE DEF tab, obj
<1>4. u = [settings |-> t.settings, delkey |-> t.delkey,
           num_deleted |-> t.num_deleted, table |-> tab]
  BY <1>1 DEF IsTable, tab, obj
<1>5. /\ u.table = tab /\ u.settings = t.settings /\ u.delkey = t.delkey
      /\ u.num_deleted = t.num_deleted
  BY <1>4
<1>6. /\ TabSound(u.table) /\ bucket_count(u) = bucket_count(t)
      /\ Used(u.table) = Used(t.table) \cup {pos} /\ object(u, pos) = obj
      /\ \A j \in Used(t.table) : j # pos => object(u, j) = object(t, j)
  <2>1. u.table = T!set(t.table, pos, obj)
    BY <1>3, <1>5
  <2>2. IsTable(t) /\ pos \in Buckets(t) /\ obj \in Slot
    BY <1>1
  <2>3. pos \in Numbers(t.table) /\ TabSound(t.table)
    BY <2>2, Fields DEF IsTable
  <2>4. Written(u.table, t.table, pos, obj)
    BY <2>1, <2>2, <2>3, SetWrites
  <2>5. bucket_count(u) = bucket_count(t)
    BY <2>4 DEF Written, bucket_count
  <2>. QED
    BY <2>4, <2>5 DEF Written, object
<1>7. IsTable(u)
  BY <1>1, <1>4, <1>5, <1>6 DEF IsTable
<1>8. Used(u.table) = Used(t.table)
  BY <1>1, <1>6
<1>9. \A j \in Used(t.table) : object(u, j).key = object(t, j).key
  BY <1>2, <1>6
<1>10. Marked(u) = Marked(t)
  <2>1. CASE t.settings.use_deleted
    <3>1. Marked(u) = {j \in Used(t.table) : object(u, j).key = t.delkey}
      BY <1>5, <1>8, <2>1 DEF Marked
    <3>2. Marked(t) = {j \in Used(t.table) : object(t, j).key = t.delkey}
      BY <2>1 DEF Marked
    <3>. QED
      BY <1>9, <3>1, <3>2
  <2>2. CASE ~t.settings.use_deleted
    BY <1>5, <2>2 DEF Marked
  <2>. QED
    BY <2>1, <2>2
<1>11. u.num_deleted = Cardinality(Marked(u)) /\ u.num_deleted >= t.num_deleted
  BY <1>1, <1>5, <1>10
<1>12. LiveBuckets(u) = LiveBuckets(t)
  <2>1. LiveBuckets(u) = Used(u.table) \ Marked(u)
    BY <1>7, <1>11, LiveCount
  <2>. QED
    BY <1>1, <1>8, <1>10, <2>1
<1>13. Sound(u)
  <2>1. RoomFor(u.settings) /\ InSync(u)
    BY <1>5, <1>6 DEF Sound, InSync
  <2>2. \A j \in LiveBuckets(u) : object(u, j).key = object(t, j).key
    BY <1>1, <1>9, <1>12
  <2>. QED
    BY <1>6, <1>7, <1>8, <1>11, <1>12, <2>1, <2>2, FewerLiveSound
<1>14. num_nonempty(u) = num_nonempty(t)
  BY <1>1, <1>7, <1>8, Fields
<1>15. Objects(u) = {x \in Objects(t) : x.key # k} \cup {obj}
  <2>1. \A i \in LiveBuckets(t) : i # pos <=> object(t, i).key # k
    BY DEF Sound, NoneTwice
  <2>2. ASSUME NEW i \in LiveBuckets(t), i # pos
        PROVE  object(u, i) = object(t, i)
    BY <1>1, <1>6, <2>2
  <2>3. ASSUME NEW x \in Objects(u) PROVE x = obj \/ (x \in Objects(t) /\ x.key # k)
    <3>1. PICK i \in LiveBuckets(t) : x = object(u, i)
      BY <1>12 DEF Objects
    <3>2. CASE i = pos
      BY <1>6, <3>1, <3>2
    <3>3. CASE i # pos
      BY <2>1, <2>2, <3>1, <3>3 DEF Objects
    <3>. QED
      BY <3>2, <3>3
  <2>4. ASSUME NEW x \in Objects(t), x.key # k PROVE x \in Objects(u)
    <3>1. PICK i \in LiveBuckets(t) : x = object(t, i)
      BY DEF Objects
    <3>2. i # pos /\ x = object(u, i)
      BY <2>1, <2>2, <2>4, <3>1
    <3>. QED
      BY <1>12, <3>2 DEF Objects
  <2>5. obj \in Objects(u)
    BY <1>6, <1>12 DEF Objects
  <2>. QED
    BY <2>3, <2>4, <2>5
<1>16. SameReserved(u, t) /\ \A d : Spare(t, d) => Spare(u, d)
  BY <1>5, <1>6, <1>14 DEF SameReserved, Spare
<1>. QED
  BY <1>13, <1>15, <1>16 DEF obj

-----------------------------------------------------------------------------
(* Lookups and iterations.                                                 *)

\* find answers with the iterator to the one object of the key, or with end.
LEMMA FindIs ==
  ASSUME NEW t, Sound(t), NEW k \in Key
  PROVE  /\ \A i \in LiveBuckets(t) : object(t, i).key = k =>
                                        find(t, k) = Spot(t.table, i)
         /\ (\A i \in LiveBuckets(t) : object(t, i).key # k) => find(t, k) = end(t)
<1>. DEFINE p == find_position(t, k)
<1>1. find(t, k) = IF size(t) = 0 \/ p.first = ILLEGAL_BUCKET THEN end(t)
                   ELSE Spot(t.table, p.first)
  BY DEF find, Spot
<1>2. ASSUME NEW i \in LiveBuckets(t), object(t, i).key = k
      PROVE  p.first = i /\ p.first # ILLEGAL_BUCKET /\ size(t) # 0
  <2>1. i \in {j \in LiveBuckets(t) : object(t, j).key = k}
    BY <1>2
  <2>2. {j \in LiveBuckets(t) : object(t, j).key = k} = {p.first} /\ p.first # ILLEGAL_BUCKET
    BY <1>2, <2>1, Lookups
  <2>. HIDE DEF p
  <2>3. p.first = i
    BY <2>1, <2>2
  <2>4. size(t) # 0
    BY SoundLive, FS_EmptySet
  <2>. QED
    BY <2>2, <2>3, <2>4
<1>3. ASSUME \A i \in LiveBuckets(t) : object(t, i).key # k PROVE p.first = ILLEGAL_BUCKET
  BY <1>3, FindPosition
<1>. HIDE DEF p
<1>. QED
  BY <1>1, <1>2, <1>3

\* In a table with an empty bucket all ways to look for a key agree.
LEMMA LookupsAgree ==
  ASSUME NEW t, Sound(t), num_nonempty(t) < bucket_count(t), NEW k \in Key
  PROVE  LET places == {i \in LiveBuckets(t) : object(t, i).key = k}
             found  == IF find(t, k) = end(t) THEN {} ELSE {T!get_pos(t.table, find(t, k))}
         IN  /\ found = places /\ count(t, k) = Cardinality(found)
             /\ bucket(t, k) \in Buckets(t)
             /\ equal_range(t, k)[1] = find(t, k)
             /\ found # {} => equal_range(t, k)[2] = next(t, find(t, k))
<1>. DEFINE places == {i \in LiveBuckets(t) : object(t, i).key = k}
            p      == find_position(t, k)
            pos    == find(t, k)
            found  == IF pos = end(t) THEN {} ELSE {T!get_pos(t.table, pos)}
<1>1. /\ ~search_fails(p)
      /\ places = {} => p.first = ILLEGAL_BUCKET /\ p.second \in Buckets(t)
      /\ places # {} => places = {p.first} /\ p.first # ILLEGAL_BUCKET
  BY Lookups
<1>2. count(t, k) = IF p.first = ILLEGAL_BUCKET THEN 0 ELSE 1
  BY DEF count
<1>3. bucket(t, k) = IF p.first = ILLEGAL_BUCKET THEN p.second ELSE p.first
  BY DEF bucket
<1>4. equal_range(t, k) = IF pos = end(t) THEN <<pos, pos>> ELSE <<pos, next(t, pos)>>
  BY DEF equal_range
<1>5. LiveBuckets(t) \subseteq Buckets(t) /\ LiveBuckets(t) \subseteq Used(t.table)
  BY SoundLive
<1>. HIDE DEF p
<1>6. CASE places = {}
  <2>1. pos = end(t)
    BY <1>6, FindIs
  <2>2. found = {}
    BY <2>1
  <2>3. count(t, k) = 0 /\ bucket(t, k) \in Buckets(t)
    BY <1>1, <1>2, <1>3, <1>6
  <2>4. equal_range(t, k)[1] = pos
    BY <1>4
  <2>. HIDE DEF found, places
  <2>5. count(t, k) = Cardinality(found)
    BY <2>2, <2>3, FS_EmptySet
  <2>. QED
    BY <1>6, <2>2, <2>3, <2>4, <2>5 DEF found, places, pos
<1>7. CASE places # {}
  <2>1. PICK i \in places : TRUE
    BY <1>7
  <2>2. i \in LiveBuckets(t) /\ object(t, i).key = k /\ i \in Used(t.table)
    BY <1>5, <2>1
  <2>3. pos = Spot(t.table, i)
    BY <2>2, FindIs
  <2>4. pos # end(t) /\ T!get_pos(t.table, pos) = i
    BY <2>2, <2>3, SpotOf
  <2>5. found = {i} /\ places = {i} /\ p.first = i /\ p.first # ILLEGAL_BUCKET
    BY <1>1, <1>7, <2>1, <2>4
  <2>6. count(t, k) = 1 /\ bucket(t, k) \in Buckets(t)
    BY <1>2, <1>3, <1>5, <2>2, <2>5
  <2>7. equal_range(t, k)[1] = pos /\ equal_range(t, k)[2] = next(t, pos)
    BY <1>4, <2>4
  <2>. HIDE DEF found, places
  <2>8. count(t, k) = Cardinality(found)
    BY <2>5, <2>6, FS_Singleton
  <2>. QED
    BY <2>5, <2>6, <2>7, <2>8 DEF found, places, pos
<1>. QED
  BY <1>6, <1>7

\* A walk from begin takes one object after the other and ends at end.
LEMMA WalkMeetsAll ==
  ASSUME NEW t, Sound(t), NEW walk, walk[0] = begin(t),
         \A i \in 1 .. size(t) : walk[i] = next(t, walk[i - 1])
  PROVE  /\ walk[size(t)] = end(t)
         /\ {T!get_pos(t.table, walk[i]) : i \in 0 .. size(t) - 1} = LiveBuckets(t)
<1>. DEFINE N    == size(t)
            live == LiveBuckets(t)
            met(i) == {T!get_pos(t.table, walk[j]) : j \in 0 .. i - 1}
            OK(i) == /\ walk[i] = end(t) \/ \E x \in live : walk[i] = Spot(t.table, x)
                     /\ Cardinality(Done(t, walk[i])) = i
                     /\ Done(t, walk[i]) = met(i)
            Bad == {i \in 0 .. N : ~OK(i)}
<1>1. /\ N \in Nat /\ IsFiniteSet(live) /\ Cardinality(live) = N
      /\ live \subseteq Used(t.table) /\ N = size(t)
  BY SoundFields, SoundLive
<1>2. /\ \A it : /\ Done(t, it) \subseteq live
                 /\ IsFiniteSet(Done(t, it)) /\ Cardinality(Done(t, it)) \in Nat
      /\ Done(t, end(t)) = live
      /\ \A i \in live :
           /\ Done(t, next(t, Spot(t.table, i))) = Done(t, Spot(t.table, i)) \cup {i}
           /\ i \notin Done(t, Spot(t.table, i))
      /\ Done(t, begin(t)) = {}
  BY DoneGrows
<1>. HIDE DEF N
<1>3. OK(0)
  <2>1. At(t, begin(t), live)
    BY BeginIs
  <2>2. walk[0] = end(t) \/ \E x \in live : walk[0] = Spot(t.table, x)
    BY <2>1 DEF At
  <2>3. met(0) = {} /\ Done(t, walk[0]) = {}
    BY <1>2
  <2>4. Cardinality(Done(t, walk[0])) = 0
    BY <2>3, FS_EmptySet
  <2>. QED
    BY <2>2, <2>3, <2>4
<1>4. ASSUME NEW i \in 0 .. N - 1, OK(i) PROVE OK(i + 1)
  <2>1. i \in Nat /\ i + 1 \in 1 .. N /\ (i + 1) - 1 = i /\ i # N
    BY <1>1
  <2>2. walk[i] # end(t)
    BY <1>1, <1>2, <1>4, <2>1
  <2>3. PICK x \in live : walk[i] = Spot(t.table, x)
    BY <1>4, <2>2
  <2>4. walk[i + 1] = next(t, walk[i])
    BY <1>1, <2>1
  <2>5. At(t, walk[i + 1], {y \in live : x < y})
    BY <1>1, <2>3, <2>4, NextIs
  <2>6. walk[i + 1] = end(t) \/ \E y \in live : walk[i + 1] = Spot(t.table, y)
    BY <2>5 DEF At
  <2>7. /\ Done(t, walk[i + 1]) = Done(t, walk[i]) \cup {x}
        /\ x \notin Done(t, walk[i])
    BY <1>2, <2>3, <2>4
  <2>8. T!get_pos(t.table, walk[i]) = x
    BY <1>1, <2>3, SpotOf
  <2>9. met(i + 1) = met(i) \cup {x}
    <3>1. 0 .. (i + 1) - 1 = (0 .. i - 1) \cup {i}
      BY <2>1
    <3>. QED
      BY <2>8, <3>1
  <2>10. Cardinality(Done(t, walk[i + 1])) = i + 1
    BY <1>2, <1>4, <2>7, FS_AddElement
  <2>. HIDE DEF met
  <2>. QED
    BY <1>4, <2>6, <2>7, <2>9, <2>10
<1>. HIDE DEF OK
<1>5. Bad = {}
  <2>. SUFFICES ASSUME Bad # {} PROVE FALSE
    OBVIOUS
  <2>. Bad \in SUBSET Nat
    OBVIOUS
  <2>1. PICK m \in Bad : \A x \in Bad : m <= x
    BY LeastNumber
  <2>2. m # 0
    BY <1>3
  <2>3. m - 1 \in 0 .. N - 1 /\ m - 1 \in 0 .. N /\ ~(m <= m - 1) /\ (m - 1) + 1 = m
    BY <1>1, <2>2
  <2>4. OK(m - 1)
    BY <2>1, <2>3
  <2>5. OK((m - 1) + 1)
    BY <1>4, <2>3, <2>4
  <2>. QED
    BY <2>3, <2>5
<1>6. N \in 0 .. N
  BY <1>1
<1>7. OK(N)
  BY <1>5, <1>6
<1>8. Done(t, walk[N]) = live
  <2>. DEFINE D == Done(t, walk[N])
  <2>1. D \subseteq live /\ Cardinality(D) = Cardinality(live)
    BY <1>1, <1>2, <1>7 DEF OK
  <2>. HIDE DEF D, live
  <2>2. D \in SUBSET live
    BY <2>1
  <2>3. D = live
    BY <1>1, <2>1, <2>2, FS_Subset
  <2>. QED
    BY <2>3 DEF D
<1>9. walk[N] = end(t)
  BY <1>2, <1>7, <1>8 DEF OK
<1>10. met(N) = live
  BY <1>7, <1>8 DEF OK
<1>. QED
  BY <1>9, <1>10 DEF N

\* There are as many objects as live buckets.
LEMMA ObjectsCount ==
  ASSUME NEW t, Sound(t)
  PROVE  IsFiniteSet(Objects(t)) /\ Cardinality(Objects(t)) = size(t)
<1>. DEFINE f == [i \in LiveBuckets(t) |-> object(t, i)]
<1>1. IsFiniteSet(LiveBuckets(t)) /\ Cardinality(LiveBuckets(t)) = size(t)
  BY SoundLive
<1>2. \A i, j \in LiveBuckets(t) : object(t, i) = object(t, j) => i = j
  BY DEF Sound, NoneTwice
<1>3. f \in [LiveBuckets(t) -> Objects(t)] /\ \A i \in LiveBuckets(t) : f[i] = object(t, i)
  BY DEF Objects
<1>4. \A x \in Objects(t) : \E i \in LiveBuckets(t) : f[i] = x
  BY <1>3 DEF Objects
<1>5. \A i, j \in LiveBuckets(t) : f[i] = f[j] => i = j
  BY <1>2, <1>3
<1>. HIDE DEF f
<1>6. f \in Surjection(LiveBuckets(t), Objects(t)) /\ f \in Injection(LiveBuckets(t), Objects(t))
  BY <1>3, <1>4, <1>5 DEF Surjection, Injection, IsInjective
<1>. QED
  BY <1>1, <1>6, FS_Surjection

\* operator== compares the objects, whatever else differs.
LEMMA TablesEqual ==
  ASSUME NEW t, Sound(t), NEW u, Sound(u)
  PROVE  tables_equal(t, u) <=> Objects(t) = Objects(u)
<1>1. ASSUME NEW i \in LiveBuckets(t)
      PROVE  LET it == find(u, object(t, i).key)
             IN  it # end(u) /\ T!dereference(u.table, it) = object(t, i)
                   <=> object(t, i) \in Objects(u)
  <2>. DEFINE k  == object(t, i).key
              it == find(u, k)
  <2>1. k \in Key
    BY SoundLive
  <2>. HIDE DEF k
  <2>2. CASE \A j \in LiveBuckets(u) : object(u, j).key # k
    <3>1. it = end(u)
      BY <2>1, <2>2, FindIs
    <3>2. object(t, i) \notin Objects(u)
      BY <2>2 DEF Objects, k
    <3>. QED
      BY <3>1, <3>2 DEF k
  <2>3. CASE \E j \in LiveBuckets(u) : object(u, j).key = k
    <3>1. PICK j \in LiveBuckets(u) : object(u, j).key = k
      BY <2>3
    <3>2. it = Spot(u.table, j)
      BY <2>1, <3>1, FindIs
    <3>3. j \in Used(u.table)
      BY SoundLive
    <3>4. it # end(u) /\ T!dereference(u.table, it) = object(u, j)
      BY <3>2, <3>3, SpotOf
    <3>5. \A x \in LiveBuckets(u) : object(u, x).key = k => x = j
      BY <3>1 DEF Sound, NoneTwice
    <3>6. object(t, i) \in Objects(u) <=> object(t, i) = object(u, j)
      BY <3>5 DEF Objects, k
    <3>. HIDE DEF it
    <3>. QED
      BY <3>4, <3>6 DEF k, it
  <2>. QED
    BY <2>2, <2>3
<1>2. tables_equal(t, u) <=>
        size(t) = size(u) /\ \A i \in LiveBuckets(t) : object(t, i) \in Objects(u)
  BY <1>1 DEF tables_equal
<1>3. (\A i \in LiveBuckets(t) : object(t, i) \in Objects(u)) <=> Objects(t) \subseteq Objects(u)
  BY DEF Objects
<1>. DEFINE A == Objects(t)
            B == Objects(u)
<1>4. /\ IsFiniteSet(A) /\ Cardinality(A) = size(t)
      /\ IsFiniteSet(B) /\ Cardinality(B) = size(u)
  BY ObjectsCount
<1>5. size(t) = size(u) /\ A \subseteq B <=> A = B
  <2>. HIDE DEF A, B
  <2>1. ASSUME size(t) = size(u), A \subseteq B PROVE A = B
    <3>1. A \in SUBSET B /\ Cardinality(A) = Cardinality(B)
      BY <1>4, <2>1
    <3>. QED
      BY <1>4, <3>1, FS_Subset
  <2>. QED
    BY <1>4, <2>1
<1>. QED
  BY <1>2, <1>3, <1>5

=============================================================================
