----------------------------- MODULE SparseTable -----------------------------
(***************************************************************************)
(* The sparsegroup and sparsetable classes of file sparsehash/sparsetable: *)
(* an array of table_size elements, most of them unassigned, cut into      *)
(* groups of GROUP_SIZE.  A group keeps the assigned elements only, packed *)
(* in an array, and a bitmap that says which positions they belong to.  A  *)
(* location is a number in the table, a position one in a group, an offset *)
(* one in a group's array.  An unsigned char of the bitmap is the set of   *)
(* its bits.                                                               *)
(*                                                                         *)
(* A table and a group are records, a method is an operator.  Methods that *)
(* call the same method of a group have the group's under a name with      *)
(* group_ before it.                                                       *)
(***************************************************************************)
EXTENDS Streams, FiniteSets, FiniteSetsExt

CONSTANTS
  GROUP_SIZE,     \* elements per group (48)
  CHAR_BIT,       \* bits of an unsigned char (8)
  default_value,  \* what an unassigned element reads as
  UNINITIALIZED   \* what an object allocated and never written reads as

ASSUME GroupAssumption == GROUP_SIZE \in Nat \ {0} /\ CHAR_BIT \in Nat \ {0}

Chars     == 0 .. (GROUP_SIZE - 1) \div CHAR_BIT  \* those of a bitmap
Bits      == 0 .. CHAR_BIT - 1
Positions == 0 .. GROUP_SIZE - 1

-----------------------------------------------------------------------------
(* The bitmap of a group.                                                  *)

charbit(i) == i \div CHAR_BIT
modbit(i)  == i % CHAR_BIT

bmtest(bm, i)  == modbit(i) \in bm[charbit(i)]
bmset(bm, i)   == [bm EXCEPT ![charbit(i)] = @ \cup {modbit(i)}]
bmclear(bm, i) == [bm EXCEPT ![charbit(i)] = @ \ {modbit(i)}]

bits_in_char(c) == Cardinality(c)

\* How many bits are set in the first n chars.
bits_in_chars(bm, n) ==
  LET upto[i \in 0 .. n] == IF i = 0 THEN 0 ELSE upto[i - 1] + bits_in_char(bm[i - 1])
  IN  upto[n]

\* How many bits are set before a position: whole chars as long as more than
\* CHAR_BIT positions are left, then the low bits of the next one.
\* Mutant: the last char is taken whole at a char's boundary.
pos_to_offset_off_by_one(bm, pos) ==
  LET whole == pos \div CHAR_BIT
      last  == {b \in bm[whole] : b <= pos - CHAR_BIT * whole}
  IN  bits_in_chars(bm, whole) + bits_in_char(last)

pos_to_offset(bm, pos) ==
  LET whole == IF pos = 0 THEN 0 ELSE (pos - 1) \div CHAR_BIT
      last  == {b \in bm[whole] : b < pos - CHAR_BIT * whole}
  IN  bits_in_chars(bm, whole) + bits_in_char(last)

\* The position of the offset-th set bit: the first char with enough of them
\* before its end, and in it the lowest bit left after the lower ones are
\* removed.  GROUP_SIZE rounded up to whole chars if there is none.
offset_to_pos(bm, offset) ==
  LET enough == {c \in Chars : bits_in_chars(bm, c + 1) > offset}
      lower(c, b) == {x \in bm[c] : x < b}
      bit(c) == CHOOSE b \in bm[c] :
                  bits_in_chars(bm, c) + bits_in_char(lower(c, b)) = offset
  IN  IF enough = {} THEN CHAR_BIT * Cardinality(Chars)
      ELSE CHAR_BIT * Min(enough) + bit(Min(enough))

-----------------------------------------------------------------------------
(* Groups.                                                                 *)

new_group ==
  [group |-> <<>>, num_buckets |-> 0, bitmap |-> [c \in Chars |-> {}]]

\* Free the array (a freed one is NULL, here empty) and zero the rest.
group_clear(g) == [g EXCEPT !.group = <<>>, !.num_buckets = 0,
                            !.bitmap = [c \in Chars |-> {}]]

\* The copy constructor and operator=: an array of its own.
group_copy(x) == [x EXCEPT !.group = SubSeq(@, 1, x.num_buckets)]

group_get(g, i) ==
  IF bmtest(g.bitmap, i) THEN g.group[pos_to_offset(g.bitmap, i) + 1] ELSE default_value

group_unsafe_get(g, i) == g.group[pos_to_offset(g.bitmap, i) + 1]

\* Make room at an offset, and close it up: realloc and memmove for simple
\* values, a fresh array and copies for others.
set_aux(array, offset, val) == InsertAt(array, offset + 1, val)
erase_aux(array, offset)    == RemoveAt(array, offset + 1)

group_set(g, i, val) ==
  LET offset == pos_to_offset(g.bitmap, i)
  IN  IF bmtest(g.bitmap, i)
      THEN [g EXCEPT !.group[offset + 1] = val]
      ELSE [group       |-> set_aux(g.group, offset, val),
            num_buckets |-> g.num_buckets + 1,
            bitmap      |-> bmset(g.bitmap, i)]

group_mutating_get(g, i) ==
  IF bmtest(g.bitmap, i) THEN g ELSE group_set(g, i, default_value)

group_erase(g, i) ==
  IF bmtest(g.bitmap, i)
  THEN [group       |-> IF g.num_buckets = 1 THEN <<>>
                        ELSE erase_aux(g.group, pos_to_offset(g.bitmap, i)),
        num_buckets |-> g.num_buckets - 1,
        bitmap      |-> bmclear(g.bitmap, i)]
  ELSE g

\* Erase the positions from first to the end of the group.
group_erase_from(g, first) ==
  LET upto[i \in first - 1 .. GROUP_SIZE - 1] ==
        IF i < first THEN g ELSE group_erase(upto[i - 1], i)
  IN  upto[GROUP_SIZE - 1]

\* Unassigned and assigned elements are told apart ...
\* Mutant: they are not, only what they read as counts.
group_equal_by_value(g, h) == \A i \in Positions : group_get(g, i) = group_get(h, i)

group_equal(g, h) ==
  /\ g.num_buckets = h.num_buckets
  /\ g.bitmap = h.bitmap
  /\ \A i \in Positions : group_get(g, i) = group_get(h, i)

-----------------------------------------------------------------------------
(* Tables.                                                                 *)

num_groups(n)   == IF n = 0 THEN 0 ELSE (n - 1) \div GROUP_SIZE + 1
pos_in_group(i) == i % GROUP_SIZE
group_num(i)    == i \div GROUP_SIZE + 1  \* groups are counted from 1 here

which_group(t, i) == t.groups[group_num(i)]

new_sparsetable(n) ==
  [groups |-> [g \in 1 .. num_groups(n) |-> new_group], table_size |-> n, num_buckets |-> 0]

copy(t) == [t EXCEPT !.groups = [g \in DOMAIN @ |-> group_copy(@[g])]]

Locations(t) == 0 .. t.table_size - 1

test(t, i)       == bmtest(which_group(t, i).bitmap, pos_in_group(i))
get(t, i)        == group_get(which_group(t, i), pos_in_group(i))
unsafe_get(t, i) == group_unsafe_get(which_group(t, i), pos_in_group(i))

clear(t) ==
  [t EXCEPT !.groups = [g \in DOMAIN @ |-> group_clear(@[g])], !.num_buckets = 0]

\* A group changes, and num_buckets by as much as the group's.
with_group(t, n, g) ==
  [t EXCEPT !.groups[n] = g, !.num_buckets = @ + g.num_buckets - t.groups[n].num_buckets]

set(t, i, val) == with_group(t, group_num(i), group_set(which_group(t, i), pos_in_group(i), val))

\* Mutant: num_buckets is left to the group.
mutating_get_uncounted(t, i) ==
  [t EXCEPT !.groups[group_num(i)] = group_mutating_get(@, pos_in_group(i))]

mutating_get(t, i) ==
  with_group(t, group_num(i), group_mutating_get(which_group(t, i), pos_in_group(i)))

erase(t, i) == with_group(t, group_num(i), group_erase(which_group(t, i), pos_in_group(i)))

\* Erase the locations from first up to but not including last.
erase_range(t, first, last) ==
  LET upto[i \in first .. last] == IF i = first THEN t ELSE erase(upto[i - 1], i - 1)
  IN  upto[last]

num_nonempty_of(groups) ==
  LET upto[g \in 0 .. Len(groups)] ==
        IF g = 0 THEN 0 ELSE upto[g - 1] + groups[g].num_buckets
  IN  upto[Len(groups)]

\* vector::resize: groups beyond the new end go, new ones are empty.
resized_groups(t, n) ==
  [g \in 1 .. num_groups(n) |-> IF g <= Len(t.groups) THEN t.groups[g] ELSE new_group]

\* Mutant: the tail of the last group stays.
resize_keeping_tail(t, n) ==
  [t EXCEPT !.groups      = resized_groups(t, n),
            !.table_size  = n,
            !.num_buckets = IF n < t.table_size
                            THEN num_nonempty_of(resized_groups(t, n)) ELSE @]

resize(t, n) ==
  LET kept     == resized_groups(t, n)
      trimmed  == IF pos_in_group(n) > 0
                  THEN [kept EXCEPT ![Len(kept)] = group_erase_from(@, pos_in_group(n))]
                  ELSE kept
  IN  IF n < t.table_size
      THEN [groups |-> trimmed, table_size |-> n, num_buckets |-> num_nonempty_of(trimmed)]
      ELSE [t EXCEPT !.groups = kept, !.table_size = n]

equal(t, u) ==
  /\ t.table_size = u.table_size
  /\ t.num_buckets = u.num_buckets
  /\ \A g \in DOMAIN t.groups : group_equal(t.groups[g], u.groups[g])

\* ... by operator==; operator< compares what they read as, location by location.
less(t, u) ==
  \E i \in 0 .. t.table_size :
    /\ i <= u.table_size
    /\ \A j \in 0 .. i - 1 : get(t, j) = get(u, j)
    /\ IF i = t.table_size THEN i < u.table_size
                           ELSE i < u.table_size /\ get(t, i) < get(u, i)

-----------------------------------------------------------------------------
(***************************************************************************)
(* The iterators over assigned elements: a row, which is a group, and a    *)
(* column, which is a pointer into its array, here an offset.  In row_end, *)
(* one behind the last row, the column does not matter and is 0 here.      *)
(***************************************************************************)
Iterator(row, col) == [row |-> row, col |-> col]
row_end(groups) == Len(groups) + 1

\* From the end of a row to the beginning of the next one that has elements.
\* Mutant: only one row further, empty or not.
advance_one_row(groups, it) ==
  IF it.row # row_end(groups) /\ it.col = groups[it.row].num_buckets
  THEN Iterator(it.row + 1, 0)
  ELSE it

advance_past_end(groups, it) ==
  LET rows == {r \in it.row + 1 .. Len(groups) : groups[r].num_buckets > 0}
  IN  IF it.row = row_end(groups) \/ it.col # groups[it.row].num_buckets
      THEN it
      ELSE Iterator(Min(rows \cup {row_end(groups)}), 0)

nonempty_begin(t) == advance_past_end(t.groups, Iterator(1, 0))
nonempty_end(t)   == Iterator(row_end(t.groups), 0)

increment(t, it) == advance_past_end(t.groups, Iterator(it.row, it.col + 1))

decrement(t, it) ==
  LET rows == {r \in 1 .. it.row - 1 : t.groups[r].num_buckets > 0}
  IN  IF it.row # row_end(t.groups) /\ it.col > 0
      THEN Iterator(it.row, it.col - 1)
      ELSE Iterator(Max(rows), t.groups[Max(rows)].num_buckets - 1)

dereference(t, it) == t.groups[it.row].group[it.col + 1]

\* From a location to an iterator and back.
get_iter(t, i) ==
  Iterator(group_num(i), pos_to_offset(which_group(t, i).bitmap, pos_in_group(i)))

get_pos(t, it) ==
  (it.row - 1) * GROUP_SIZE + offset_to_pos(t.groups[it.row].bitmap, it.col)

(***************************************************************************)
(* The destructive iterator does the same steps, and each row it leaves    *)
(* behind is cleared.  The table's num_buckets stays what it was.          *)
(***************************************************************************)
destroy_rows(t, from, to) ==
  [t EXCEPT !.groups = [r \in DOMAIN @ |->
                          IF from <= r /\ r < to THEN group_clear(@[r]) ELSE @[r]]]

-----------------------------------------------------------------------------
(* Reading and writing, see module Streams.                                *)

MAGIC_NUMBER == Magic("sparsetable")  \* 0x24687531, in four bytes

group_write_metadata(g) ==
  write_bigendian_number(g.num_buckets, SHORT)
    \o [c \in 1 .. Cardinality(Chars) |-> Char(g.bitmap[c - 1])]

\* What becomes of a group: it is cleared, and what the stream does not reach
\* stays zero.
\* The array is allocated when all of it is there, and not filled.
group_of(num, chars, rest, ok) ==
  Reading([group       |-> IF ok THEN [i \in 1 .. num |-> UNINITIALIZED] ELSE <<>>,
           num_buckets |-> num,
           bitmap      |-> [c \in Chars |-> IF c < Len(chars) THEN chars[c + 1][2] ELSE {}]],
          rest, ok)

group_read_bitmap(num, n) ==
  group_of(num.t, read_data(num.rest, n), after_data(num.rest, n), n <= Len(num.rest))

group_read_metadata(fp) ==
  group_read_bitmap(read_bigendian_number(fp, SHORT), Cardinality(Chars))

write_metadata(t) ==
  <<MAGIC_NUMBER>> \o write_32_or_64(t.table_size) \o write_32_or_64(t.num_buckets)
    \o FlattenSeq([g \in DOMAIN t.groups |-> group_write_metadata(t.groups[g])])

\* One group after the other; those behind the end of the stream are left alone.
group_came(t, n, g) == Reading([t EXCEPT !.groups[n] = g.t], g.rest, g.ok)

read_groups(t, fp) ==
  LET read(r, n) == IF r.ok THEN group_came(r.t, n, group_read_metadata(r.rest)) ELSE r
  IN  FoldLeft(read, Reading(t, fp, TRUE), [n \in DOMAIN t.groups |-> n])

\* The sizes go into the table as they are read, the groups follow when both
\* are there.
num_buckets_came(t, num) ==
  LET counted == [t EXCEPT !.num_buckets = num.t]
  IN  IF num.ok THEN read_groups(resize(counted, t.table_size), num.rest)
                ELSE Reading(counted, <<>>, FALSE)

table_size_came(t, size) ==
  LET sized == [t EXCEPT !.table_size = size.t]
  IN  IF size.ok THEN num_buckets_came(sized, read_32_or_64(size.rest, t.num_buckets))
                 ELSE Reading(sized, <<>>, FALSE)

\* A table whose stream has another magic number is cleared.
read_metadata(t, fp) ==
  IF fp = <<>> THEN Reading(t, fp, FALSE)
  ELSE IF Head(fp) # MAGIC_NUMBER THEN Reading(clear(t), Tail(fp), FALSE)
  ELSE table_size_came(t, read_32_or_64(Tail(fp), t.table_size))

\* The assigned elements as they are, which is what serialize writes of them too.
write_nopointer_data(t) ==
  FlattenSeq([g \in DOMAIN t.groups |->
                [i \in DOMAIN t.groups[g].group |-> Object(t.groups[g].group[i])]])

\* The assigned elements are filled in order as far as the stream goes.
group_filled(r, g, there) ==
  Reading(Append(r.t, [g EXCEPT !.group = [i \in 1 .. g.num_buckets |->
                                             IF i <= Len(there) THEN there[i][2] ELSE @[i]]]),
          after_data(r.rest, g.num_buckets), r.ok /\ Len(there) = g.num_buckets)

with_groups(t, r) == [r EXCEPT !.t = [t EXCEPT !.groups = r.t]]

read_nopointer_data(t, fp) ==
  LET filled(r, g) == group_filled(r, g, read_data(r.rest, g.num_buckets))
  IN  with_groups(t, FoldLeft(filled, Reading(<<>>, fp, TRUE), t.groups))

serialize(t) == write_metadata(t) \o write_nopointer_data(t)

read_objects(meta) ==
  IF meta.ok THEN read_nopointer_data(meta.t, meta.rest) ELSE meta

\* Mutant: what is in the table is left to the reading of the groups.
unserialize_over(t, fp) == read_objects(read_metadata(t, fp))

unserialize(t, fp) == read_objects(read_metadata(clear(t), fp))

=============================================================================
