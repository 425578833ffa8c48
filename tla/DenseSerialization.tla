-------------------------- MODULE DenseSerialization --------------------------
(***************************************************************************)
(* serialize and unserialize of internal/densehashtable.h: the number of   *)
(* buckets and of elements, then for every CHAR_BIT buckets a char of      *)
(* bitmap and the objects of those that are not empty.                     *)
(***************************************************************************)
EXTENDS DenseHashtable, Streams

CONSTANT CHAR_BIT  \* buckets to a char, 8

MAGIC_NUMBER == Magic("dense_hashtable")  \* 0x13578642, in four bytes

\* The buckets first .. first + CHAR_BIT - 1 of a table.
write_buckets(t, first) ==
  LET bits == {b \in 0 .. CHAR_BIT - 1 : first + b < t.num_buckets /\ ~test_empty(t, first + b)}
      objs == SetToSortSeq(bits, <)
  IN  <<Char(bits)>> \o [i \in DOMAIN objs |-> Object(t.table[first + objs[i]])]

write_table(t) ==
  <<MAGIC_NUMBER>> \o write_bigendian_number(t.num_buckets, LONG)
    \o write_bigendian_number(t.num_elements, LONG)
    \o FlattenSeq([c \in 1 .. (t.num_buckets + CHAR_BIT - 1) \div CHAR_BIT |->
                     write_buckets(t, CHAR_BIT * (c - 1))])

\* What is written; the table is left without deleted buckets.
\* Mutant: with them.
serialize_with_deleted(t) == write_table(t)

serialize(t) == write_table(squash_deleted(t))

\* Bucket i, and before the first of CHAR_BIT buckets the char for them.
\* Mutant: the end of the stream is not noticed at an object.
read_bucket_regardless(r, i) ==
  LET starts == i % CHAR_BIT = 0
      bits   == IF starts THEN Head(r.rest)[2] ELSE r.bits
      rest   == IF starts THEN Tail(r.rest) ELSE r.rest
  IN  IF ~r.ok THEN r
      ELSE IF starts /\ r.rest = <<>> THEN [r EXCEPT !.ok = FALSE]
      ELSE IF i % CHAR_BIT \notin bits \/ rest = <<>>
      THEN [r EXCEPT !.bits = bits, !.rest = rest]
      ELSE [r EXCEPT !.bits = bits, !.rest = Tail(rest), !.t.table[i] = Head(rest)[2]]

read_bucket(r, i) ==
  LET starts == i % CHAR_BIT = 0
      bits   == IF starts THEN Head(r.rest)[2] ELSE r.bits
      rest   == IF starts THEN Tail(r.rest) ELSE r.rest
  IN  IF ~r.ok THEN r
      ELSE IF starts /\ r.rest = <<>> THEN [r EXCEPT !.ok = FALSE]
      ELSE IF i % CHAR_BIT \notin bits THEN [r EXCEPT !.bits = bits, !.rest = rest]
      ELSE IF rest = <<>> THEN [r EXCEPT !.ok = FALSE]
      ELSE [r EXCEPT !.bits = bits, !.rest = Tail(rest), !.t.table[i] = Head(rest)[2]]

read_buckets(t, fp) ==
  LET r == FoldLeft(read_bucket, [t |-> t, rest |-> fp, ok |-> TRUE, bits |-> {}],
                    [i \in 1 .. t.num_buckets |-> i - 1])
  IN  Reading(r.t, r.rest, r.ok)

\* num_elements is what the stream says before any of the objects is there.
unserialize(t, fp) ==
  LET u        == clear(t)
      buckets  == read_bigendian_number(Tail(fp), LONG)
      elements == read_bigendian_number(buckets.rest, LONG)
      sized    == [clear_to_size(u, buckets.t) EXCEPT !.num_elements = elements.t]
  IN  IF fp = <<>> THEN Reading(u, fp, FALSE)
      ELSE IF Head(fp) # MAGIC_NUMBER THEN Reading(u, Tail(fp), FALSE)
      ELSE IF ~buckets.ok THEN Reading(u, <<>>, FALSE)
      ELSE IF ~elements.ok THEN Reading(sized, <<>>, FALSE)
      ELSE read_buckets(sized, elements.rest)

=============================================================================
