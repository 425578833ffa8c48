------------------------------- MODULE Streams -------------------------------
(***************************************************************************)
(* Reading and writing, as in internal/hashtable-common.h.  A stream is a  *)
(* sequence of tokens: a byte of a number, a char of a bitmap, an object   *)
(* as pod_serializer writes it, a magic number.  It can end between any    *)
(* two of them; an OUTPUT that runs out of room writes a first part.       *)
(*                                                                         *)
(* A byte has BYTE values and the integers of 2, 4 and 8 bytes have SHORT, *)
(* INT and LONG of them, so that small numbers reach the boundaries.       *)
(***************************************************************************)
EXTENDS Integers, Sequences, SequencesExt

CONSTANTS
  BYTE,   \* 256
  SHORT,  \* 2
  INT,    \* 4
  LONG    \* 8

ASSUME WidthsAssumption ==
  BYTE \in Nat \ {0, 1} /\ SHORT \in Nat \ {0} /\ INT \in Nat \ {0} /\ LONG \in Nat \ {0}

Byte(b)   == <<"byte", b>>
Char(c)   == <<"char", c>>
Object(x) == <<"object", x>>
Magic(m)  == <<"magic", m>>

(* A reading is what it makes of its target, the rest of the stream, and   *)
(* whether all that was to be read was there.                              *)
Reading(t, rest, ok) == [t |-> t, rest |-> rest, ok |-> ok]

\* The first n tokens, or as many as there are, and those after them.
read_data(fp, n)  == SubSeq(fp, 1, IF n <= Len(fp) THEN n ELSE Len(fp))
after_data(fp, n) == SubSeq(fp, n + 1, Len(fp))

write_bigendian_number(value, length) ==
  [i \in 1 .. length |-> Byte((value \div BYTE ^ (length - i)) % BYTE)]

\* A number of which some bytes are missing is the one with zeros for them.
read_bigendian_number(fp, length) ==
  LET got == read_data(fp, length)
  IN  Reading(FoldLeft(LAMBDA sum, i : sum + got[i][2] * BYTE ^ (length - i),
                       0, [i \in DOMAIN got |-> i]),
              after_data(fp, length), Len(got) = length)

(***************************************************************************)
(* sparsetable's numbers: an INT, or the largest INT and then a LONG.      *)
(***************************************************************************)
ESCAPE == BYTE ^ INT - 1  \* 0xFFFFFFFF

write_32_or_64(value) ==
  IF value < ESCAPE
  THEN write_bigendian_number(value, INT)
  ELSE write_bigendian_number(ESCAPE, INT) \o write_bigendian_number(value, LONG)

\* The value is assigned when the INT is there, or as far as the LONG is.
read_32_or_64(fp, value) ==
  LET first == read_bigendian_number(fp, INT)
  IN  IF ~first.ok THEN [first EXCEPT !.t = value]
      ELSE IF first.t < ESCAPE THEN first
      ELSE read_bigendian_number(first.rest, LONG)

=============================================================================
