------------------------------- MODULE Storage -------------------------------
(***************************************************************************)
(* Memory as the tables use it: blocks taken from an allocator, in which   *)
(* objects of the value type are constructed and destroyed one by one.     *)
(* The allocator is libc_allocator_with_realloc, or another one, which has *)
(* no realloc.                                                             *)
(*                                                                         *)
(* A memory m is a record: blocks gives, for each address in use, a        *)
(* sequence that says of each slot whether it is "live" (an object is      *)
(* there) or "raw".  faults are the rules of the language broken so far.   *)
(* Offsets in a block are counted from 0, as in the code.                  *)
(***************************************************************************)
EXTENDS TypeTraits, FiniteSets, FiniteSetsExt, TLC

CONSTANTS Address, NULL

ASSUME AddressAssumption == Address \subseteq Nat /\ NULL \notin Address

new_memory(type, alloc) ==
  [type |-> type, alloc |-> alloc, blocks |-> <<>>, faults |-> {}]

uses_libc(m) == m.alloc = "libc"
matters(m)   == ~TrulyTrivial[m.type]

blame(m, what, guilty) == IF guilty THEN [m EXCEPT !.faults = @ \cup {what}] ELSE m

fresh(m)      == Min(Address \ DOMAIN m.blocks)
room(m, p)    == IF p \in DOMAIN m.blocks THEN 0 .. Len(m.blocks[p]) - 1 ELSE {}
slot(m, p, i) == m.blocks[p][i + 1]
live(m, p)    == {i \in room(m, p) : slot(m, p, i) = "live"}

mark(m, p, S, what) ==
  IF S \subseteq room(m, p)
  THEN [m EXCEPT !.blocks[p] = [j \in DOMAIN @ |-> IF j - 1 \in S THEN what ELSE @[j]]]
  ELSE blame(m, "out of bounds", TRUE)

without(m, p) == [m EXCEPT !.blocks = [q \in DOMAIN @ \ {p} |-> @[q]]]
with(m, p, slots) == [m EXCEPT !.blocks = (p :> slots) @@ @]

-----------------------------------------------------------------------------
(* Objects.  For trivial types nothing is at stake.                        *)

destroy(m, p, S) ==
  blame(mark(m, p, S, "raw"), "destroyed twice", matters(m) /\ ~ (S \subseteq live(m, p)))

construct(m, p, S) ==
  blame(mark(m, p, S, "live"), "built over another", matters(m) /\ S \cap live(m, p) # {})

\* A copy constructor reads the slots S of block p.
copied(m, p, S) ==
  blame(m, "copied from nothing", matters(m) /\ ~ (S \subseteq live(m, p)))

\* memcpy from one slot to the next ones, for every slot of S.
memmoved(m, p, S, by) ==
  LET from(i) == IF i - by \in S THEN slot(m, p, i - by) ELSE slot(m, p, i)
  IN  blame([m EXCEPT !.blocks[p] = [j \in DOMAIN @ |-> from(j - 1)]],
            "moved by bytes", matters(m) /\ S # {})

-----------------------------------------------------------------------------
(* The allocator.  A call that gets memory gets the block fresh(m).        *)

allocate(m, n) == with(m, fresh(m), [j \in 1 .. n |-> "raw"])

deallocate(m, p) ==
  IF p \in DOMAIN m.blocks
  THEN blame(without(m, p), "freed alive", matters(m) /\ live(m, p) # {})
  ELSE blame(m, "freed twice", TRUE)

\* realloc moves the bytes that fit in; of 0 objects it makes none.
reallocate(m, p, n) ==
  LET keeps == {i \in live(m, p) : i < n}
      slots == [j \in 1 .. n |-> IF j - 1 \in keeps THEN "live" ELSE "raw"]
  IN  IF p = NULL THEN allocate(m, n)
      ELSE blame(IF n = 0 THEN without(m, p) ELSE with(without(m, p), fresh(m), slots),
                 "moved by bytes", matters(m) /\ live(m, p) # {})

reallocated(m, p, n) == IF p # NULL /\ n = 0 THEN NULL ELSE fresh(m)

\* Other allocators end the program here, and so does a block of no size.
realloc_or_die(m, p, n) ==
  blame(reallocate(m, p, n), "exit", ~uses_libc(m) \/ reallocated(m, p, n) = NULL)

=============================================================================
