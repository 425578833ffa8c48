---------------------------- MODULE GroupStorage ----------------------------
(***************************************************************************)
(* The memory of sparsegroup (file sparsehash/sparsetable): an array that  *)
(* is as long as the group has elements, made anew for every element that  *)
(* comes or goes.  Values that may be moved by their bytes are moved by    *)
(* realloc and memcpy, others by copying them to a new array.              *)
(*                                                                         *)
(* Only where objects live is modelled here; SparseTable has their values. *)
(***************************************************************************)
EXTENDS Storage

CONSTANTS Group, GROUP_SIZE

VARIABLES
  g,    \* the groups: the array, the bitmap and the count
  mem,  \* the memory they share
  cut   \* a load ended before all objects it announced were constructed

vars == <<g, mem, cut>>

Positions == 0 .. GROUP_SIZE - 1

\* pos_to_offset
offset(x, i) == Cardinality({j \in x.bitmap : j < i})

new_group == [group |-> NULL, bitmap |-> {}, num_buckets |-> 0]

Result(m, p) == [mem |-> m, group |-> p]

free_group(m, x) ==
  IF x.group = NULL THEN m
  ELSE deallocate(destroy(m, x.group, 0 .. x.num_buckets - 1), x.group)

realloc_and_memmove_ok(m) ==
  has_trivial_copy[m.type] /\ has_trivial_destructor[m.type] /\ uses_libc(m)

-----------------------------------------------------------------------------
(* Making room at an offset, and closing it up.                            *)

set_aux(m, x, o) ==
  LET n     == x.num_buckets
      p     == fresh(m)
      grown == realloc_or_die(m, x.group, n + 1)
      copies == construct(copied(allocate(m, n + 1), x.group, 0 .. n - 1),
                          p, (0 .. n) \ {o})
  IN  IF realloc_and_memmove_ok(m)
      THEN Result(memmoved(grown, p, o .. n - 1, 1), p)
      ELSE Result(free_group(IF x.group = NULL THEN allocate(m, n + 1) ELSE copies, x), p)

erase_aux(m, x, o) ==
  LET n      == x.num_buckets
      p      == fresh(m)
      closed == memmoved(destroy(m, x.group, {o}), x.group, o + 1 .. n - 1, -1)
      copies == construct(copied(allocate(m, n - 1), x.group, (0 .. n - 1) \ {o}),
                          p, 0 .. n - 2)
  IN  IF realloc_and_memmove_ok(m)
      THEN Result(realloc_or_die(closed, x.group, n - 1),
                  reallocated(closed, x.group, n - 1))
      ELSE Result(free_group(copies, x), p)

\* The value comes from outside of the group.
set(m, x, i) ==
  LET o == offset(x, i)
      r == set_aux(m, x, o)
  IN  IF i \in x.bitmap
      THEN [mem |-> construct(destroy(m, x.group, {o}), x.group, {o}), g |-> x]
      ELSE [mem |-> construct(r.mem, r.group, {o}),
            g   |-> [group |-> r.group, bitmap |-> x.bitmap \cup {i},
                     num_buckets |-> x.num_buckets + 1]]

erase(m, x, i) ==
  LET r == IF x.num_buckets = 1 THEN Result(free_group(m, x), NULL)
           ELSE erase_aux(m, x, offset(x, i))
  IN  IF i \notin x.bitmap THEN [mem |-> m, g |-> x]
      ELSE [mem |-> r.mem,
            g   |-> [group |-> r.group, bitmap |-> x.bitmap \ {i},
                     num_buckets |-> x.num_buckets - 1]]

\* Mutant: the array is shared.
copies_shallow(m, y) == Result(m, y.group)

\* An array of its own, with copies of another group's elements.
copies_of(m, y) ==
  IF y.num_buckets = 0 THEN Result(m, NULL)
  ELSE Result(construct(copied(allocate(m, y.num_buckets), y.group, 0 .. y.num_buckets - 1),
                        fresh(m), 0 .. y.num_buckets - 1),
              fresh(m))

-----------------------------------------------------------------------------
(* The calls.                                                              *)

Init == \E type \in Types, alloc \in {"libc", "other"} :
          /\ type.form \notin {"void", "reference"}
          /\ mem = new_memory(type, alloc)
          /\ g = [o \in Group |-> new_group]
          /\ cut = FALSE

Does(o, r) == g' = [g EXCEPT ![o] = r.g] /\ mem' = r.mem /\ UNCHANGED cut

Set(o, i)   == Does(o, set(mem, g[o], i))
Erase(o, i) == Does(o, erase(mem, g[o], i))

\* clear, and the destructor, after which a new group takes its place.
Clear(o) == Does(o, [mem |-> free_group(mem, g[o]), g |-> new_group])

\* operator=; with a new group for o, the copy constructor.
Assign(o, p) ==
  LET r == copies_of(mem, g[p])
  IN  /\ o # p
      /\ Does(o, [mem |-> free_group(r.mem, g[o]), g |-> [g[p] EXCEPT !.group = r.group]])

Swap(o, p) ==
  /\ o # p
  /\ g' = [g EXCEPT ![o] = g[p], ![p] = g[o]]
  /\ UNCHANGED <<mem, cut>>

\* read_metadata, and an object after the other constructed in its place,
\* until the end or up to the first that cannot be read.
Load(o, bitmap, n) ==
  LET size == Cardinality(bitmap)
      m    == allocate(free_group(mem, g[o]), size)
      p    == fresh(free_group(mem, g[o]))
  IN  /\ n <= size
      /\ mem' = construct(m, p, 0 .. n - 1)
      /\ g' = [g EXCEPT ![o] = [group |-> p, bitmap |-> bitmap, num_buckets |-> size]]
      /\ cut' = (cut \/ n < size)

Next == \E o \in Group :
          \/ Clear(o)
          \/ \E i \in Positions : Set(o, i) \/ Erase(o, i)
          \/ \E p \in Group : Assign(o, p) \/ Swap(o, p)
          \/ \E bitmap \in SUBSET Positions, n \in 0 .. GROUP_SIZE : Load(o, bitmap, n)

Spec == Init /\ [][Next]_vars

-----------------------------------------------------------------------------
(* Properties.                                                             *)

(***************************************************************************)
(* Every object is constructed once and destroyed once, none is moved by   *)
(* its bytes that may not be, no block is freed twice or with objects left *)
(* in it, and realloc is asked of no allocator that has none: whatever the *)
(* value type, and whatever its traits say of it (set_aux, erase_aux,      *)
(* free_group).  The one exception: a load that ends too early leaves raw  *)
(* slots that are counted as elements, and clear destroys what was never   *)
(* there.                                                                  *)
(***************************************************************************)
LifetimesRespected == mem.faults # {} => cut

(***************************************************************************)
(* The blocks in use are the groups' arrays, each of one group and as long *)
(* as the group has elements, and every element is there: nothing leaks    *)
(* and nothing dangles, after copies, exchanges and emptied groups.        *)
(***************************************************************************)
ArraysOwned ==
  LET owners == {o \in Group : g[o].group # NULL}
  IN  /\ DOMAIN mem.blocks = {g[o].group : o \in owners}
      /\ \A o, p \in owners : g[o].group = g[p].group => o = p
      /\ \A o \in Group : g[o].num_buckets = Cardinality(g[o].bitmap)
      /\ \A o \in Group : g[o].num_buckets # 0 => o \in owners
      /\ \A o \in owners : room(mem, g[o].group) = 0 .. g[o].num_buckets - 1
      /\ ~cut => \A o \in owners : live(mem, g[o].group) = 0 .. g[o].num_buckets - 1

=============================================================================
