-------------------------- MODULE SparseTableClient --------------------------
(***************************************************************************)
(* A program that uses sparsetable objects: each action is one call of the *)
(* class's interface, whose work module SparseTable does.  The guards are  *)
(* what the class asserts: a location is less than the table's size.       *)
(***************************************************************************)
EXTENDS SparseElements

CONSTANTS
  Obj,   \* the tables of the program
  Sizes  \* the sizes it asks for

\* Values are numbers so that they can be compared.
ASSUME ClientAssumption ==
  /\ Val \subseteq Nat
  /\ Sizes \subseteq Nat /\ 0 \in Sizes

VARIABLE tab  \* tab[o] is the table of object o

Init == tab = [o \in Obj |-> new_sparsetable(0)]

Becomes(o, t) == tab' = [tab EXCEPT ![o] = t]

\* set, and an assignment through table[i] or an iterator.
Set(o, i, v) == i \in Locations(tab[o]) /\ Becomes(o, set(tab[o], i, v))

\* &table[i] fills the element, for the pointer to point to.
Touch(o, i) == i \in Locations(tab[o]) /\ Becomes(o, mutating_get(tab[o], i))

Erase(o, i) == i \in Locations(tab[o]) /\ Becomes(o, erase(tab[o], i))

EraseRange(o, first, last) ==
  /\ first < last /\ last <= tab[o].table_size
  /\ Becomes(o, erase_range(tab[o], first, last))

Resize(o, n) == Becomes(o, resize(tab[o], n))

Clear(o) == Becomes(o, clear(tab[o]))

Construct(o, n) == Becomes(o, new_sparsetable(n))

Swap(o, p) == tab' = [tab EXCEPT ![o] = tab[p], ![p] = tab[o]]

\* The copy constructor and operator=.
Copy(o, p) == Becomes(o, copy(tab[p]))

Next ==
  \E o \in Obj :
    \/ \E i \in Locations(tab[o]), v \in Val : Set(o, i, v)
    \/ \E i \in Locations(tab[o]) : Touch(o, i)
    \/ \E i \in Locations(tab[o]) : Erase(o, i)
    \/ \E i \in Locations(tab[o]), j \in 1 .. tab[o].table_size : EraseRange(o, i, j)
    \/ \E n \in Sizes : Resize(o, n)
    \/ Clear(o)
    \/ \E n \in Sizes : Construct(o, n)
    \/ \E p \in Obj : Swap(o, p)
    \/ \E p \in Obj : Copy(o, p)

Spec == Init /\ [][Next]_tab

-----------------------------------------------------------------------------
(* Invariants.                                                             *)

SetPositions(g) == {i \in Positions : bmtest(g.bitmap, i)}

\* The three places that say how much is assigned agree: the bitmap and the
\* array of each group, its count, and the table's count, which is kept by
\* differences ("num_buckets += which_group(i).num_nonempty() - old_numbuckets")
\* and refigured by a shrinking resize only.  No bit is set behind the end of
\* the table, where a later growth would bring the element back.
CountsAgree ==
  \A o \in Obj :
    LET t == tab[o]
    IN  /\ Len(t.groups) = num_groups(t.table_size)
        /\ \A g \in DOMAIN t.groups :
             /\ t.groups[g].num_buckets = Len(t.groups[g].group)
             /\ t.groups[g].num_buckets =
                  Cardinality({x \in Chars \X Bits : x[2] \in t.groups[g].bitmap[x[1]]})
             /\ \A i \in SetPositions(t.groups[g]) : (g - 1) * GROUP_SIZE + i < t.table_size
        /\ t.num_buckets = Cardinality({i \in Locations(t) : test(t, i)})

\* The counting char by char and the bit-twiddling compute what they stand for:
\* the offset of a position is the number of set bits before it (of a position
\* at a char's boundary too, the "pos > 8" in the loop), and offset_to_pos is
\* its inverse on the positions that are set.
OffsetsAreRanks ==
  \A o \in Obj : \A g \in Range(tab[o].groups) :
    /\ \A i \in Positions :
         pos_to_offset(g.bitmap, i) = Cardinality({j \in SetPositions(g) : j < i})
    /\ \A i \in SetPositions(g) : offset_to_pos(g.bitmap, pos_to_offset(g.bitmap, i)) = i

\* A walk with the iterators over assigned elements meets the assigned
\* locations, each once, in order, over groups that are empty and over the end;
\* it ends at nonempty_end; backwards it is the same walk; an iterator and its
\* location determine each other (get_iter, get_pos).
WalkVisitsAssigned ==
  \A o \in Obj :
    LET t     == tab[o]
        n     == Cardinality({i \in Locations(t) : test(t, i)})
        walk[k \in 0 .. n] == IF k = 0 THEN nonempty_begin(t) ELSE increment(t, walk[k - 1])
        loc(k) == get_pos(t, walk[k])
    IN  /\ walk[n] = nonempty_end(t)
        /\ \A k \in 0 .. n - 1 :
             /\ walk[k] # nonempty_end(t)
             /\ test(t, loc(k)) /\ dereference(t, walk[k]) = get(t, loc(k))
             /\ get_iter(t, loc(k)) = walk[k]
             /\ decrement(t, walk[k + 1]) = walk[k]
             /\ k > 0 => loc(k - 1) < loc(k)

\* operator== tells any two arrays apart that differ in size, in what is
\* assigned or in a value, and no other, whatever their histories; equal tables
\* are not less, of two unequal reads one is less, and not both.
ComparisonsAgree ==
  \A o, p \in Obj :
    LET t == tab[o]
        u == tab[p]
        reads(x) == [i \in Locations(x) |-> get(x, i)]
        tests(x) == [i \in Locations(x) |-> test(x, i)]
    IN  /\ equal(t, u) <=> reads(t) = reads(u) /\ tests(t) = tests(u)
        /\ less(t, u) \/ less(u, t) <=> reads(t) # reads(u)
        /\ ~(less(t, u) /\ less(u, t))

-----------------------------------------------------------------------------
(* Refinement.                                                             *)

Array == INSTANCE SparseArray
           WITH arr <- [o \in Obj |-> Elements(tab[o])], DefaultVal <- default_value

\* Every call does to the arrays what the abstract call does: nothing shifts,
\* nothing is left over, nothing comes back after shrinking and growing.
ImplementsArray == Array!Spec

=============================================================================
