----------------------- MODULE SparseTableClientProofs -----------------------
(***************************************************************************)
(* What holds of every sparsetable of a program after any calls: it is the *)
(* array of what is in it, its counts and offsets are right, and so are    *)
(* comparisons and walks.                                                  *)
(***************************************************************************)
EXTENDS SparseTableClient, SparseTableProofs

-----------------------------------------------------------------------------
(* The program.                                                            *)

\* The inductive invariant.
AllSound ==
  /\ tab = [o \in Obj |-> tab[o]]
  /\ \A o \in Obj : TableSound(tab[o])

\* What the tables say.
arrays == [o \in Obj |-> Elements(tab[o])]

\* A call replaces one table by another.
LEMMA BecomesSound ==
  ASSUME AllSound, NEW o \in Obj, NEW u, TableSound(u), Becomes(o, u)
  PROVE  AllSound' /\ arrays' = [arrays EXCEPT ![o] = Elements(u)]
<1>1. tab' = [tab EXCEPT ![o] = u]
  BY DEF Becomes
<1>2. tab' = [p \in Obj |-> IF p = o THEN u ELSE tab[p]]
  BY <1>1 DEF AllSound
<1>3. AllSound'
  BY <1>2 DEF AllSound
<1>4. arrays' = [p \in Obj |-> Elements(tab'[p])]
  BY DEF arrays
<1>5. \A p \in Obj : Elements(tab'[p]) = IF p = o THEN Elements(u) ELSE Elements(tab[p])
  BY <1>2
<1>. QED
  BY <1>3, <1>4, <1>5 DEF arrays

\* The first tables are sound.
LEMMA InitSound == Init => AllSound
<1>1. TableSound(new_sparsetable(0))
  BY NewSound
<1>. QED
  BY <1>1 DEF Init, AllSound

\* What each call does to the tables and to the arrays.
LEMMA SetDoes ==
  ASSUME AllSound, NEW o \in Obj, NEW i, NEW v \in Val, Set(o, i, v)
  PROVE  AllSound' /\ i \in DOMAIN arrays[o] /\ Array!Set(o, i, v)
<1>1. i \in Locations(tab[o]) /\ Becomes(o, set(tab[o], i, v)) /\ TableSound(tab[o])
  BY DEF Set, AllSound
<1>2. /\ TableSound(set(tab[o], i, v))
      /\ Elements(set(tab[o], i, v)) = [Elements(tab[o]) EXCEPT ![i] = v]
  BY <1>1, SetSound
<1>3. /\ AllSound'
      /\ arrays' = [arrays EXCEPT ![o] = [Elements(tab[o]) EXCEPT ![i] = v]]
  BY <1>1, <1>2, BecomesSound
<1>4. arrays[o] = Elements(tab[o]) /\ DOMAIN Elements(tab[o]) = Locations(tab[o])
  BY DEF arrays, Elements
<1>5. arrays' = [arrays EXCEPT ![o][i] = v]
  BY <1>3, <1>4
<1>. QED
  BY <1>1, <1>3, <1>4, <1>5 DEF Array!Set, arrays

\* A reference to an element (mutating_get): an unassigned one becomes assigned.
LEMMA TouchDoes ==
  ASSUME AllSound, NEW o \in Obj, NEW i, Touch(o, i)
  PROVE  AllSound' /\ i \in DOMAIN arrays[o] /\ Array!Touch(o, i)
<1>1. i \in Locations(tab[o]) /\ Becomes(o, mutating_get(tab[o], i)) /\ TableSound(tab[o])
  BY DEF Touch, AllSound
<1>. DEFINE x(e) == IF e = UNASSIGNED THEN default_value ELSE e
<1>2. /\ TableSound(mutating_get(tab[o], i))
      /\ Elements(mutating_get(tab[o], i)) =
           [Elements(tab[o]) EXCEPT ![i] = x(Elements(tab[o])[i])]
  BY <1>1, TouchSound
<1>. HIDE DEF x
<1>3. /\ AllSound'
      /\ arrays' = [arrays EXCEPT ![o] = [Elements(tab[o]) EXCEPT ![i] = x(Elements(tab[o])[i])]]
  BY <1>1, <1>2, BecomesSound
<1>4. arrays[o] = Elements(tab[o]) /\ DOMAIN Elements(tab[o]) = Locations(tab[o])
  BY DEF arrays, Elements
<1>5. arrays' = [arrays EXCEPT ![o][i] = x(@)]
  BY <1>3, <1>4
<1>. QED
  BY <1>1, <1>3, <1>4, <1>5 DEF Array!Touch, arrays, x

\* erase of a location is erase of a range of one.
LEMMA EraseDoes ==
  ASSUME AllSound, NEW o \in Obj, NEW i, Erase(o, i)
  PROVE  /\ AllSound' /\ i \in DOMAIN arrays[o] /\ Array!Erase(o, i, i + 1)
         /\ i + 1 <= tab[o].table_size
<1>1. i \in Locations(tab[o]) /\ Becomes(o, erase(tab[o], i)) /\ TableSound(tab[o])
  BY DEF Erase, AllSound
<1>2. /\ TableSound(erase(tab[o], i))
      /\ Elements(erase(tab[o], i)) = [Elements(tab[o]) EXCEPT ![i] = UNASSIGNED]
  BY <1>1, EraseSound
<1>3. /\ AllSound'
      /\ arrays' = [arrays EXCEPT ![o] = [Elements(tab[o]) EXCEPT ![i] = UNASSIGNED]]
  BY <1>1, <1>2, BecomesSound
<1>4. /\ arrays[o] = Elements(tab[o]) /\ DOMAIN Elements(tab[o]) = Locations(tab[o])
      /\ Elements(tab[o]) = [j \in Locations(tab[o]) |-> Elements(tab[o])[j]]
  BY DEF arrays, Elements
<1>5. Locations(tab[o]) = 0 .. tab[o].table_size - 1 /\ tab[o].table_size \in Nat
  BY <1>1 DEF TableSound, ShapeSound, Locations
<1>6. \A j \in Locations(tab[o]) : j = i <=> i <= j /\ j < i + 1
  BY <1>1, <1>5
<1>7. [Elements(tab[o]) EXCEPT ![i] = UNASSIGNED] =
        [j \in DOMAIN arrays[o] |-> IF i <= j /\ j < i + 1 THEN UNASSIGNED ELSE arrays[o][j]]
  BY <1>1, <1>4, <1>6
<1>8. arrays' = [arrays EXCEPT ![o] = [j \in DOMAIN @ |-> IF i <= j /\ j < i + 1
                                                          THEN UNASSIGNED ELSE @[j]]]
  BY <1>3, <1>7
<1>. QED
  BY <1>1, <1>3, <1>4, <1>5, <1>8 DEF Array!Erase, arrays

\* erase of a range of locations.
LEMMA EraseRangeDoes ==
  ASSUME AllSound, NEW o \in Obj, NEW i \in Locations(tab[o]),
         NEW j \in 1 .. tab[o].table_size, EraseRange(o, i, j)
  PROVE  /\ AllSound' /\ i \in DOMAIN arrays[o] /\ Array!Erase(o, i, j)
         /\ i < j /\ j <= tab[o].table_size
<1>1. /\ i < j /\ j <= tab[o].table_size /\ tab[o].table_size \in Nat
      /\ Becomes(o, erase_range(tab[o], i, j)) /\ TableSound(tab[o])
      /\ i \in Nat /\ j \in Nat
  BY DEF EraseRange, AllSound, TableSound, ShapeSound, Locations
<1>2. /\ TableSound(erase_range(tab[o], i, j))
      /\ Elements(erase_range(tab[o], i, j)) =
           [l \in Locations(tab[o]) |-> IF i <= l /\ l < j THEN UNASSIGNED
                                                           ELSE Elements(tab[o])[l]]
  BY <1>1, EraseRangeSound
<1>3. /\ AllSound'
      /\ arrays' = [arrays EXCEPT ![o] =
                      [l \in Locations(tab[o]) |-> IF i <= l /\ l < j THEN UNASSIGNED
                                                                      ELSE Elements(tab[o])[l]]]
  BY <1>1, <1>2, BecomesSound
<1>4. arrays[o] = Elements(tab[o]) /\ DOMAIN arrays[o] = Locations(tab[o])
  BY DEF arrays, Elements
<1>5. arrays' = [arrays EXCEPT ![o] = [l \in DOMAIN @ |-> IF i <= l /\ l < j
                                                          THEN UNASSIGNED ELSE @[l]]]
  BY <1>3, <1>4
<1>. QED
  BY <1>1, <1>3, <1>4, <1>5 DEF Array!Erase, arrays

\* resize, which may cut a group off in the middle.
LEMMA ResizeDoes ==
  ASSUME AllSound, NEW o \in Obj, NEW n \in Sizes, Resize(o, n)
  PROVE  AllSound' /\ Array!Resize(o, n)
<1>1. n \in Nat /\ Becomes(o, resize(tab[o], n)) /\ TableSound(tab[o])
  BY ClientAssumption DEF Resize, AllSound
<1>2. /\ TableSound(resize(tab[o], n))
      /\ Elements(resize(tab[o], n)) = [i \in 0 .. n - 1 |->
           IF i \in Locations(tab[o]) THEN Elements(tab[o])[i] ELSE UNASSIGNED]
  BY <1>1, ResizeSound
<1>3. /\ AllSound'
      /\ arrays' = [arrays EXCEPT ![o] = [i \in 0 .. n - 1 |->
           IF i \in Locations(tab[o]) THEN Elements(tab[o])[i] ELSE UNASSIGNED]]
  BY <1>1, <1>2, BecomesSound
<1>4. arrays[o] = Elements(tab[o]) /\ DOMAIN arrays[o] = Locations(tab[o])
  BY DEF arrays, Elements
<1>5. arrays' = [arrays EXCEPT ![o] = [i \in 0 .. n - 1 |-> IF i \in DOMAIN @ THEN @[i]
                                                                              ELSE UNASSIGNED]]
  BY <1>3, <1>4
<1>. QED
  BY <1>3, <1>5 DEF Array!Resize, arrays

\* Construction anew.
LEMMA ConstructDoes ==
  ASSUME AllSound, NEW o \in Obj, NEW n \in Sizes, Construct(o, n)
  PROVE  AllSound' /\ Array!Construct(o, n)
<1>1. n \in Nat /\ Becomes(o, new_sparsetable(n))
  BY ClientAssumption DEF Construct
<1>2. /\ TableSound(new_sparsetable(n))
      /\ Elements(new_sparsetable(n)) = [i \in 0 .. n - 1 |-> UNASSIGNED]
  BY <1>1, NewSound
<1>. QED
  BY <1>1, <1>2, BecomesSound DEF Array!Construct, Array!Unassigned, arrays

\* clear keeps the size.
LEMMA ClearDoes ==
  ASSUME AllSound, NEW o \in Obj, Clear(o)
  PROVE  AllSound' /\ Array!Construct(o, Cardinality(DOMAIN arrays[o]))
<1>1. Becomes(o, clear(tab[o])) /\ TableSound(tab[o]) /\ tab[o].table_size \in Nat
  BY DEF Clear, AllSound, TableSound, ShapeSound
<1>2. /\ TableSound(clear(tab[o]))
      /\ Elements(clear(tab[o])) = [i \in Locations(tab[o]) |-> UNASSIGNED]
  BY <1>1, ClearSound
<1>3. /\ DOMAIN arrays[o] = 0 .. tab[o].table_size - 1
      /\ Locations(tab[o]) = 0 .. tab[o].table_size - 1
  BY DEF arrays, Elements, Locations
<1>4. Cardinality(0 .. tab[o].table_size - 1) = tab[o].table_size
  BY <1>1, FS_Interval
<1>. QED
  BY <1>1, <1>2, <1>3, <1>4, BecomesSound DEF Array!Construct, Array!Unassigned, arrays

\* Assignment, and construction of a copy.
LEMMA CopyDoes ==
  ASSUME AllSound, NEW o \in Obj, NEW p \in Obj, Copy(o, p)
  PROVE  AllSound' /\ Array!Copy(o, p)
<1>1. Becomes(o, tab[p]) /\ TableSound(tab[p])
  BY CopyIsEqual DEF Copy, AllSound
<1>2. AllSound' /\ arrays' = [arrays EXCEPT ![o] = Elements(tab[p])]
  BY <1>1, BecomesSound
<1>. QED
  BY <1>2 DEF Array!Copy, arrays

\* swap of two tables.
LEMMA SwapDoes ==
  ASSUME AllSound, NEW o \in Obj, NEW p \in Obj, Swap(o, p)
  PROVE  AllSound' /\ Array!Swap(o, p)
<1>1. tab' = [x \in Obj |-> IF x = p THEN tab[o] ELSE IF x = o THEN tab[p] ELSE tab[x]]
  BY DEF Swap, AllSound
<1>2. AllSound'
  BY <1>1 DEF AllSound
<1>3. \A x \in Obj : Elements(tab'[x]) = IF x = p THEN Elements(tab[o])
                                         ELSE IF x = o THEN Elements(tab[p]) ELSE Elements(tab[x])
  BY <1>1
<1>4. arrays' = [x \in Obj |-> Elements(tab'[x])]
  BY DEF arrays
<1>5. arrays' = [arrays EXCEPT ![o] = arrays[p], ![p] = arrays[o]]
  BY <1>3, <1>4 DEF arrays
<1>. QED
  BY <1>2, <1>5 DEF Array!Swap, arrays

\* The greatest number of an interval.
LEMMA MaxOfInterval ==
  ASSUME NEW n \in Nat, NEW i \in 0 .. n - 1
  PROVE  Max({i} \cup 0 .. n - 1) = n - 1
<1>1. {i} \cup 0 .. n - 1 = 0 .. n - 1 /\ n - 1 \in 0 .. n - 1
  OBVIOUS
<1>2. \A x \in 0 .. n - 1 : (\A y \in 0 .. n - 1 : x >= y) => x = n - 1
  BY <1>1
<1>3. Max(0 .. n - 1) = n - 1
  BY <1>1, <1>2 DEF Max
<1>. QED
  BY <1>1, <1>3

\* Every step keeps the tables sound, and is a step of the arrays.
LEMMA NextDoes ==
  ASSUME AllSound, Next
  PROVE  AllSound' /\ Array!Next
<1>1. ASSUME NEW o \in Obj, NEW i \in Locations(tab[o]), NEW v \in Val, Set(o, i, v)
      PROVE  AllSound' /\ Array!Next
  BY <1>1, SetDoes DEF Array!Next, arrays
<1>2. ASSUME NEW o \in Obj, NEW i \in Locations(tab[o]), Touch(o, i)
      PROVE  AllSound' /\ Array!Next
  BY <1>2, TouchDoes DEF Array!Next, arrays
<1>3. ASSUME NEW o \in Obj, NEW i \in DOMAIN arrays[o], NEW j \in Nat, i < j,
             j <= tab[o].table_size, Array!Erase(o, i, j)
      PROVE  Array!Next
  <2>1. DOMAIN arrays[o] = 0 .. tab[o].table_size - 1 /\ tab[o].table_size \in Nat
    BY DEF arrays, Elements, Locations, AllSound, TableSound, ShapeSound
  <2>2. Max({i} \cup DOMAIN arrays[o]) = tab[o].table_size - 1
    BY <2>1, MaxOfInterval
  <2>3. j \in i + 1 .. Max({i} \cup DOMAIN arrays[o]) + 1
    BY <1>3, <2>1, <2>2
  <2>4. Array!Max({i} \cup DOMAIN arrays[o]) = Max({i} \cup DOMAIN arrays[o])
    BY DEF Array!Max, Max
  <2>. QED
    BY <1>3, <2>3, <2>4 DEF Array!Next, arrays
<1>4. ASSUME NEW o \in Obj, NEW i \in Locations(tab[o]), Erase(o, i)
      PROVE  AllSound' /\ Array!Next
  <2>1. /\ AllSound' /\ i \in DOMAIN arrays[o] /\ Array!Erase(o, i, i + 1)
        /\ i + 1 <= tab[o].table_size
    BY <1>4, EraseDoes
  <2>2. i + 1 \in Nat /\ i < i + 1
    BY DEF Locations
  <2>. QED
    BY <1>3, <2>1, <2>2
<1>5. ASSUME NEW o \in Obj, NEW i \in Locations(tab[o]), NEW j \in 1 .. tab[o].table_size,
             EraseRange(o, i, j)
      PROVE  AllSound' /\ Array!Next
  <2>1. /\ AllSound' /\ i \in DOMAIN arrays[o] /\ Array!Erase(o, i, j)
        /\ i < j /\ j <= tab[o].table_size
    BY <1>5, EraseRangeDoes
  <2>2. j \in Nat
    OBVIOUS
  <2>. QED
    BY <1>3, <2>1, <2>2
<1>6. ASSUME NEW o \in Obj, NEW n \in Sizes, Resize(o, n) \/ Construct(o, n)
      PROVE  AllSound' /\ Array!Next
  BY <1>6, ResizeDoes, ConstructDoes DEF Array!Next
<1>7. ASSUME NEW o \in Obj, Clear(o) PROVE AllSound' /\ Array!Next
  <2>1. AllSound' /\ Array!Construct(o, Cardinality(DOMAIN arrays[o]))
    BY <1>7, ClearDoes
  <2>2. Array!Cardinality(DOMAIN arrays[o]) = Cardinality(DOMAIN arrays[o])
    BY DEF Array!Cardinality, Cardinality
  <2>3. Array!Construct(o, Array!Cardinality(DOMAIN arrays[o]))
    BY <2>1, <2>2
  <2>. QED
    BY <2>1, <2>3 DEF Array!Next, arrays
<1>8. ASSUME NEW o \in Obj, NEW p \in Obj, Swap(o, p) \/ Copy(o, p)
      PROVE  AllSound' /\ Array!Next
  BY <1>8, SwapDoes, CopyDoes DEF Array!Next
<1>. QED
  BY <1>1, <1>2, <1>4, <1>5, <1>6, <1>7, <1>8 DEF Next

\* Every step keeps the tables sound, and is a step of the arrays.
LEMMA StepSound ==
  ASSUME AllSound, [Next]_tab
  PROVE  AllSound' /\ [Array!Next]_arrays
<1>1. CASE UNCHANGED tab
  BY <1>1 DEF AllSound, arrays
<1>2. CASE Next
  BY <1>2, NextDoes
<1>. QED
  BY <1>1, <1>2

\* A sparsetable is an array: whatever the size of a group and of a char, every
\* call touches the elements it names and no other, through packing, unpacking,
\* cutting the last group and growing again.
THEOREM SparseTableIsAnArray == Spec => ImplementsArray
<1>1. Init => Array!Init
  <2>1. Elements(new_sparsetable(0)) = [i \in 0 .. 0 - 1 |-> UNASSIGNED]
    BY NewSound
  <2>. QED
    BY <2>1 DEF Init, Array!Init, Array!Unassigned
<1>2. AllSound /\ [Next]_tab => AllSound' /\ [Array!Next]_arrays
  BY StepSound
<1>. QED
  BY <1>1, <1>2, InitSound, PTL DEF Spec, ImplementsArray, Array!Spec, arrays

-----------------------------------------------------------------------------
(* What the runs check of a table in every state.                          *)

\* The tables of a program are sound all the time.
THEOREM TablesStaySound == Spec => []AllSound
<1>1. AllSound /\ [Next]_tab => AllSound'
  BY StepSound
<1>. QED
  BY <1>1, InitSound, PTL DEF Spec

\* The groups of a sound table, by number and by value.
LEMMA SoundGroup ==
  ASSUME NEW t, TableSound(t), NEW n \in DOMAIN t.groups
  PROVE  /\ GroupSound(t.groups[n]) /\ n \in Nat \ {0}
         /\ n \in 1 .. num_groups(t.table_size)
         /\ \A p \in Positions :
              bmtest(t.groups[n].bitmap, p) => GROUP_SIZE * (n - 1) + p < t.table_size
<1>1. n \in 1 .. num_groups(t.table_size) /\ t.groups[n] \in Groups /\ t.table_size \in Nat
  BY DEF TableSound, ShapeSound
<1>2. num_groups(t.table_size) \in Nat
  BY <1>1, NumGroups
<1>. QED
  BY <1>1, <1>2, SoundGroups DEF TableSound, ShapeSound

\* Offsets are ranks in every state, whatever GROUP_SIZE and CHAR_BIT are, and
\* offset_to_pos leads back: the counting loops of pos_to_offset and
\* offset_to_pos neither miss a bit nor count one twice.
THEOREM OffsetsAreAlwaysRanks == Spec => []OffsetsAreRanks
<1>1. ASSUME AllSound, NEW o \in Obj, NEW g \in Range(tab[o].groups)
      PROVE  /\ \A i \in Positions :
                  pos_to_offset(g.bitmap, i) = Cardinality({j \in SetPositions(g) : j < i})
             /\ \A i \in SetPositions(g) :
                  offset_to_pos(g.bitmap, pos_to_offset(g.bitmap, i)) = i
  <2>1. PICK n \in DOMAIN tab[o].groups : g = tab[o].groups[n]
    BY DEF Range
  <2>2. TableSound(tab[o])
    BY <1>1 DEF AllSound
  <2>3. g.bitmap \in Bitmaps
    BY <2>1, <2>2, SoundGroup DEF GroupSound
  <2>4. ASSUME NEW i \in Positions
        PROVE  pos_to_offset(g.bitmap, i) = Cardinality({j \in SetPositions(g) : j < i})
    <3>1. Before(g.bitmap, i) = {j \in SetPositions(g) : j < i}
      <4>1. Positions = 0 .. GROUP_SIZE - 1 /\ GROUP_SIZE \in Nat /\ i \in Nat
        BY CharsAre DEF Positions
      <4>2. \A j : j \in 0 .. i - 1 <=> j \in Positions /\ j < i
        BY <4>1
      <4>. QED
        BY <4>2 DEF Before, SetPositions
    <3>. QED
      BY <2>3, <3>1, OffsetIsRank DEF Rank
  <2>5. ASSUME NEW i \in SetPositions(g)
        PROVE  offset_to_pos(g.bitmap, pos_to_offset(g.bitmap, i)) = i
    <3>1. i \in Positions /\ bmtest(g.bitmap, i)
      BY DEF SetPositions
    <3>. QED
      BY <2>3, <3>1, OffsetIsRank, OffsetRoundTrip
  <2>. QED
    BY <2>4, <2>5
<1>2. AllSound => OffsetsAreRanks
  BY <1>1 DEF OffsetsAreRanks
<1>. QED
  BY <1>2, TablesStaySound, PTL

\* The bits of a bitmap are as many as its set positions.
LEMMA BitsCounted ==
  ASSUME NEW bm \in Bitmaps, NoStrayBit(bm)
  PROVE  Rank(bm, GROUP_SIZE) = Cardinality({x \in Chars \X Bits : x[2] \in bm[x[1]]})
<1>. DEFINE A == Before(bm, GROUP_SIZE)
            B == {x \in Chars \X Bits : x[2] \in bm[x[1]]}
            f == [p \in A |-> <<charbit(p), modbit(p)>>]
<1>1. GROUP_SIZE \in Nat /\ Positions = 0 .. GROUP_SIZE - 1 /\ CHAR_BIT \in Nat \ {0}
  BY CharsAre DEF Positions
<1>2. IsFiniteSet(A)
  BY <1>1, RankType
<1>3. \A p : p \in A <=> p \in Positions /\ bmtest(bm, p)
  BY <1>1 DEF Before
<1>4. ASSUME NEW p \in A
      PROVE  <<charbit(p), modbit(p)>> \in B /\ p = CHAR_BIT * charbit(p) + modbit(p)
  BY <1>3, CharsAre DEF bmtest
<1>5. ASSUME NEW x \in B PROVE \E p \in A : <<charbit(p), modbit(p)>> = x
  <2>. DEFINE p == CHAR_BIT * x[1] + x[2]
  <2>1. x[1] \in Chars /\ x[2] \in Bits /\ x[2] \in bm[x[1]] /\ x = <<x[1], x[2]>>
    OBVIOUS
  <2>2. p \in Positions
    BY <2>1 DEF NoStrayBit
  <2>3. charbit(p) = x[1] /\ modbit(p) = x[2]
    <3>. DEFINE c == x[1]
                b == x[2]
    <3>1. c \in Nat /\ b \in Bits
      BY <2>1, CharsAre
    <3>. HIDE DEF c, b
    <3>2. charbit(CHAR_BIT * c + b) = c /\ modbit(CHAR_BIT * c + b) = b
      BY <3>1, BitAt
    <3>. QED
      BY <3>2 DEF c, b
  <2>. HIDE DEF p
  <2>4. p \in A
    BY <1>3, <2>1, <2>2, <2>3 DEF bmtest
  <2>. QED
    BY <2>1, <2>3, <2>4
<1>. HIDE DEF A, B
<1>6. f \in Injection(A, B)
  <2>1. f \in [A -> B]
    BY <1>4
  <2>2. ASSUME NEW p \in A, NEW q \in A, f[p] = f[q] PROVE p = q
    <3>1. charbit(p) = charbit(q) /\ modbit(p) = modbit(q)
      BY <2>2
    <3>. QED
      BY <1>4, <3>1
  <2>. HIDE DEF f
  <2>. QED
    BY <2>1, <2>2 DEF Injection, IsInjective
<1>7. f \in Surjection(A, B)
  <2>1. \A x \in B : \E p \in A : f[p] = x
    BY <1>5
  <2>2. f \in [A -> B]
    BY <1>4
  <2>. HIDE DEF f
  <2>. QED
    BY <2>1, <2>2 DEF Surjection
<1>8. Cardinality(A) = Cardinality(B)
  BY <1>2, <1>6, <1>7, FS_Bijection DEF ExistsBijection, Bijection
<1>. QED
  BY <1>8 DEF A, B, Rank

\* Bitmaps, arrays, the groups' counts and the table's count agree in every
\* state, though the last is kept by differences: after any calls, a shrinking
\* and growing again among them.
THEOREM CountsAlwaysAgree == Spec => []CountsAgree
<1>1. ASSUME NEW t, TableSound(t)
      PROVE  /\ Len(t.groups) = num_groups(t.table_size)
             /\ \A g \in DOMAIN t.groups :
                  /\ t.groups[g].num_buckets = Len(t.groups[g].group)
                  /\ t.groups[g].num_buckets =
                       Cardinality({x \in Chars \X Bits : x[2] \in t.groups[g].bitmap[x[1]]})
                  /\ \A i \in SetPositions(t.groups[g]) : (g - 1) * GROUP_SIZE + i < t.table_size
             /\ t.num_buckets = Cardinality({i \in Locations(t) : test(t, i)})
  <2>1. Len(t.groups) = num_groups(t.table_size)
    <3>1. t.table_size \in Nat /\ DOMAIN t.groups = 1 .. num_groups(t.table_size)
      BY <1>1 DEF TableSound, ShapeSound
    <3>2. num_groups(t.table_size) \in Nat
      BY <3>1, NumGroups
    <3>. QED
      BY <3>1, <3>2
  <2>2. ASSUME NEW g \in DOMAIN t.groups
        PROVE  /\ t.groups[g].num_buckets = Len(t.groups[g].group)
               /\ t.groups[g].num_buckets =
                    Cardinality({x \in Chars \X Bits : x[2] \in t.groups[g].bitmap[x[1]]})
    <3>. DEFINE h == t.groups[g]
                bm == h.bitmap
    <3>1. GroupSound(h)
      BY <1>1, SoundGroup
    <3>. HIDE DEF h
    <3>2. /\ h.num_buckets = Len(h.group) /\ h.num_buckets = Rank(bm, GROUP_SIZE)
          /\ bm \in Bitmaps /\ NoStrayBit(bm)
      BY <3>1 DEF GroupSound
    <3>. HIDE DEF bm
    <3>3. Rank(bm, GROUP_SIZE) = Cardinality({x \in Chars \X Bits : x[2] \in bm[x[1]]})
      BY <3>2, BitsCounted
    <3>. QED
      BY <3>2, <3>3 DEF h, bm
  <2>3. ASSUME NEW g \in DOMAIN t.groups, NEW i \in SetPositions(t.groups[g])
        PROVE  (g - 1) * GROUP_SIZE + i < t.table_size
    <3>1. i \in Positions /\ bmtest(t.groups[g].bitmap, i)
      BY DEF SetPositions
    <3>2. GROUP_SIZE * (g - 1) + i < t.table_size /\ g \in Nat \ {0}
      BY <1>1, <3>1, SoundGroup
    <3>3. (g - 1) * GROUP_SIZE = GROUP_SIZE * (g - 1)
      BY <3>2, CharsAre
    <3>. QED
      BY <3>2, <3>3
  <2>4. t.num_buckets = Cardinality({i \in Locations(t) : test(t, i)})
    BY <1>1 DEF TableSound, Assigned
  <2>. QED
    BY <2>1, <2>2, <2>3, <2>4
<1>2. AllSound => CountsAgree
  BY <1>1 DEF AllSound, CountsAgree
<1>. QED
  BY <1>2, TablesStaySound, PTL

\* What is read at a location is a value.
LEMMA ValueRead ==
  ASSUME NEW t, TableSound(t), NEW i \in Locations(t)
  PROVE  get(t, i) \in Val /\ get(t, i) \in Nat
<1>1. GroupSound(which_group(t, i)) /\ pos_in_group(i) \in Positions
  BY GroupOf DEF TableSound
<1>2. CASE bmtest(which_group(t, i).bitmap, pos_in_group(i))
  BY <1>1, <1>2, HeldIs, ClientAssumption, ElementsAssumption DEF get, Held
<1>3. CASE ~bmtest(which_group(t, i).bitmap, pos_in_group(i))
  BY <1>3, ClientAssumption, ElementsAssumption DEF get, group_get
<1>. QED
  BY <1>2, <1>3

\* The equality of tables is that of what is read and what is assigned.
LEMMA EqualIs ==
  ASSUME NEW t, TableSound(t), NEW u, TableSound(u)
  PROVE  equal(t, u) <=> /\ t.table_size = u.table_size
                         /\ \A i \in Locations(t) :
                              get(t, i) = get(u, i) /\ (test(t, i) <=> test(u, i))
<1>1. /\ t.table_size \in Nat /\ u.table_size \in Nat
      /\ DOMAIN t.groups = 1 .. num_groups(t.table_size)
      /\ DOMAIN u.groups = 1 .. num_groups(u.table_size)
      /\ t.num_buckets = Cardinality(Assigned(t)) /\ u.num_buckets = Cardinality(Assigned(u))
  BY DEF TableSound, ShapeSound
<1>2. ASSUME equal(t, u)
      PROVE  /\ t.table_size = u.table_size
             /\ \A i \in Locations(t) : get(t, i) = get(u, i) /\ (test(t, i) <=> test(u, i))
  <2>1. ASSUME NEW i \in Locations(t)
        PROVE  get(t, i) = get(u, i) /\ (test(t, i) <=> test(u, i))
    <3>1. group_num(i) \in DOMAIN t.groups /\ pos_in_group(i) \in Positions
      BY GroupOf DEF TableSound
    <3>2. group_equal(which_group(t, i), which_group(u, i))
      BY <1>2, <3>1 DEF equal, which_group
    <3>. QED
      BY <3>1, <3>2 DEF group_equal, get, test
  <2>. QED
    BY <1>2, <2>1 DEF equal
<1>3. ASSUME t.table_size = u.table_size,
             \A i \in Locations(t) : get(t, i) = get(u, i) /\ (test(t, i) <=> test(u, i))
      PROVE  equal(t, u)
  <2>1. Locations(u) = Locations(t)
    BY <1>3 DEF Locations
  <2>2. t.num_buckets = u.num_buckets
    <3>1. Assigned(t) = Assigned(u)
      BY <1>3, <2>1 DEF Assigned
    <3>. QED
      BY <1>1, <3>1
  <2>3. ASSUME NEW n \in DOMAIN t.groups PROVE group_equal(t.groups[n], u.groups[n])
    <3>. DEFINE g == t.groups[n]
                h == u.groups[n]
                Loc(p) == GROUP_SIZE * (n - 1) + p
    <3>1. n \in DOMAIN u.groups
      BY <1>1, <1>3
    <3>2. /\ GroupSound(g) /\ GroupSound(h) /\ n \in Nat \ {0}
          /\ \A p \in Positions : bmtest(g.bitmap, p) => Loc(p) < t.table_size
          /\ \A p \in Positions : bmtest(h.bitmap, p) => Loc(p) < t.table_size
      BY <1>3, <3>1, SoundGroup
    <3>3. ASSUME NEW p \in Positions, Loc(p) < t.table_size
          PROVE  /\ bmtest(g.bitmap, p) <=> bmtest(h.bitmap, p)
                 /\ group_get(g, p) = group_get(h, p)
      <4>. DEFINE i == Loc(p)
      <4>1. i \in Nat /\ group_num(i) = n /\ pos_in_group(i) = p
        BY <3>2, LocationOf
      <4>2. i < t.table_size
        BY <3>3
      <4>. HIDE DEF Loc, i, g, h
      <4>3. i \in Locations(t)
        BY <1>1, <4>1, <4>2 DEF Locations
      <4>4. which_group(t, i) = g /\ which_group(u, i) = h
        BY <4>1 DEF which_group, g, h
      <4>5. get(t, i) = get(u, i) /\ (test(t, i) <=> test(u, i))
        BY <1>3, <4>3
      <4>. QED
        BY <4>1, <4>4, <4>5 DEF get, test
    <3>. HIDE DEF Loc, g, h
    <3>4. ASSUME NEW p \in Positions
          PROVE  /\ bmtest(g.bitmap, p) <=> bmtest(h.bitmap, p)
                 /\ group_get(g, p) = group_get(h, p)
      <4>1. CASE Loc(p) < t.table_size
        BY <3>3, <4>1
      <4>2. CASE ~(Loc(p) < t.table_size)
        BY <3>2, <4>2 DEF group_get
      <4>. QED
        BY <4>1, <4>2
    <3>5. g.bitmap = h.bitmap
      <4>1. /\ g.bitmap \in Bitmaps /\ h.bitmap \in Bitmaps
            /\ NoStrayBit(g.bitmap) /\ NoStrayBit(h.bitmap)
        BY <3>2 DEF GroupSound
      <4>2. ASSUME NEW c \in Chars, NEW b \in Bits PROVE b \in g.bitmap[c] <=> b \in h.bitmap[c]
        <5>. DEFINE p == CHAR_BIT * c + b
        <5>0. c \in Nat
          BY CharsAre
        <5>1. charbit(p) = c /\ modbit(p) = b
          BY <5>0, BitAt
        <5>2. (b \in g.bitmap[c] \/ b \in h.bitmap[c]) => p \in Positions
          BY <4>1 DEF NoStrayBit
        <5>. HIDE DEF p
        <5>3. bmtest(g.bitmap, p) <=> b \in g.bitmap[c]
          BY <5>1 DEF bmtest
        <5>4. bmtest(h.bitmap, p) <=> b \in h.bitmap[c]
          BY <5>1 DEF bmtest
        <5>. QED
          BY <3>4, <5>2, <5>3, <5>4
      <4>. DEFINE bg == g.bitmap
                  bh == h.bitmap
      <4>3. \A c \in Chars : bg[c] = bh[c]
        BY <4>1, <4>2 DEF Bitmaps
      <4>4. bg \in [Chars -> SUBSET Bits] /\ bh \in [Chars -> SUBSET Bits]
        BY <4>1 DEF Bitmaps
      <4>. HIDE DEF bg, bh
      <4>5. bg = bh
        BY <4>3, <4>4
      <4>. QED
        BY <4>5 DEF bg, bh
    <3>6. g.num_buckets = h.num_buckets
      BY <3>2, <3>5 DEF GroupSound
    <3>7. group_equal(g, h)
      BY <3>4, <3>5, <3>6 DEF group_equal
    <3>. QED
      BY <3>7 DEF g, h
  <2>. QED
    BY <1>3, <2>2, <2>3 DEF equal
<1>. QED
  BY <1>2, <1>3

\* What it takes for a table to be less than another.
LessAt(t, u, i) ==
  /\ i \in Nat /\ i <= t.table_size /\ i < u.table_size
  /\ \A j \in 0 .. i - 1 : get(t, j) = get(u, j)
  /\ i = t.table_size \/ get(t, i) < get(u, i)

\* operator< is decided at the first location at which two tables differ.
LEMMA LessIs ==
  ASSUME NEW t, TableSound(t), NEW u, TableSound(u)
  PROVE  less(t, u) <=> \E i \in Nat : LessAt(t, u, i)
<1>1. t.table_size \in Nat /\ u.table_size \in Nat
  BY DEF TableSound, ShapeSound
<1>2. ASSUME less(t, u) PROVE \E i \in Nat : LessAt(t, u, i)
  <2>1. PICK i \in 0 .. t.table_size :
          /\ i <= u.table_size
          /\ \A j \in 0 .. i - 1 : get(t, j) = get(u, j)
          /\ IF i = t.table_size THEN i < u.table_size
                                 ELSE i < u.table_size /\ get(t, i) < get(u, i)
    BY <1>2 DEF less
  <2>2. i \in Nat /\ i <= t.table_size
    BY <1>1
  <2>. QED
    BY <2>1, <2>2 DEF LessAt
<1>3. ASSUME NEW i \in Nat, LessAt(t, u, i) PROVE less(t, u)
  <2>1. i \in 0 .. t.table_size /\ i <= u.table_size
    BY <1>1, <1>3 DEF LessAt
  <2>2. /\ \A j \in 0 .. i - 1 : get(t, j) = get(u, j)
        /\ IF i = t.table_size THEN i < u.table_size
                               ELSE i < u.table_size /\ get(t, i) < get(u, i)
    BY <1>3 DEF LessAt
  <2>. QED
    BY <2>1, <2>2 DEF less
<1>. QED
  BY <1>2, <1>3

\* Of two tables that read differently one is less, at the first difference.
LEMMA OneIsLess ==
  ASSUME NEW t, TableSound(t), NEW u, TableSound(u)
  PROVE  \/ less(t, u) \/ less(u, t)
         \/ t.table_size = u.table_size /\ \A i \in Locations(t) : get(t, i) = get(u, i)
<1>1. t.table_size \in Nat /\ u.table_size \in Nat
  BY DEF TableSound, ShapeSound
<1>. DEFINE Ends(i) == i = t.table_size \/ i = u.table_size \/ get(t, i) # get(u, i)
            Stops == {i \in Nat : Ends(i)}
<1>2. PICK d \in Stops : \A i \in Stops : d <= i
  <2>1. Stops \in SUBSET Nat /\ t.table_size \in Stops
    BY <1>1
  <2>. HIDE DEF Stops
  <2>. QED
    BY <2>1, LeastNumber
<1>3. d \in Nat /\ Ends(d)
  OBVIOUS
<1>4. d <= t.table_size /\ d <= u.table_size
  BY <1>1, <1>2
<1>5. \A j \in 0 .. d - 1 : get(t, j) = get(u, j)
  <2>. SUFFICES ASSUME NEW j \in 0 .. d - 1, get(t, j) # get(u, j) PROVE FALSE
    OBVIOUS
  <2>1. j \in Nat /\ ~(d <= j)
    BY <1>3
  <2>2. j \in Stops
    BY <2>1
  <2>. QED
    BY <1>2, <2>1, <2>2
<1>. HIDE DEF Stops
<1>6. CASE d = t.table_size /\ d < u.table_size
  BY <1>3, <1>4, <1>5, <1>6, LessIs DEF LessAt
<1>7. CASE d = u.table_size /\ d < t.table_size
  BY <1>3, <1>4, <1>5, <1>7, LessIs DEF LessAt
<1>8. CASE d = t.table_size /\ d = u.table_size
  BY <1>5, <1>8 DEF Locations
<1>9. CASE d < t.table_size /\ d < u.table_size
  <2>1. d \in Locations(t) /\ d \in Locations(u)
    BY <1>1, <1>3, <1>9 DEF Locations
  <2>2. get(t, d) \in Nat /\ get(u, d) \in Nat
    BY <2>1, ValueRead
  <2>3. get(t, d) # get(u, d)
    BY <1>1, <1>3, <1>9
  <2>4. get(t, d) < get(u, d) \/ get(u, d) < get(t, d)
    BY <2>2, <2>3
  <2>. QED
    BY <1>3, <1>4, <1>5, <1>9, <2>4, LessIs DEF LessAt
<1>. QED
  BY <1>1, <1>3, <1>4, <1>6, <1>7, <1>8, <1>9

\* Tables that are less than one another differ, and not both are.
LEMMA LessDiffers ==
  ASSUME NEW t, TableSound(t), NEW u, TableSound(u), less(t, u)
  PROVE  /\ ~(t.table_size = u.table_size /\ \A i \in Locations(t) : get(t, i) = get(u, i))
         /\ ~less(u, t)
<1>1. t.table_size \in Nat /\ u.table_size \in Nat
  BY DEF TableSound, ShapeSound
<1>2. PICK i \in Nat : LessAt(t, u, i)
  BY LessIs
<1>3. ASSUME i < t.table_size PROVE get(t, i) < get(u, i) /\ get(t, i) # get(u, i)
  <2>1. i \in Locations(t) /\ i \in Locations(u)
    BY <1>1, <1>2, <1>3 DEF LessAt, Locations
  <2>2. get(t, i) \in Nat /\ get(u, i) \in Nat
    BY <2>1, ValueRead
  <2>3. get(t, i) < get(u, i)
    BY <1>1, <1>2, <1>3 DEF LessAt
  <2>. QED
    BY <2>2, <2>3
<1>4. ~(t.table_size = u.table_size /\ \A j \in Locations(t) : get(t, j) = get(u, j))
  <2>. SUFFICES ASSUME t.table_size = u.table_size, \A j \in Locations(t) : get(t, j) = get(u, j)
                PROVE  FALSE
    OBVIOUS
  <2>1. i < t.table_size
    BY <1>2 DEF LessAt
  <2>2. i \in Locations(t)
    BY <1>1, <2>1 DEF Locations
  <2>. QED
    BY <1>3, <2>1, <2>2
<1>5. ASSUME less(u, t) PROVE FALSE
  <2>1. PICK k \in Nat : LessAt(u, t, k)
    BY <1>5, LessIs
  <2>2. k < t.table_size /\ i < u.table_size
    BY <1>2, <2>1 DEF LessAt
  <2>3. CASE i < k
    <3>1. i < t.table_size /\ i \in 0 .. k - 1
      BY <1>1, <2>2, <2>3
    <3>. QED
      BY <1>3, <2>1, <3>1 DEF LessAt
  <2>4. CASE k < i
    <3>1. k < u.table_size /\ k \in 0 .. i - 1 /\ k # u.table_size
      BY <1>1, <2>2, <2>4
    <3>2. get(u, k) < get(t, k) /\ get(t, k) = get(u, k)
      BY <1>2, <2>1, <3>1 DEF LessAt
    <3>3. k \in Locations(t)
      BY <1>1, <2>2 DEF Locations
    <3>4. get(t, k) \in Nat
      BY <3>3, ValueRead
    <3>. QED
      BY <3>2, <3>4
  <2>5. CASE i = k
    <3>1. i < t.table_size /\ i # u.table_size
      BY <1>1, <2>2, <2>5
    <3>2. get(t, i) < get(u, i) /\ get(u, i) < get(t, i)
      BY <1>3, <2>1, <2>5, <3>1 DEF LessAt
    <3>3. i \in Locations(t) /\ i \in Locations(u)
      BY <1>1, <2>2, <3>1 DEF Locations
    <3>4. get(t, i) \in Nat /\ get(u, i) \in Nat
      BY <3>3, ValueRead
    <3>. QED
      BY <3>2, <3>4
  <2>. QED
    BY <2>3, <2>4, <2>5
<1>. QED
  BY <1>4, <1>5

\* The comparisons of any two tables, whatever their histories, are those of
\* what they read as and of what is assigned: operator== tells apart no two
\* tables that agree in both, and operator< orders any two that read differently
\* one way.
THEOREM ComparisonsAlwaysAgree == Spec => []ComparisonsAgree
<1>1. ASSUME NEW t, TableSound(t), NEW u, TableSound(u)
      PROVE  LET reads(x) == [i \in Locations(x) |-> get(x, i)]
                 tests(x) == [i \in Locations(x) |-> test(x, i)]
             IN  /\ equal(t, u) <=> reads(t) = reads(u) /\ tests(t) = tests(u)
                 /\ less(t, u) \/ less(u, t) <=> reads(t) # reads(u)
                 /\ ~(less(t, u) /\ less(u, t))
  <2>. DEFINE reads(x) == [i \in Locations(x) |-> get(x, i)]
              tests(x) == [i \in Locations(x) |-> test(x, i)]
              Same == t.table_size = u.table_size
              R == Same /\ \A i \in Locations(t) : get(t, i) = get(u, i)
              T == \A i \in Locations(t) : test(t, i) = test(u, i)
  <2>1. t.table_size \in Nat /\ u.table_size \in Nat
    BY <1>1 DEF TableSound, ShapeSound
  <2>2. Same => Locations(t) = Locations(u)
    BY DEF Locations
  <2>3. Locations(t) = Locations(u) => Same
    <3>. SUFFICES ASSUME Locations(t) = Locations(u), ~Same PROVE FALSE
      OBVIOUS
    <3>. DEFINE a == t.table_size
                b == u.table_size
    <3>1. a \in Nat /\ b \in Nat /\ a # b /\ 0 .. a - 1 = 0 .. b - 1
      BY <2>1 DEF Locations
    <3>. HIDE DEF a, b
    <3>2. CASE a < b
      BY <3>1, <3>2
    <3>3. CASE b < a
      BY <3>1, <3>3
    <3>. QED
      BY <3>1, <3>2, <3>3
  <2>4. reads(t) = reads(u) <=> R
    <3>1. ASSUME reads(t) = reads(u) PROVE R
      <4>1. DOMAIN reads(t) = DOMAIN reads(u)
        BY <3>1
      <4>2. Locations(t) = Locations(u)
        BY <4>1
      <4>3. \A i \in Locations(t) : reads(t)[i] = reads(u)[i]
        BY <3>1
      <4>. QED
        BY <2>3, <4>2, <4>3
    <3>2. ASSUME R PROVE reads(t) = reads(u)
      BY <2>2, <3>2
    <3>. QED
      BY <3>1, <3>2
  <2>5. R => (tests(t) = tests(u) <=> T)
    <3>1. ASSUME R, tests(t) = tests(u) PROVE T
      <4>1. \A i \in Locations(t) : tests(t)[i] = tests(u)[i]
        BY <3>1
      <4>. QED
        BY <2>2, <3>1, <4>1
    <3>2. ASSUME R, T PROVE tests(t) = tests(u)
      BY <2>2, <3>2
    <3>. QED
      BY <3>1, <3>2
  <2>6. equal(t, u) <=> R /\ T
    <3>1. \A x, i : test(x, i) \in BOOLEAN
      BY DEF test, bmtest
    <3>. QED
      BY <1>1, <3>1, EqualIs
  <2>7. less(t, u) \/ less(u, t) \/ R
    BY <1>1, OneIsLess
  <2>8. less(t, u) => ~R /\ ~less(u, t)
    BY <1>1, LessDiffers
  <2>9. less(u, t) => ~R
    <3>1. R => u.table_size = t.table_size /\ \A i \in Locations(u) : get(u, i) = get(t, i)
      BY <2>2
    <3>. QED
      BY <1>1, <3>1, LessDiffers
  <2>. HIDE DEF reads, tests, R, T
  <2>10. /\ equal(t, u) <=> reads(t) = reads(u) /\ tests(t) = tests(u)
         /\ less(t, u) \/ less(u, t) <=> reads(t) # reads(u)
         /\ ~(less(t, u) /\ less(u, t))
    BY <2>4, <2>5, <2>6, <2>7, <2>8, <2>9
  <2>. QED
    BY <2>10 DEF reads, tests
<1>2. AllSound => ComparisonsAgree
  BY <1>1 DEF AllSound, ComparisonsAgree
<1>. QED
  BY <1>2, TablesStaySound, PTL

\* A walk comes by every assigned location of a sparsetable in order and once,
\* over empty groups and across groups, forwards and backwards, and iterators
\* and locations lead to each other, in every table that calls can make.
THEOREM WalksAlwaysVisitAssigned == Spec => []WalkVisitsAssigned
<1>1. ASSUME NEW t, ShapeSound(t)
      PROVE  LET n == Cardinality(Assigned(t))
                 loc(k) == get_pos(t, Walk(t)[k])
             IN  /\ Walk(t)[n] = nonempty_end(t)
                 /\ \A k \in 0 .. n - 1 :
                      /\ Walk(t)[k] # nonempty_end(t)
                      /\ test(t, loc(k)) /\ dereference(t, Walk(t)[k]) = get(t, loc(k))
                      /\ get_iter(t, loc(k)) = Walk(t)[k]
                      /\ decrement(t, Walk(t)[k + 1]) = Walk(t)[k]
                      /\ k > 0 => loc(k - 1) < loc(k)
  <2>. DEFINE n == Cardinality(Assigned(t))
              loc(k) == get_pos(t, Walk(t)[k])
  <2>1. n \in Nat /\ Walk(t)[n] = nonempty_end(t)
    BY <1>1, WalkIs
  <2>2. \A k \in 0 .. n - 1 :
          \E i \in Assigned(t) : Number(t, i) = k /\ Walk(t)[k] = Stop(t, i)
    BY <1>1, WalkIs
  <2>. HIDE DEF n
  <2>3. ASSUME NEW k \in 0 .. n - 1
        PROVE  /\ Walk(t)[k] # nonempty_end(t)
               /\ test(t, loc(k)) /\ dereference(t, Walk(t)[k]) = get(t, loc(k))
               /\ get_iter(t, loc(k)) = Walk(t)[k]
               /\ decrement(t, Walk(t)[k + 1]) = Walk(t)[k]
               /\ k > 0 => loc(k - 1) < loc(k)
    <3>1. PICK i \in Assigned(t) : Number(t, i) = k /\ Walk(t)[k] = Stop(t, i)
      BY <2>2
    <3>2. loc(k) = i
      BY <1>1, <3>1, StopReads
    <3>3. /\ Walk(t)[k] # nonempty_end(t) /\ test(t, loc(k))
          /\ dereference(t, Walk(t)[k]) = get(t, loc(k)) /\ get_iter(t, loc(k)) = Walk(t)[k]
      BY <1>1, <3>1, <3>2, StopReads
    <3>4. \A j \in Assigned(t) :
            /\ j \in Nat /\ Number(t, j) \in Nat
            /\ \A x \in Assigned(t) : j < x => Number(t, j) < Number(t, x)
      BY <1>1, RowsAre, Numbered
    <3>5. decrement(t, Walk(t)[k + 1]) = Walk(t)[k]
      <4>1. CASE k + 1 = n
        <5>1. ASSUME NEW x \in Assigned(t), i < x PROVE FALSE
          <6>1. Number(t, i) < Number(t, x) /\ Number(t, x) < n /\ Number(t, x) \in Nat
            BY <1>1, <3>4, <5>1, Numbered DEF n
          <6>. QED
            BY <2>1, <3>1, <4>1, <6>1
        <5>2. decrement(t, nonempty_end(t)) = Stop(t, i)
          BY <1>1, <5>1, WalkGoesBack
        <5>. QED
          BY <2>1, <3>1, <4>1, <5>2
      <4>2. CASE k + 1 # n
        <5>1. k + 1 \in 0 .. n - 1 /\ k \in Nat
          BY <2>1, <4>2
        <5>2. PICK j \in Assigned(t) : Number(t, j) = k + 1 /\ Walk(t)[k + 1] = Stop(t, j)
          BY <2>2, <5>1
        <5>3. i < j
          BY <3>1, <3>4, <5>1, <5>2
        <5>4. \A x \in Assigned(t) : ~(i < x /\ x < j)
          BY <3>1, <3>4, <5>1, <5>2
        <5>5. decrement(t, Stop(t, j)) = Stop(t, i)
          BY <1>1, <5>3, <5>4, WalkGoesBack DEF Follows
        <5>. QED
          BY <3>1, <5>2, <5>5
      <4>. QED
        BY <4>1, <4>2
    <3>6. ASSUME k > 0 PROVE loc(k - 1) < loc(k)
      <4>1. k - 1 \in 0 .. n - 1 /\ k \in Nat
        BY <2>1, <3>6
      <4>2. PICK j \in Assigned(t) : Number(t, j) = k - 1 /\ Walk(t)[k - 1] = Stop(t, j)
        BY <2>2, <4>1
      <4>3. loc(k - 1) = j
        BY <1>1, <4>2, StopReads
      <4>4. j < i
        BY <3>1, <3>4, <4>1, <4>2
      <4>. QED
        BY <3>2, <4>3, <4>4
    <3>. QED
      BY <3>3, <3>5, <3>6
  <2>. QED
    BY <2>1, <2>3 DEF n
<1>2. AllSound => WalkVisitsAssigned
  <2>1. ASSUME AllSound, NEW o \in Obj PROVE ShapeSound(tab[o])
    BY <2>1 DEF AllSound, TableSound
  <2>. QED
    BY <1>1, <2>1, Zenon DEF WalkVisitsAssigned, Walk, Assigned
<1>. QED
  BY <1>2, TablesStaySound, PTL

=============================================================================
