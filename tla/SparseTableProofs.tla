-------------------------- MODULE SparseTableProofs --------------------------
(***************************************************************************)
(* Why a sparsetable is an array: the offset that pos_to_offset counts out *)
(* of a group's bitmap is the number of assigned elements in front of a    *)
(* position, so that the packed array of a group, which grows and shrinks  *)
(* there, keeps the assigned elements in the order of their positions.     *)
(***************************************************************************)
EXTENDS SparseElements, FiniteSetTheorems, FunctionTheorems, SequenceTheorems,
        WellFoundedInduction, TLAPS

\* Every nonempty set of naturals has a least element.
LEMMA LeastNumber ==
  ASSUME NEW T \in SUBSET Nat, T # {}
  PROVE  \E n \in T : \A m \in T : n <= m
<1>1. IsWellFoundedOn(OpToRel(<, Nat), Nat)
  BY NatLessThanWellFounded
<1>2. PICK n \in T : \A m \in T : <<m, n>> \notin OpToRel(<, Nat)
  BY <1>1, WFMin
<1>3. OpToRel(<, Nat) = {p \in Nat \X Nat : p[1] < p[2]}
  BY DEF OpToRel
<1>4. ASSUME NEW m \in T PROVE n <= m
  <2>1. <<m, n>> \in Nat \X Nat
    OBVIOUS
  <2>2. ~(m < n)
    BY <1>2, <1>3, <2>1
  <2>3. m \in Nat /\ n \in Nat
    OBVIOUS
  <2>. QED
    BY <2>2, <2>3
<1>. QED
  BY <1>4

\* To cut a number into cells of c, and to find it again.
LEMMA Cells ==
  ASSUME NEW c \in Nat \ {0}, NEW n \in Nat
  PROVE  n = c * (n \div c) + (n % c) /\ n \div c \in Nat /\ n % c \in 0 .. c - 1
  OBVIOUS

\* Multiplication is monotone.
LEMMA Times ==
  ASSUME NEW c \in Nat, NEW a \in Nat, NEW b \in Nat, a <= b
  PROVE  c * a <= c * b /\ c * a \in Nat /\ c * b \in Nat
<1>1. b = a + (b - a) /\ b - a \in Nat
  OBVIOUS
<1>. DEFINE d == b - a
<1>2. c * b = c * a + c * d
  BY <1>1
<1>3. c * d \in Nat /\ c * a \in Nat
  BY <1>1
<1>. HIDE DEF d
<1>. QED
  BY <1>2, <1>3

\* A row and a column give a location its place, and that place gives them back.
LEMMA Cell ==
  ASSUME NEW c \in Nat \ {0}, NEW q \in Nat, NEW r \in 0 .. c - 1
  PROVE  c * q + r \in Nat /\ (c * q + r) \div c = q /\ (c * q + r) % c = r
<1>. DEFINE n == c * q + r
            p == n \div c
            s == n % c
<1>1. n \in Nat
  BY Times
<1>2. n = c * p + s /\ p \in Nat /\ s \in 0 .. c - 1
  BY <1>1, Cells
<1>3. c * q + r = c * p + s
  BY <1>2
<1>. HIDE DEF n, p, s
<1>4. ~(p + 1 <= q)
  <2>. SUFFICES ASSUME p + 1 <= q PROVE FALSE
    OBVIOUS
  <2>1. c * (p + 1) <= c * q /\ c * q \in Nat
    BY <1>2, Times
  <2>2. c * (p + 1) = c * p + c /\ c * p \in Nat
    BY <1>2, Times
  <2>. QED
    BY <1>2, <1>3, <2>1, <2>2
<1>5. ~(q + 1 <= p)
  <2>. SUFFICES ASSUME q + 1 <= p PROVE FALSE
    OBVIOUS
  <2>1. c * (q + 1) <= c * p /\ c * p \in Nat
    BY <1>2, Times
  <2>2. c * (q + 1) = c * q + c /\ c * q \in Nat
    BY Times
  <2>. QED
    BY <1>2, <1>3, <2>1, <2>2
<1>6. p = q
  BY <1>2, <1>4, <1>5
<1>7. c * q \in Nat
  BY Times
<1>8. s = r
  BY <1>2, <1>3, <1>6, <1>7
<1>. QED
  BY <1>1, <1>6, <1>8 DEF n, p, s

-----------------------------------------------------------------------------
(* Bitmaps.                                                                *)

Bitmaps == [Chars -> SUBSET Bits]

\* The set positions in front of i, of which there are as many as i's rank.
Before(bm, i) == {j \in 0 .. i - 1 : bmtest(bm, j)}
Rank(bm, i)   == Cardinality(Before(bm, i))

\* The rank of a position is a number.
LEMMA RankType ==
  ASSUME NEW bm, NEW i \in Nat
  PROVE  IsFiniteSet(Before(bm, i)) /\ Rank(bm, i) \in Nat
<1>1. IsFiniteSet(0 .. i - 1) /\ Before(bm, i) \in SUBSET (0 .. i - 1)
  BY FS_Interval DEF Before
<1>. QED
  BY <1>1, FS_Subset, FS_CardinalityType DEF Rank

\* A rank grows by one behind each set position and nowhere else.
LEMMA RankNext ==
  ASSUME NEW bm, NEW i \in Nat
  PROVE  Rank(bm, i + 1) = Rank(bm, i) + (IF bmtest(bm, i) THEN 1 ELSE 0)
<1>1. Before(bm, i + 1) = IF bmtest(bm, i) THEN Before(bm, i) \cup {i} ELSE Before(bm, i)
  BY DEF Before
<1>2. i \notin Before(bm, i)
  BY DEF Before
<1>. QED
  BY <1>1, <1>2, RankType, FS_AddElement DEF Rank

\* A later position has no lower rank, and a higher one if the first is assigned.
LEMMA RankGrows ==
  ASSUME NEW bm, NEW i \in Nat, NEW j \in Nat, i <= j
  PROVE  /\ Rank(bm, i) <= Rank(bm, j)
         /\ bmtest(bm, i) /\ i < j => Rank(bm, i) < Rank(bm, j)
<1>1. \A k, l \in Nat : k <= l => Rank(bm, k) <= Rank(bm, l)
  <2>. SUFFICES ASSUME NEW k \in Nat, NEW l \in Nat, k <= l
                PROVE  Rank(bm, k) <= Rank(bm, l)
    OBVIOUS
  <2>1. Before(bm, k) \in SUBSET Before(bm, l)
    BY DEF Before
  <2>. QED
    BY <2>1, RankType, FS_Subset DEF Rank
<1>2. Rank(bm, i) \in Nat /\ Rank(bm, j) \in Nat /\ Rank(bm, i + 1) \in Nat
  BY RankType
<1>3. ASSUME bmtest(bm, i), i < j PROVE Rank(bm, i) < Rank(bm, j)
  <2>1. Rank(bm, i + 1) <= Rank(bm, j)
    BY <1>1, <1>3
  <2>. QED
    BY <1>2, <1>3, <2>1, RankNext
<1>. QED
  BY <1>1, <1>3

\* The number of the last char, and what lies where.
LastChar == (GROUP_SIZE - 1) \div CHAR_BIT

\* Which char of the bitmap a position is in, and which bit of it.
LEMMA CharsAre ==
  /\ CHAR_BIT \in Nat \ {0} /\ GROUP_SIZE \in Nat \ {0}
  /\ LastChar \in Nat /\ Chars = 0 .. LastChar
  /\ \A i \in Positions : charbit(i) \in Chars /\ modbit(i) \in Bits
                          /\ i = CHAR_BIT * charbit(i) + modbit(i)
<1>1. CHAR_BIT \in Nat \ {0} /\ GROUP_SIZE \in Nat \ {0}
  BY GroupAssumption
<1>2. LastChar \in Nat /\ Chars = 0 .. LastChar
  BY <1>1, Cells DEF LastChar, Chars
<1>3. ASSUME NEW i \in Positions
      PROVE  /\ charbit(i) \in Chars /\ modbit(i) \in Bits
             /\ i = CHAR_BIT * charbit(i) + modbit(i)
  <2>1. i \in Nat /\ i <= GROUP_SIZE - 1 /\ GROUP_SIZE - 1 \in Nat
    BY <1>1 DEF Positions
  <2>. DEFINE p == i \div CHAR_BIT
              r == i % CHAR_BIT
              s == (GROUP_SIZE - 1) % CHAR_BIT
  <2>2. i = CHAR_BIT * p + r /\ p \in Nat /\ r \in 0 .. CHAR_BIT - 1
    BY <1>1, <2>1, Cells
  <2>3. GROUP_SIZE - 1 = CHAR_BIT * LastChar + s /\ s \in 0 .. CHAR_BIT - 1
    BY <1>1, <2>1, Cells DEF LastChar
  <2>. HIDE DEF p, r, s
  <2>4. ~(LastChar + 1 <= p)
    <3>. SUFFICES ASSUME LastChar + 1 <= p PROVE FALSE
      OBVIOUS
    <3>1. CHAR_BIT * (LastChar + 1) <= CHAR_BIT * p /\ CHAR_BIT * p \in Nat
      BY <1>1, <1>2, <2>2, Times
    <3>2. CHAR_BIT * (LastChar + 1) = CHAR_BIT * LastChar + CHAR_BIT
          /\ CHAR_BIT * LastChar \in Nat
      BY <1>1, <1>2, Times
    <3>. QED
      BY <1>1, <2>1, <2>2, <2>3, <3>1, <3>2
  <2>5. p <= LastChar
    BY <1>2, <2>2, <2>4
  <2>. QED
    BY <1>2, <2>2, <2>5 DEF p, r, charbit, modbit, Bits
<1>. QED
  BY <1>1, <1>2, <1>3

\* A bit of a char has one position.
LEMMA BitAt ==
  ASSUME NEW c \in Nat, NEW b \in Bits
  PROVE  /\ CHAR_BIT * c + b \in Nat
         /\ charbit(CHAR_BIT * c + b) = c /\ modbit(CHAR_BIT * c + b) = b
  BY CharsAre, Cell DEF charbit, modbit, Bits

\* The set bits of a char's first k, and what is in front of the char.
LEMMA WithinChar ==
  ASSUME NEW bm \in Bitmaps, NEW c \in Chars, NEW k \in 0 .. CHAR_BIT
  PROVE  /\ IsFiniteSet({b \in bm[c] : b < k})
         /\ Rank(bm, CHAR_BIT * c + k) =
              Rank(bm, CHAR_BIT * c) + Cardinality({b \in bm[c] : b < k})
<1>. DEFINE n == CHAR_BIT * c
            S == {b \in bm[c] : b < k}
            T == {j \in n .. n + k - 1 : bmtest(bm, j)}
            f == [b \in S |-> n + b]
<1>1. c \in Nat /\ n \in Nat /\ k \in Nat /\ CHAR_BIT \in Nat \ {0}
  BY CharsAre, Times
<1>2. bm[c] \subseteq Bits /\ Bits = 0 .. CHAR_BIT - 1
  BY DEF Bitmaps, Bits
<1>3. \A b \in Bits : bmtest(bm, n + b) <=> b \in bm[c]
  BY <1>1, BitAt DEF bmtest
<1>. HIDE DEF n
<1>4. S \subseteq 0 .. CHAR_BIT - 1
  BY <1>2
<1>5. IsFiniteSet(S)
  <2>1. IsFiniteSet(0 .. CHAR_BIT - 1)
    BY <1>1, FS_Interval
  <2>2. S \in SUBSET (0 .. CHAR_BIT - 1)
    BY <1>4
  <2>. HIDE DEF S
  <2>. QED
    BY <2>1, <2>2, FS_Subset
<1>6. f \in Bijection(S, T)
  <2>1. \A b \in S : n + b \in T /\ b \in Nat
    BY <1>1, <1>2, <1>3, <1>4
  <2>2. \A j \in T : \E b \in S : n + b = j
    <3>. SUFFICES ASSUME NEW j \in T PROVE \E b \in S : n + b = j
      OBVIOUS
    <3>1. j - n \in Bits /\ j - n < k /\ n + (j - n) = j
      BY <1>1, <1>2
    <3>. QED
      BY <1>3, <3>1
  <2>3. f \in Injection(S, T)
    BY <1>1, <2>1 DEF Injection, IsInjective
  <2>4. f \in Surjection(S, T)
    BY <2>1, <2>2 DEF Surjection
  <2>. QED
    BY <2>3, <2>4 DEF Bijection
<1>7. IsFiniteSet(T) /\ Cardinality(T) = Cardinality(S)
  BY <1>5, <1>6, FS_Bijection DEF ExistsBijection
<1>8. Before(bm, n + k) = Before(bm, n) \cup T /\ Before(bm, n) \cap T = {}
  BY <1>1 DEF Before
<1>9. IsFiniteSet(Before(bm, n)) /\ Rank(bm, n) \in Nat /\ Cardinality(T) \in Nat
  BY <1>1, <1>7, RankType, FS_CardinalityType
<1>10. Rank(bm, n + k) = Rank(bm, n) + Cardinality(T)
  <2>. DEFINE U == Before(bm, n)
  <2>1. IsFiniteSet(U) /\ IsFiniteSet(T)
    BY <1>7, <1>9
  <2>. HIDE DEF S, T, f, U
  <2>2. Cardinality(U \cup T) = Cardinality(U) + Cardinality(T) - Cardinality(U \cap T)
    BY <2>1, FS_Union
  <2>3. Cardinality(U \cap T) = 0
    BY <1>8, FS_EmptySet DEF U
  <2>4. Rank(bm, n + k) = Cardinality(U \cup T) /\ Rank(bm, n) = Cardinality(U)
    BY <1>8 DEF Rank, U
  <2>. QED
    BY <1>9, <2>2, <2>3, <2>4
<1>. QED
  BY <1>5, <1>7, <1>10 DEF n

\* Counting char by char: the recursion has a solution, and it is the rank.
LEMMA BitsInChars ==
  ASSUME NEW bm \in Bitmaps, NEW n \in 0 .. LastChar + 1
  PROVE  bits_in_chars(bm, n) = Rank(bm, CHAR_BIT * n)
<1>. DEFINE R(m) == [i \in 0 .. m |-> Rank(bm, CHAR_BIT * i)]
            Solves(f, m) == f = [i \in 0 .. m |-> IF i = 0 THEN 0
                                   ELSE f[i - 1] + bits_in_char(bm[i - 1])]
<1>1. n \in Nat /\ LastChar \in Nat /\ CHAR_BIT \in Nat \ {0} /\ Chars = 0 .. LastChar
  BY CharsAre
<1>2. Rank(bm, CHAR_BIT * 0) = 0
  <2>1. CHAR_BIT * 0 = 0 /\ Before(bm, 0) = {}
    BY <1>1 DEF Before
  <2>. QED
    BY <2>1, FS_EmptySet DEF Rank
<1>3. \A i \in 1 .. n : Rank(bm, CHAR_BIT * i) =
                          Rank(bm, CHAR_BIT * (i - 1)) + bits_in_char(bm[i - 1])
  <2>. SUFFICES ASSUME NEW i \in 1 .. n
                PROVE  Rank(bm, CHAR_BIT * i) =
                         Rank(bm, CHAR_BIT * (i - 1)) + bits_in_char(bm[i - 1])
    OBVIOUS
  <2>1. i - 1 \in Chars /\ CHAR_BIT * i = CHAR_BIT * (i - 1) + CHAR_BIT
    BY <1>1
  <2>2. bm[i - 1] = {b \in bm[i - 1] : b < CHAR_BIT}
    BY <1>1, <2>1 DEF Bitmaps, Bits
  <2>3. CHAR_BIT \in 0 .. CHAR_BIT
    BY <1>1
  <2>4. Rank(bm, CHAR_BIT * (i - 1) + CHAR_BIT) =
          Rank(bm, CHAR_BIT * (i - 1)) + Cardinality({b \in bm[i - 1] : b < CHAR_BIT})
    BY <2>1, <2>3, WithinChar
  <2>. QED
    BY <2>1, <2>2, <2>4 DEF bits_in_char
<1>4. Solves(R(n), n)
  <2>1. \A i \in 0 .. n : R(n)[i] = IF i = 0 THEN 0
                                    ELSE R(n)[i - 1] + bits_in_char(bm[i - 1])
    BY <1>1, <1>2, <1>3
  <2>. QED
    BY <2>1
<1>5. \A f : Solves(f, n) => \A i \in 0 .. n : f[i] = Rank(bm, CHAR_BIT * i)
  <2>. SUFFICES ASSUME NEW f, Solves(f, n), NEW bad \in 0 .. n,
                       f[bad] # Rank(bm, CHAR_BIT * bad)
                PROVE  FALSE
    OBVIOUS
  <2>. DEFINE Bad == {i \in 0 .. n : f[i] # Rank(bm, CHAR_BIT * i)}
  <2>1. PICK i \in Bad : \A j \in Bad : i <= j
    <3>1. Bad \in SUBSET Nat
      BY <1>1
    <3>2. bad \in Bad
      OBVIOUS
    <3>. HIDE DEF Bad
    <3>. QED
      BY <3>1, <3>2, LeastNumber
  <2>2. f[i] = IF i = 0 THEN 0 ELSE f[i - 1] + bits_in_char(bm[i - 1])
    OBVIOUS
  <2>3. CASE i = 0
    BY <1>2, <2>2, <2>3
  <2>4. CASE i # 0
    <3>1. i - 1 \in 0 .. n /\ i \in 1 .. n /\ ~(i <= i - 1)
      BY <1>1, <2>4
    <3>2. f[i - 1] = Rank(bm, CHAR_BIT * (i - 1))
      BY <2>1, <3>1
    <3>. QED
      BY <1>3, <2>2, <2>4, <3>1, <3>2
  <2>. QED
    BY <2>3, <2>4
<1>. HIDE DEF R
<1>6. Solves(CHOOSE f : Solves(f, n), n)
  BY <1>4
<1>. DEFINE upto == CHOOSE f : Solves(f, n)
<1>7. upto[n] = Rank(bm, CHAR_BIT * n)
  <2>1. n \in 0 .. n
    BY <1>1
  <2>. HIDE DEF Solves
  <2>. QED
    BY <1>5, <1>6, <2>1
<1>8. bits_in_chars(bm, n) = upto[n]
  BY DEF bits_in_chars
<1>. QED
  BY <1>7, <1>8

\* pos_to_offset counts the set bits in front of a position, whatever part of
\* a char that is.
LEMMA OffsetIsRank ==
  ASSUME NEW bm \in Bitmaps, NEW i \in Positions
  PROVE  pos_to_offset(bm, i) = Rank(bm, i)
<1>. DEFINE w == IF i = 0 THEN 0 ELSE (i - 1) \div CHAR_BIT
            k == i - CHAR_BIT * w
<1>1. /\ CHAR_BIT \in Nat \ {0} /\ GROUP_SIZE \in Nat \ {0} /\ LastChar \in Nat
      /\ i \in 0 .. GROUP_SIZE - 1 /\ i \in Nat
  BY CharsAre DEF Positions
<1>2. w \in Chars /\ k \in 0 .. CHAR_BIT
  <2>1. CASE i = 0
    <3>1. w = 0 /\ k = 0 - CHAR_BIT * 0
      BY <2>1
    <3>. QED
      BY <1>1, <3>1, CharsAre
  <2>2. CASE i # 0
    <3>1. i - 1 \in Positions /\ i - 1 \in Nat /\ w = charbit(i - 1)
      BY <1>1, <2>2 DEF Positions, charbit
    <3>2. w \in Chars /\ modbit(i - 1) \in Bits /\ i - 1 = CHAR_BIT * w + modbit(i - 1)
      BY <3>1, CharsAre
    <3>. HIDE DEF w
    <3>3. w \in Nat /\ CHAR_BIT * w \in Nat
      BY <1>1, <3>2, CharsAre, Times
    <3>4. modbit(i - 1) \in 0 .. CHAR_BIT - 1
      BY <3>2 DEF Bits
    <3>. QED
      BY <1>1, <3>2, <3>3, <3>4
  <2>. QED
    BY <2>1, <2>2
<1>3. pos_to_offset(bm, i) = bits_in_chars(bm, w) + Cardinality({b \in bm[w] : b < k})
  BY DEF pos_to_offset, bits_in_char
<1>. HIDE DEF w
<1>4. w \in 0 .. LastChar + 1 /\ w \in Nat /\ CHAR_BIT * w \in Nat
  BY <1>1, <1>2, CharsAre, Times
<1>5. CHAR_BIT * w + k = i
  BY <1>1, <1>4
<1>. HIDE DEF k
<1>. QED
  BY <1>2, <1>3, <1>4, <1>5, BitsInChars, WithinChar

\* A member of a set of numbers that is no greater than any other is the least.
LEMMA MinIs ==
  ASSUME NEW T \in SUBSET Nat, NEW w \in T, \A c \in T : w <= c
  PROVE  Min(T) = w
<1>1. \A x \in T : (\A y \in T : x =< y) => x = w
  OBVIOUS
<1>. QED
  BY <1>1 DEF Min

\* offset_to_pos leads back from a set position's offset.
LEMMA OffsetRoundTrip ==
  ASSUME NEW bm \in Bitmaps, NEW i \in Positions, bmtest(bm, i)
  PROVE  offset_to_pos(bm, Rank(bm, i)) = i
<1>. DEFINE w == charbit(i)
            r == modbit(i)
            k == Rank(bm, i)
            enough == {c \in Chars : bits_in_chars(bm, c + 1) > k}
            lower(b) == {x \in bm[w] : x < b}
            P(b) == bits_in_chars(bm, w) + bits_in_char(lower(b)) = k
<1>1. /\ CHAR_BIT \in Nat \ {0} /\ LastChar \in Nat /\ Chars = 0 .. LastChar
      /\ i \in Nat /\ w \in Chars /\ w \in Nat /\ r \in Bits /\ i = CHAR_BIT * w + r
      /\ r \in bm[w] /\ bm[w] \subseteq Bits /\ Bits = 0 .. CHAR_BIT - 1
  <2>1. i \in Nat
    BY CharsAre DEF Positions
  <2>. QED
    BY <2>1, CharsAre DEF Bitmaps, bmtest, Bits
<1>2. k \in Nat /\ \A j \in Nat : Rank(bm, j) \in Nat
  BY <1>1, RankType
<1>. HIDE DEF w, r, k
<1>3. \A c \in Chars : bits_in_chars(bm, c + 1) = Rank(bm, CHAR_BIT * (c + 1))
  BY <1>1, BitsInChars
<1>4. w \in enough
  <2>1. CHAR_BIT * (w + 1) = CHAR_BIT * w + CHAR_BIT /\ CHAR_BIT * w \in Nat
    BY <1>1, Times
  <2>2. i < CHAR_BIT * (w + 1) /\ CHAR_BIT * (w + 1) \in Nat
    BY <1>1, <2>1
  <2>3. k < Rank(bm, CHAR_BIT * (w + 1))
    BY <1>1, <2>2, RankGrows DEF k
  <2>. QED
    BY <1>1, <1>2, <1>3, <2>2, <2>3
<1>5. \A c \in enough : w <= c
  <2>. SUFFICES ASSUME NEW c \in Chars, bits_in_chars(bm, c + 1) > k, c + 1 <= w
                PROVE  FALSE
    BY <1>1
  <2>1. CHAR_BIT * (c + 1) <= CHAR_BIT * w /\ CHAR_BIT * (c + 1) \in Nat
        /\ CHAR_BIT * w \in Nat
    BY <1>1, Times
  <2>2. CHAR_BIT * (c + 1) <= i
    BY <1>1, <2>1
  <2>3. Rank(bm, CHAR_BIT * (c + 1)) <= k
    BY <1>1, <2>1, <2>2, RankGrows DEF k
  <2>. QED
    BY <1>2, <1>3, <2>1, <2>3
<1>6. Min(enough) = w
  <2>1. enough \in SUBSET Nat
    BY <1>1
  <2>. HIDE DEF enough
  <2>. QED
    BY <1>4, <1>5, <2>1, MinIs
<1>7. \A b \in bm[w] : P(b) <=> Rank(bm, CHAR_BIT * w + b) = k
  <2>. SUFFICES ASSUME NEW b \in bm[w]
                PROVE  P(b) <=> Rank(bm, CHAR_BIT * w + b) = k
    OBVIOUS
  <2>1. b \in 0 .. CHAR_BIT /\ w \in 0 .. LastChar + 1
    BY <1>1
  <2>2. Rank(bm, CHAR_BIT * w + b) = Rank(bm, CHAR_BIT * w) + Cardinality(lower(b))
    BY <1>1, <2>1, WithinChar
  <2>3. bits_in_chars(bm, w) = Rank(bm, CHAR_BIT * w)
    BY <2>1, BitsInChars
  <2>. QED
    BY <2>2, <2>3 DEF bits_in_char
<1>8. \A b \in bm[w] : Rank(bm, CHAR_BIT * w + b) = k => b = r
  <2>. SUFFICES ASSUME NEW b \in bm[w], Rank(bm, CHAR_BIT * w + b) = k, b # r
                PROVE  FALSE
    OBVIOUS
  <2>. DEFINE j == CHAR_BIT * w + b
  <2>0. b \in Bits /\ b \in Nat /\ r \in Nat /\ w \in Nat /\ CHAR_BIT \in Nat
    BY <1>1
  <2>9. CHAR_BIT * w \in Nat
    BY <2>0, Times
  <2>1. b \in Bits /\ b \in Nat /\ r \in Nat /\ CHAR_BIT * w \in Nat /\ j \in Nat
    BY <2>0, <2>9
  <2>2. bmtest(bm, j)
    BY <1>1, <2>1, BitAt DEF bmtest
  <2>. HIDE DEF j
  <2>3. j < i \/ i < j
    BY <1>1, <2>1 DEF j
  <2>4. Rank(bm, j) = k /\ Rank(bm, i) = k
    BY DEF j, k
  <2>5. CASE j < i
    <3>1. Rank(bm, j) < Rank(bm, i)
      BY <1>1, <2>1, <2>2, <2>5, RankGrows
    <3>. QED
      BY <1>2, <2>1, <2>4, <3>1
  <2>6. CASE i < j
    <3>0. i \in Nat /\ j \in Nat /\ i <= j
      BY <1>1, <2>1, <2>6
    <3>1. Rank(bm, i) < Rank(bm, j)
      BY <2>6, <3>0, RankGrows
    <3>. QED
      BY <1>2, <2>1, <2>4, <3>1
  <2>. QED
    BY <2>3, <2>5, <2>6
<1>9. (CHOOSE b \in bm[w] : P(b)) = r
  <2>1. P(r) /\ \A b \in bm[w] : P(b) => b = r
    BY <1>1, <1>7, <1>8 DEF k
  <2>. HIDE DEF P
  <2>. QED
    BY <1>1, <2>1
<1>10. offset_to_pos(bm, k) = CHAR_BIT * Min(enough) + (CHOOSE b \in bm[w] : P(b))
  BY <1>4, <1>6 DEF offset_to_pos
<1>. HIDE DEF enough, P
<1>. QED
  BY <1>1, <1>6, <1>9, <1>10 DEF k

-----------------------------------------------------------------------------
(* Packed arrays.                                                          *)

\* An element put into a sequence, and one taken out of it.
LEMMA Inserted ==
  ASSUME NEW S, NEW s \in Seq(S), NEW n \in 1 .. Len(s) + 1, NEW e \in S
  PROVE  /\ InsertAt(s, n, e) \in Seq(S) /\ Len(InsertAt(s, n, e)) = Len(s) + 1
         /\ \A m \in 1 .. Len(s) + 1 :
              InsertAt(s, n, e)[m] = IF m < n THEN s[m] ELSE IF m = n THEN e ELSE s[m - 1]
<1>. DEFINE a == SubSeq(s, 1, n - 1)
            b == SubSeq(s, n, Len(s))
            ae == a \o <<e>>
<1>1. Len(s) \in Nat /\ \A m \in 1 .. Len(s) : s[m] \in S
  BY LenProperties, ElementOfSeq
<1>2. a \in Seq(S) /\ Len(a) = n - 1 /\ \A m \in 1 .. n - 1 : a[m] = s[m]
  <2>1. /\ a \in Seq(S) /\ Len(a) = IF 1 <= n - 1 THEN n - 1 - 1 + 1 ELSE 0
        /\ \A m \in 1 .. n - 1 - 1 + 1 : a[m] = s[1 + m - 1]
    BY <1>1, SubSeqProperties
  <2>. HIDE DEF a
  <2>. QED
    BY <1>1, <2>1
<1>3. /\ b \in Seq(S) /\ Len(b) = Len(s) - n + 1
      /\ \A m \in 1 .. Len(s) - n + 1 : b[m] = s[n + m - 1]
  <2>1. /\ b \in Seq(S) /\ Len(b) = IF n <= Len(s) THEN Len(s) - n + 1 ELSE 0
        /\ \A m \in 1 .. Len(s) - n + 1 : b[m] = s[n + m - 1]
    BY <1>1, SubSeqProperties
  <2>. HIDE DEF b
  <2>. QED
    BY <1>1, <2>1
<1>4. <<e>> \in Seq(S) /\ Len(<<e>>) = 1 /\ <<e>>[1] = e
  OBVIOUS
<1>. HIDE DEF a, b
<1>5. /\ ae \in Seq(S) /\ Len(ae) = n
      /\ \A m \in 1 .. n : ae[m] = IF m < n THEN s[m] ELSE e
  <2>1. /\ ae \in Seq(S) /\ Len(ae) = Len(a) + Len(<<e>>)
        /\ \A m \in 1 .. Len(a) + Len(<<e>>) : ae[m] = IF m <= Len(a) THEN a[m]
                                                      ELSE <<e>>[m - Len(a)]
    BY <1>2, <1>4, ConcatProperties
  <2>. HIDE DEF ae
  <2>. QED
    BY <1>1, <1>2, <1>4, <2>1
<1>. HIDE DEF ae
<1>6. /\ ae \o b \in Seq(S) /\ Len(ae \o b) = Len(ae) + Len(b)
      /\ \A m \in 1 .. Len(ae) + Len(b) : (ae \o b)[m] = IF m <= Len(ae) THEN ae[m]
                                                         ELSE b[m - Len(ae)]
  BY <1>3, <1>5, ConcatProperties
<1>7. InsertAt(s, n, e) = ae \o b
  BY DEF InsertAt, ae, a, b
<1>. DEFINE c == ae \o b
<1>8. c \in Seq(S) /\ Len(c) = Len(s) + 1
  BY <1>1, <1>3, <1>5, <1>6
<1>9. ASSUME NEW m \in 1 .. Len(s) + 1
      PROVE  c[m] = IF m < n THEN s[m] ELSE IF m = n THEN e ELSE s[m - 1]
  <2>1. m \in 1 .. Len(ae) + Len(b) /\ m \in Nat /\ n \in Nat
    BY <1>1, <1>3, <1>5
  <2>2. c[m] = IF m <= n THEN ae[m] ELSE b[m - n]
    BY <1>5, <1>6, <2>1
  <2>. HIDE DEF c
  <2>3. CASE m <= n
    <3>1. m \in 1 .. n
      BY <2>1, <2>3
    <3>. QED
      BY <1>5, <2>1, <2>2, <2>3, <3>1
  <2>4. CASE n < m
    <3>1. m - n \in 1 .. Len(s) - n + 1 /\ n + (m - n) - 1 = m - 1
      BY <1>1, <2>1, <2>4
    <3>2. b[m - n] = s[m - 1]
      BY <1>3, <3>1
    <3>. QED
      BY <2>1, <2>2, <2>4, <3>2
  <2>. QED
    BY <2>1, <2>3, <2>4
<1>. HIDE DEF c
<1>10. InsertAt(s, n, e) = c
  BY <1>7 DEF c
<1>. QED
  BY <1>8, <1>9, <1>10

\* RemoveAt closes the gap.
LEMMA Removed ==
  ASSUME NEW S, NEW s \in Seq(S), NEW n \in 1 .. Len(s)
  PROVE  /\ RemoveAt(s, n) \in Seq(S) /\ Len(RemoveAt(s, n)) = Len(s) - 1
         /\ \A m \in 1 .. Len(s) - 1 :
              RemoveAt(s, n)[m] = IF m < n THEN s[m] ELSE s[m + 1]
<1>. DEFINE a == SubSeq(s, 1, n - 1)
            b == SubSeq(s, n + 1, Len(s))
<1>1. Len(s) \in Nat /\ \A m \in 1 .. Len(s) : s[m] \in S
  BY LenProperties, ElementOfSeq
<1>2. a \in Seq(S) /\ Len(a) = n - 1 /\ \A m \in 1 .. n - 1 : a[m] = s[m]
  <2>1. /\ a \in Seq(S) /\ Len(a) = IF 1 <= n - 1 THEN n - 1 - 1 + 1 ELSE 0
        /\ \A m \in 1 .. n - 1 - 1 + 1 : a[m] = s[1 + m - 1]
    BY <1>1, SubSeqProperties
  <2>. HIDE DEF a
  <2>. QED
    BY <1>1, <2>1
<1>3. /\ b \in Seq(S) /\ Len(b) = Len(s) - n
      /\ \A m \in 1 .. Len(s) - n : b[m] = s[n + m]
  <2>1. /\ b \in Seq(S) /\ Len(b) = IF n + 1 <= Len(s) THEN Len(s) - (n + 1) + 1 ELSE 0
        /\ \A m \in 1 .. Len(s) - (n + 1) + 1 : b[m] = s[n + 1 + m - 1]
    BY <1>1, SubSeqProperties
  <2>. HIDE DEF b
  <2>. QED
    BY <1>1, <2>1
<1>. HIDE DEF a, b
<1>4. /\ a \o b \in Seq(S) /\ Len(a \o b) = Len(a) + Len(b)
      /\ \A m \in 1 .. Len(a) + Len(b) : (a \o b)[m] = IF m <= Len(a) THEN a[m]
                                                       ELSE b[m - Len(a)]
  BY <1>2, <1>3, ConcatProperties
<1>5. RemoveAt(s, n) = a \o b
  BY DEF RemoveAt, a, b
<1>. DEFINE c == a \o b
<1>6. c \in Seq(S) /\ Len(c) = Len(s) - 1
  BY <1>1, <1>2, <1>3, <1>4
<1>7. ASSUME NEW m \in 1 .. Len(s) - 1
      PROVE  c[m] = IF m < n THEN s[m] ELSE s[m + 1]
  <2>1. m \in 1 .. Len(a) + Len(b) /\ m \in Nat /\ n \in Nat
    BY <1>1, <1>2, <1>3
  <2>2. c[m] = IF m <= n - 1 THEN a[m] ELSE b[m - (n - 1)]
    BY <1>2, <1>4, <2>1
  <2>. HIDE DEF c
  <2>3. CASE m < n
    <3>1. m \in 1 .. n - 1 /\ m <= n - 1
      BY <2>1, <2>3
    <3>. QED
      BY <1>2, <2>2, <2>3, <3>1
  <2>4. CASE n <= m
    <3>1. m - (n - 1) \in 1 .. Len(s) - n /\ n + (m - (n - 1)) = m + 1 /\ ~(m <= n - 1)
      BY <1>1, <2>1, <2>4
    <3>2. b[m - (n - 1)] = s[m + 1]
      BY <1>3, <3>1
    <3>. QED
      BY <2>1, <2>2, <2>4, <3>1, <3>2
  <2>. QED
    BY <2>1, <2>3, <2>4
<1>. HIDE DEF c
<1>8. RemoveAt(s, n) = c
  BY <1>5 DEF c
<1>. QED
  BY <1>6, <1>7, <1>8

\* What holds at the beginning of an interval and from each number to the next
\* one holds to its end.
LEMMA Climb ==
  ASSUME NEW a \in Int, NEW b \in Int, NEW Good,
         a \in Good, \A i \in a + 1 .. b : i - 1 \in Good => i \in Good
  PROVE  \A i \in a .. b : i \in Good
<1>. DEFINE Bad == {n \in Nat : a + n <= b /\ a + n \notin Good}
<1>1. Bad = {}
  <2>. SUFFICES ASSUME Bad # {} PROVE FALSE
    OBVIOUS
  <2>1. PICK n \in Bad : \A m \in Bad : n <= m
    <3>1. Bad \in SUBSET Nat
      OBVIOUS
    <3>. HIDE DEF Bad
    <3>. QED
      BY <3>1, LeastNumber
  <2>2. n \in Nat /\ a + n <= b /\ a + n \notin Good
    OBVIOUS
  <2>3. n # 0
    BY <2>2
  <2>4. n - 1 \in Nat /\ ~(n <= n - 1) /\ a + (n - 1) <= b
    BY <2>2, <2>3
  <2>5. a + (n - 1) \in Good
    BY <2>1, <2>4
  <2>6. a + n \in a + 1 .. b /\ (a + n) - 1 = a + (n - 1)
    BY <2>2, <2>3
  <2>. QED
    BY <2>2, <2>5, <2>6
<1>2. ASSUME NEW i \in a .. b PROVE i \in Good
  <2>. DEFINE n == i - a
  <2>1. n \in Nat /\ a + n = i /\ i <= b
    OBVIOUS
  <2>. HIDE DEF n
  <2>2. i \notin Good => n \in Bad
    BY <2>1
  <2>. QED
    BY <1>1, <2>2
<1>. QED
  BY <1>2

\* A recursion over an interval of numbers, from x on by step, has a solution.
Iterations(S, x, step, a, b) ==
  {f \in [a .. b -> S] : f[a] = x /\ \A i \in a + 1 .. b : f[i] = step[i][f[i - 1]]}

\* A recursive function each of whose steps stays in S stays in S.
LEMMA Iterates ==
  ASSUME NEW S, NEW x \in S, NEW a \in Int, NEW b \in Int, a <= b,
         NEW step, \A i \in a + 1 .. b : \A y \in S : step[i][y] \in S
  PROVE  Iterations(S, x, step, a, b) # {}
<1>. DEFINE Runs(f, n) == f[a] = x /\ \A i \in a + 1 .. n : f[i] = step[i][f[i - 1]]
            Good == {n \in a .. b : \E f \in [a .. n -> S] : Runs(f, n)}
<1>1. a \in Good
  <2>. DEFINE g == [i \in a .. a |-> x]
  <2>1. g \in [a .. a -> S] /\ Runs(g, a)
    OBVIOUS
  <2>2. a \in a .. b
    OBVIOUS
  <2>. HIDE DEF g, Runs
  <2>. QED
    BY <2>1, <2>2
<1>2. ASSUME NEW n \in a + 1 .. b, n - 1 \in Good PROVE n \in Good
  <2>1. PICK f \in [a .. n - 1 -> S] : Runs(f, n - 1)
    BY <1>2
  <2>. DEFINE g == [i \in a .. n |-> IF i = n THEN step[n][f[n - 1]] ELSE f[i]]
  <2>2. f[n - 1] \in S /\ step[n][f[n - 1]] \in S
    BY <2>1
  <2>3. g \in [a .. n -> S]
    BY <2>2
  <2>4. g[a] = x
    BY <2>1
  <2>5. ASSUME NEW i \in a + 1 .. n PROVE g[i] = step[i][g[i - 1]]
    <3>1. CASE i = n
      BY <3>1
    <3>2. CASE i # n
      <4>1. i \in a + 1 .. n - 1 /\ i \in a .. n - 1 /\ i - 1 \in a .. n - 1 /\ i - 1 # n
        BY <3>2
      <4>2. g[i] = f[i] /\ g[i - 1] = f[i - 1]
        BY <4>1
      <4>. HIDE DEF g
      <4>. QED
        BY <2>1, <4>1, <4>2
    <3>. QED
      BY <3>1, <3>2
  <2>. HIDE DEF g
  <2>6. Runs(g, n)
    BY <2>4, <2>5
  <2>. HIDE DEF Runs
  <2>7. n \in a .. b
    OBVIOUS
  <2>. QED
    BY <2>3, <2>6, <2>7
<1>. HIDE DEF Good
<1>3. b \in Good
  <2>1. \A i \in a .. b : i \in Good
    BY <1>1, <1>2, Climb
  <2>. QED
    BY <2>1
<1>. QED
  BY <1>3 DEF Good, Iterations

-----------------------------------------------------------------------------
(* Bits set and cleared.                                                   *)

\* bmset and bmclear change one bit.
LEMMA BitChanged ==
  ASSUME NEW bm \in Bitmaps, NEW i \in Positions
  PROVE  /\ bmset(bm, i) \in Bitmaps /\ bmclear(bm, i) \in Bitmaps
         /\ \A j \in Positions : bmtest(bmset(bm, i), j) <=> bmtest(bm, j) \/ j = i
         /\ \A j \in Positions : bmtest(bmclear(bm, i), j) <=> bmtest(bm, j) /\ j # i
<1>1. charbit(i) \in Chars /\ modbit(i) \in Bits
  BY CharsAre
<1>2. ASSUME NEW j \in Positions PROVE charbit(j) \in Chars /\ modbit(j) \in Bits
        /\ (charbit(j) = charbit(i) /\ modbit(j) = modbit(i) <=> j = i)
  BY CharsAre
<1>3. bmset(bm, i) \in Bitmaps /\ bmclear(bm, i) \in Bitmaps
  BY <1>1 DEF bmset, bmclear, Bitmaps
<1>4. ASSUME NEW j \in Positions
      PROVE  /\ bmtest(bmset(bm, i), j) <=> bmtest(bm, j) \/ j = i
             /\ bmtest(bmclear(bm, i), j) <=> bmtest(bm, j) /\ j # i
  <2>1. /\ bmset(bm, i)[charbit(j)] = IF charbit(j) = charbit(i)
                                      THEN bm[charbit(i)] \cup {modbit(i)} ELSE bm[charbit(j)]
        /\ bmclear(bm, i)[charbit(j)] = IF charbit(j) = charbit(i)
                                        THEN bm[charbit(i)] \ {modbit(i)} ELSE bm[charbit(j)]
    BY <1>1, <1>2 DEF bmset, bmclear, Bitmaps
  <2>. QED
    BY <1>1, <1>2, <2>1 DEF bmtest
<1>. QED
  BY <1>3, <1>4

\* Which moves the ranks of the positions behind.
LEMMA RankChanged ==
  ASSUME NEW bm \in Bitmaps, NEW i \in Positions, NEW k \in 0 .. GROUP_SIZE
  PROVE  /\ ~bmtest(bm, i) => Rank(bmset(bm, i), k) = Rank(bm, k) + (IF i < k THEN 1 ELSE 0)
         /\ bmtest(bm, i) => Rank(bmclear(bm, i), k) = Rank(bm, k) - (IF i < k THEN 1 ELSE 0)
<1>1. k \in Nat /\ GROUP_SIZE \in Nat /\ i \in Nat /\ Positions = 0 .. GROUP_SIZE - 1
  BY CharsAre DEF Positions
<1>2. \A j \in 0 .. k - 1 : j \in Positions
  BY <1>1
<1>. DEFINE B == Before(bm, k)
<1>3. IsFiniteSet(B) /\ Cardinality(B) \in Nat /\ Rank(bm, k) = Cardinality(B)
  BY <1>1, RankType DEF Rank
<1>4. Before(bmset(bm, i), k) = IF i < k THEN B \cup {i} ELSE B
  <2>1. \A j \in 0 .. k - 1 : bmtest(bmset(bm, i), j) <=> bmtest(bm, j) \/ j = i
    BY <1>2, BitChanged
  <2>2. \A j \in 0 .. k - 1 : j < k
    BY <1>1
  <2>3. i < k => i \in 0 .. k - 1
    BY <1>1
  <2>. HIDE DEF B
  <2>4. \A j : j \in Before(bmset(bm, i), k) <=>
                 j \in 0 .. k - 1 /\ (bmtest(bm, j) \/ j = i)
    BY <2>1 DEF Before
  <2>5. \A j : j \in B <=> j \in 0 .. k - 1 /\ bmtest(bm, j)
    BY DEF B, Before
  <2>6. CASE i < k
    BY <2>3, <2>4, <2>5, <2>6
  <2>7. CASE ~(i < k)
    <3>1. \A j \in 0 .. k - 1 : j # i
      BY <2>2, <2>7
    <3>. QED
      BY <2>4, <2>5, <2>7, <3>1
  <2>. QED
    BY <2>6, <2>7
<1>5. Before(bmclear(bm, i), k) = B \ {i}
  BY <1>1, <1>2, BitChanged DEF Before
<1>6. i \in B <=> i < k /\ bmtest(bm, i)
  BY <1>1 DEF Before
<1>. HIDE DEF B
<1>7. ASSUME ~bmtest(bm, i)
      PROVE  Rank(bmset(bm, i), k) = Rank(bm, k) + (IF i < k THEN 1 ELSE 0)
  <2>1. Cardinality(B \cup {i}) = Cardinality(B) + 1
    BY <1>3, <1>6, <1>7, FS_AddElement
  <2>. QED
    BY <1>3, <1>4, <2>1 DEF Rank
<1>8. ASSUME bmtest(bm, i)
      PROVE  Rank(bmclear(bm, i), k) = Rank(bm, k) - (IF i < k THEN 1 ELSE 0)
  <2>1. Cardinality(B \ {i}) = IF i \in B THEN Cardinality(B) - 1 ELSE Cardinality(B)
    BY <1>3, FS_RemoveElement
  <2>. QED
    BY <1>3, <1>5, <1>6, <1>8, <2>1 DEF Rank
<1>. QED
  BY <1>7, <1>8

-----------------------------------------------------------------------------
(* Groups.                                                                 *)

\* No bit of the last char is set that is not the bit of a position.
NoStrayBit(bm) == \A c \in Chars : \A b \in bm[c] : CHAR_BIT * c + b \in Positions

\* A group's array has as many elements as its bitmap has bits.
GroupSound(g) ==
  /\ g \in [group : Seq(Val), num_buckets : Nat, bitmap : Bitmaps]
  /\ NoStrayBit(g.bitmap)
  /\ g.num_buckets = Len(g.group)
  /\ g.num_buckets = Rank(g.bitmap, GROUP_SIZE)

\* What is at a position.
Held(g, i) == IF bmtest(g.bitmap, i) THEN group_get(g, i) ELSE UNASSIGNED

\* Where a group keeps the element of a position: at its rank.
LEMMA HeldIs ==
  ASSUME NEW g, GroupSound(g), NEW i \in Positions
  PROVE  LET k == Rank(g.bitmap, i)
         IN  /\ k \in Nat /\ pos_to_offset(g.bitmap, i) = k
             /\ bmtest(g.bitmap, i) => /\ k + 1 \in 1 .. Len(g.group)
                                       /\ Held(g, i) = g.group[k + 1] /\ Held(g, i) \in Val
             /\ Held(g, i) # UNASSIGNED <=> bmtest(g.bitmap, i)
<1>. DEFINE k == Rank(g.bitmap, i)
<1>1. /\ g.bitmap \in Bitmaps /\ g.group \in Seq(Val) /\ Len(g.group) \in Nat
      /\ Len(g.group) = Rank(g.bitmap, GROUP_SIZE)
  BY DEF GroupSound
<1>2. i \in Nat /\ GROUP_SIZE \in Nat /\ i < GROUP_SIZE
  BY CharsAre DEF Positions
<1>3. k \in Nat /\ pos_to_offset(g.bitmap, i) = k
  BY <1>1, <1>2, RankType, OffsetIsRank
<1>4. ASSUME bmtest(g.bitmap, i)
      PROVE  k + 1 \in 1 .. Len(g.group) /\ Held(g, i) = g.group[k + 1] /\ Held(g, i) \in Val
  <2>1. k < Len(g.group)
    BY <1>1, <1>2, <1>4, RankGrows
  <2>2. k + 1 \in 1 .. Len(g.group)
    BY <1>1, <1>3, <2>1
  <2>3. g.group[k + 1] \in Val
    BY <1>1, <2>2, ElementOfSeq
  <2>4. Held(g, i) = g.group[k + 1]
    BY <1>3, <1>4 DEF Held, group_get
  <2>. QED
    BY <2>2, <2>3, <2>4
<1>5. Held(g, i) # UNASSIGNED <=> bmtest(g.bitmap, i)
  BY <1>4, ElementsAssumption DEF Held
<1>. QED
  BY <1>3, <1>4, <1>5

\* bmset and bmclear of a position set no bit behind the last one.
LEMMA StrayChanged ==
  ASSUME NEW bm \in Bitmaps, NoStrayBit(bm), NEW i \in Positions
  PROVE  NoStrayBit(bmset(bm, i)) /\ NoStrayBit(bmclear(bm, i))
<1>1. charbit(i) \in Chars /\ modbit(i) \in Bits /\ i = CHAR_BIT * charbit(i) + modbit(i)
  BY CharsAre
<1>2. ASSUME NEW c \in Chars
      PROVE  /\ bmset(bm, i)[c] = IF c = charbit(i) THEN bm[c] \cup {modbit(i)} ELSE bm[c]
             /\ bmclear(bm, i)[c] = IF c = charbit(i) THEN bm[c] \ {modbit(i)} ELSE bm[c]
  BY <1>1 DEF bmset, bmclear, Bitmaps
<1>. QED
  BY <1>1, <1>2 DEF NoStrayBit

\* A group put together from an array and a bitmap that agree.
LEMMA GroupMade ==
  ASSUME NEW s \in Seq(Val), NEW bm \in Bitmaps, NoStrayBit(bm),
         NEW n, n = Len(s), n = Rank(bm, GROUP_SIZE)
  PROVE  GroupSound([group |-> s, num_buckets |-> n, bitmap |-> bm])
<1>1. n \in Nat
  BY LenProperties
<1>. QED
  BY <1>1 DEF GroupSound

\* Writing an element touches its position and no other, whether it takes the
\* place of another element or the elements behind it move.
LEMMA GroupSet ==
  ASSUME NEW g, GroupSound(g), NEW i \in Positions, NEW v \in Val
  PROVE  LET h == group_set(g, i, v)
         IN  /\ GroupSound(h)
             /\ \A j \in Positions : Held(h, j) = IF j = i THEN v ELSE Held(g, j)
<1>. DEFINE h  == group_set(g, i, v)
            bm == g.bitmap
            o  == Rank(bm, i)
<1>1. /\ bm \in Bitmaps /\ NoStrayBit(bm) /\ g.group \in Seq(Val) /\ Len(g.group) \in Nat
      /\ g.num_buckets = Len(g.group) /\ Len(g.group) = Rank(bm, GROUP_SIZE)
  BY DEF GroupSound
<1>2. i \in Nat /\ GROUP_SIZE \in Nat /\ i < GROUP_SIZE /\ Positions = 0 .. GROUP_SIZE - 1
  BY CharsAre DEF Positions
<1>3. o \in Nat /\ pos_to_offset(bm, i) = o /\ \A j \in Nat : Rank(bm, j) \in Nat
  BY <1>1, <1>2, RankType, HeldIs
<1>4. CASE bmtest(bm, i)
  <2>1. o + 1 \in 1 .. Len(g.group)
    BY <1>4, HeldIs
  <2>2. h = [g EXCEPT !.group[o + 1] = v]
    BY <1>3, <1>4 DEF group_set
  <2>. DEFINE s == [g.group EXCEPT ![o + 1] = v]
  <2>3. /\ s \in Seq(Val) /\ Len(s) = Len(g.group)
        /\ \A m \in 1 .. Len(g.group) : s[m] = IF m = o + 1 THEN v ELSE g.group[m]
    <3>. DEFINE t == g.group
                n == o + 1
    <3>1. t \in Seq(Val) /\ n \in 1 .. Len(t)
      BY <1>1, <2>1
    <3>. HIDE DEF t, n
    <3>2. /\ [t EXCEPT ![n] = v] \in Seq(Val) /\ Len([t EXCEPT ![n] = v]) = Len(t)
          /\ \A m \in 1 .. Len(t) : [t EXCEPT ![n] = v][m] = IF m = n THEN v ELSE t[m]
      BY <3>1, ExceptSeq
    <3>. QED
      BY <3>2 DEF t, n
  <2>10. g = [group |-> g.group, num_buckets |-> g.num_buckets, bitmap |-> bm]
    BY DEF GroupSound
  <2>11. h = [group |-> s, num_buckets |-> g.num_buckets, bitmap |-> bm]
    BY <2>2, <2>10
  <2>12. h.group = s /\ h.bitmap = bm
    BY <2>11
  <2>4. GroupSound(h)
    BY <1>1, <2>3, <2>11, GroupMade
  <2>. HIDE DEF h, s
  <2>5. ASSUME NEW j \in Positions PROVE Held(h, j) = IF j = i THEN v ELSE Held(g, j)
    <3>1. CASE ~bmtest(bm, j)
      BY <1>4, <2>12, <3>1 DEF Held
    <3>2. CASE bmtest(bm, j)
      <4>. DEFINE k == Rank(bm, j)
      <4>1. j \in Nat /\ k \in Nat
        BY <1>2, <1>3
      <4>2. k + 1 \in 1 .. Len(g.group) /\ Held(g, j) = g.group[k + 1]
        BY <3>2, HeldIs
      <4>3. Held(h, j) = h.group[k + 1]
        BY <2>12, <2>4, <3>2, HeldIs
      <4>4. j # i => k # o
        BY <1>2, <1>3, <1>4, <3>2, <4>1, RankGrows
      <4>. HIDE DEF k, o
      <4>5. h.group[k + 1] = IF k + 1 = o + 1 THEN v ELSE g.group[k + 1]
        BY <2>3, <2>12, <4>2
      <4>6. j = i => k = o
        BY DEF k, o
      <4>7. k + 1 = o + 1 <=> j = i
        BY <1>3, <4>1, <4>4, <4>6
      <4>. QED
        BY <4>2, <4>3, <4>5, <4>7
    <3>. QED
      BY <3>1, <3>2
  <2>. QED
    BY <2>4, <2>5 DEF h
<1>5. CASE ~bmtest(bm, i)
  <2>. DEFINE cm == bmset(bm, i)
  <2>1. o <= Len(g.group)
    <3>1. i <= GROUP_SIZE
      BY <1>2
    <3>2. Rank(bm, i) <= Rank(bm, GROUP_SIZE)
      BY <1>2, <3>1, RankGrows
    <3>. QED
      BY <1>1, <3>2
  <2>2. o + 1 \in 1 .. Len(g.group) + 1
    <3>. HIDE DEF o
    <3>. QED
      BY <1>1, <1>3, <2>1
  <2>3. h = [group |-> InsertAt(g.group, o + 1, v), num_buckets |-> g.num_buckets + 1,
             bitmap |-> cm]
    BY <1>3, <1>5 DEF group_set, set_aux
  <2>4. /\ InsertAt(g.group, o + 1, v) \in Seq(Val)
        /\ Len(InsertAt(g.group, o + 1, v)) = Len(g.group) + 1
        /\ \A m \in 1 .. Len(g.group) + 1 :
             InsertAt(g.group, o + 1, v)[m] =
               IF m < o + 1 THEN g.group[m] ELSE IF m = o + 1 THEN v ELSE g.group[m - 1]
    <3>. DEFINE s == g.group
                n == o + 1
    <3>1. s \in Seq(Val) /\ n \in 1 .. Len(s) + 1
      BY <1>1, <2>2
    <3>. HIDE DEF s, n
    <3>2. /\ InsertAt(s, n, v) \in Seq(Val) /\ Len(InsertAt(s, n, v)) = Len(s) + 1
          /\ \A m \in 1 .. Len(s) + 1 :
               InsertAt(s, n, v)[m] = IF m < n THEN s[m] ELSE IF m = n THEN v ELSE s[m - 1]
      BY <3>1, Inserted
    <3>. QED
      BY <3>2 DEF s, n
  <2>5. /\ cm \in Bitmaps /\ NoStrayBit(cm)
        /\ \A j \in Positions : bmtest(cm, j) <=> bmtest(bm, j) \/ j = i
    BY <1>1, BitChanged, StrayChanged
  <2>6. \A k \in 0 .. GROUP_SIZE : Rank(cm, k) = Rank(bm, k) + (IF i < k THEN 1 ELSE 0)
    BY <1>1, <1>5, RankChanged
  <2>. HIDE DEF cm
  <2>7. h.group = InsertAt(g.group, o + 1, v) /\ h.bitmap = cm
    BY <2>3
  <2>8. GroupSound(h)
    <3>1. Rank(cm, GROUP_SIZE) = Len(g.group) + 1
      BY <1>1, <1>2, <2>6
    <3>. DEFINE s == InsertAt(g.group, o + 1, v)
    <3>2. s \in Seq(Val) /\ Len(s) = g.num_buckets + 1 /\ Len(s) = Rank(cm, GROUP_SIZE)
      BY <1>1, <2>4, <3>1
    <3>3. h = [group |-> s, num_buckets |-> Len(s), bitmap |-> cm]
      BY <2>3, <3>2
    <3>. HIDE DEF s, h
    <3>. QED
      BY <2>5, <3>2, <3>3, GroupMade
  <2>. HIDE DEF h
  <2>9. ASSUME NEW j \in Positions PROVE Held(h, j) = IF j = i THEN v ELSE Held(g, j)
    <3>. DEFINE k == Rank(bm, j)
    <3>1. j \in Nat /\ k \in Nat /\ j \in 0 .. GROUP_SIZE
      BY <1>2, <1>3
    <3>2. CASE j # i /\ ~bmtest(bm, j)
      BY <2>5, <2>7, <3>2 DEF Held
    <3>3. CASE j = i
      <4>1. Held(h, j) = h.group[Rank(cm, i) + 1]
        BY <2>5, <2>7, <2>8, <3>3, HeldIs
      <4>2. Rank(cm, i) = o
        BY <1>2, <1>3, <2>6
      <4>. HIDE DEF o
      <4>3. h.group[o + 1] = v
        <5>1. ~(o + 1 < o + 1) /\ o + 1 \in 1 .. Len(g.group) + 1
          BY <1>3, <2>2
        <5>. QED
          BY <2>4, <2>7, <5>1
      <4>. QED
        BY <3>3, <4>1, <4>2, <4>3
    <3>4. CASE j < i /\ bmtest(bm, j)
      <4>1. k < o
        BY <1>2, <3>1, <3>4, RankGrows
      <4>2. Rank(cm, j) = k
        BY <1>2, <2>6, <3>1, <3>4
      <4>3. Held(h, j) = h.group[k + 1]
        BY <2>5, <2>7, <2>8, <3>4, <4>2, HeldIs
      <4>4. Held(g, j) = g.group[k + 1] /\ k + 1 \in 1 .. Len(g.group)
        BY <3>4, HeldIs
      <4>. HIDE DEF k, o
      <4>5. k + 1 \in 1 .. Len(g.group) + 1 /\ k + 1 < o + 1
        BY <1>1, <1>3, <3>1, <4>1, <4>4
      <4>. QED
        BY <1>2, <2>4, <2>7, <3>1, <3>4, <4>3, <4>4, <4>5
    <3>5. CASE i < j /\ bmtest(bm, j)
      <4>1. o <= k
        BY <1>2, <3>1, <3>5, RankGrows
      <4>2. Rank(cm, j) = k + 1
        BY <1>2, <2>6, <3>1, <3>5
      <4>3. Held(h, j) = h.group[k + 1 + 1]
        BY <2>5, <2>7, <2>8, <3>5, <4>2, HeldIs
      <4>4. Held(g, j) = g.group[k + 1] /\ k + 1 \in 1 .. Len(g.group)
        BY <3>5, HeldIs
      <4>. HIDE DEF k, o
      <4>5. k + 1 + 1 \in 1 .. Len(g.group) + 1 /\ ~(k + 1 + 1 < o + 1)
            /\ k + 1 + 1 # o + 1 /\ k + 1 + 1 - 1 = k + 1
        BY <1>1, <1>3, <3>1, <4>1, <4>4
      <4>. QED
        BY <1>2, <2>4, <2>7, <3>1, <3>5, <4>3, <4>4, <4>5
    <3>. QED
      BY <1>2, <3>1, <3>2, <3>3, <3>4, <3>5
  <2>. QED
    BY <2>8, <2>9 DEF h
<1>. QED
  BY <1>4, <1>5

\* Filling an element in touches it if it is not assigned, and no other.
LEMMA GroupTouched ==
  ASSUME NEW g, GroupSound(g), NEW i \in Positions
  PROVE  LET h == group_mutating_get(g, i)
         IN  /\ GroupSound(h)
             /\ \A j \in Positions :
                  Held(h, j) = IF j = i /\ Held(g, i) = UNASSIGNED THEN default_value
                                                                  ELSE Held(g, j)
<1>1. default_value \in Val
  BY ElementsAssumption
<1>2. CASE bmtest(g.bitmap, i)
  BY <1>2, HeldIs DEF group_mutating_get
<1>3. CASE ~bmtest(g.bitmap, i)
  BY <1>1, <1>3, GroupSet, HeldIs DEF group_mutating_get
<1>. QED
  BY <1>2, <1>3

\* An empty group.
LEMMA EmptyGroup ==
  ASSUME NEW g, g.group = <<>>, g.num_buckets = 0, g.bitmap = [c \in Chars |-> {}],
         g = [group |-> g.group, num_buckets |-> g.num_buckets, bitmap |-> g.bitmap]
  PROVE  GroupSound(g) /\ \A j \in Positions : Held(g, j) = UNASSIGNED
<1>1. \A j \in Positions : charbit(j) \in Chars
  BY CharsAre
<1>2. \A j \in Positions : ~bmtest(g.bitmap, j)
  BY <1>1 DEF bmtest
<1>3. g \in [group : Seq(Val), num_buckets : Nat, bitmap : Bitmaps]
  <2>1. <<>> \in Seq(Val) /\ 0 \in Nat /\ [c \in Chars |-> {}] \in Bitmaps
    BY DEF Bitmaps
  <2>. QED
    BY <2>1
<1>4. Rank(g.bitmap, GROUP_SIZE) = 0
  <2>1. Before(g.bitmap, GROUP_SIZE) = {}
    BY <1>2 DEF Before, Positions
  <2>. QED
    BY <2>1, FS_EmptySet DEF Rank
<1>. QED
  BY <1>2, <1>3, <1>4 DEF GroupSound, Held, NoStrayBit

\* Erasing an element unassigns it and touches no other: those behind it move.
LEMMA GroupErased ==
  ASSUME NEW g, GroupSound(g), NEW i \in Positions
  PROVE  LET h == group_erase(g, i)
         IN  /\ GroupSound(h)
             /\ \A j \in Positions : Held(h, j) = IF j = i THEN UNASSIGNED ELSE Held(g, j)
<1>. DEFINE h  == group_erase(g, i)
            bm == g.bitmap
            o  == Rank(bm, i)
            cm == bmclear(bm, i)
<1>1. /\ bm \in Bitmaps /\ NoStrayBit(bm) /\ g.group \in Seq(Val) /\ Len(g.group) \in Nat
      /\ g.num_buckets = Len(g.group) /\ Len(g.group) = Rank(bm, GROUP_SIZE)
  BY DEF GroupSound
<1>2. i \in Nat /\ GROUP_SIZE \in Nat /\ i < GROUP_SIZE /\ Positions = 0 .. GROUP_SIZE - 1
  BY CharsAre DEF Positions
<1>3. o \in Nat /\ pos_to_offset(bm, i) = o /\ \A j \in Nat : Rank(bm, j) \in Nat
  BY <1>1, <1>2, RankType, HeldIs
<1>4. CASE ~bmtest(bm, i)
  <2>1. h = g /\ Held(g, i) = UNASSIGNED
    BY <1>4, HeldIs DEF group_erase
  <2>. QED
    BY <2>1
<1>5. CASE bmtest(bm, i)
  <2>. DEFINE array == IF g.num_buckets = 1 THEN <<>> ELSE RemoveAt(g.group, o + 1)
  <2>1. o + 1 \in 1 .. Len(g.group)
    BY <1>5, HeldIs
  <2>2. h = [group |-> array, num_buckets |-> g.num_buckets - 1, bitmap |-> cm]
    BY <1>3, <1>5 DEF group_erase, erase_aux
  <2>3. /\ array \in Seq(Val) /\ Len(array) = Len(g.group) - 1
        /\ \A m \in 1 .. Len(g.group) - 1 :
             array[m] = IF m < o + 1 THEN g.group[m] ELSE g.group[m + 1]
    <3>1. CASE g.num_buckets = 1
      <4>1. array = <<>> /\ Len(g.group) - 1 = 0 /\ 1 .. 0 = {}
        BY <1>1, <3>1
      <4>2. <<>> \in Seq(Val) /\ Len(<<>>) = 0
        OBVIOUS
      <4>. HIDE DEF array
      <4>. QED
        BY <4>1, <4>2
    <3>2. CASE g.num_buckets # 1
      <4>. DEFINE s == g.group
                  n == o + 1
      <4>1. array = RemoveAt(s, n) /\ s \in Seq(Val) /\ n \in 1 .. Len(s)
        BY <1>1, <2>1, <3>2
      <4>. HIDE DEF array, s, n
      <4>2. /\ RemoveAt(s, n) \in Seq(Val) /\ Len(RemoveAt(s, n)) = Len(s) - 1
            /\ \A m \in 1 .. Len(s) - 1 :
                 RemoveAt(s, n)[m] = IF m < n THEN s[m] ELSE s[m + 1]
        BY <4>1, Removed
      <4>. QED
        BY <4>1, <4>2 DEF s, n
    <3>. QED
      BY <3>1, <3>2
  <2>5. /\ cm \in Bitmaps /\ NoStrayBit(cm)
        /\ \A j \in Positions : bmtest(cm, j) <=> bmtest(bm, j) /\ j # i
    BY <1>1, BitChanged, StrayChanged
  <2>6. \A k \in 0 .. GROUP_SIZE : Rank(cm, k) = Rank(bm, k) - (IF i < k THEN 1 ELSE 0)
    BY <1>1, <1>5, RankChanged
  <2>. HIDE DEF cm, array
  <2>7. h.group = array /\ h.bitmap = cm
    BY <2>2
  <2>8. GroupSound(h)
    <3>1. Rank(cm, GROUP_SIZE) = Len(g.group) - 1
      BY <1>1, <1>2, <2>6
    <3>2. array \in Seq(Val) /\ Len(array) = g.num_buckets - 1 /\ Len(array) = Rank(cm, GROUP_SIZE)
      BY <1>1, <2>3, <3>1
    <3>3. h = [group |-> array, num_buckets |-> Len(array), bitmap |-> cm]
      BY <2>2, <3>2
    <3>. HIDE DEF h
    <3>. QED
      BY <2>5, <3>2, <3>3, GroupMade
  <2>. HIDE DEF h
  <2>9. ASSUME NEW j \in Positions
        PROVE  Held(h, j) = IF j = i THEN UNASSIGNED ELSE Held(g, j)
    <3>. DEFINE k == Rank(bm, j)
    <3>1. j \in Nat /\ k \in Nat /\ j \in 0 .. GROUP_SIZE
      BY <1>2, <1>3
    <3>2. CASE j = i \/ ~bmtest(bm, j)
      BY <2>5, <2>7, <3>2 DEF Held
    <3>3. CASE j < i /\ bmtest(bm, j)
      <4>1. k < o
        BY <1>2, <3>1, <3>3, RankGrows
      <4>2. Rank(cm, j) = k
        BY <1>2, <2>6, <3>1, <3>3
      <4>3. Held(h, j) = h.group[k + 1] /\ k + 1 \in 1 .. Len(h.group)
        BY <1>2, <2>5, <2>7, <2>8, <3>1, <3>3, <4>2, HeldIs
      <4>4. Held(g, j) = g.group[k + 1]
        BY <3>3, HeldIs
      <4>. HIDE DEF k, o
      <4>5. k + 1 \in 1 .. Len(g.group) - 1 /\ k + 1 < o + 1
        BY <1>1, <1>3, <2>3, <2>7, <3>1, <4>1, <4>3
      <4>. QED
        BY <1>2, <2>3, <2>7, <3>1, <3>3, <4>3, <4>4, <4>5
    <3>4. CASE i < j /\ bmtest(bm, j)
      <4>1. o < k
        BY <1>2, <1>5, <3>1, <3>4, RankGrows
      <4>2. Rank(cm, j) = k - 1
        BY <1>2, <2>6, <3>1, <3>4
      <4>3. Held(h, j) = h.group[k - 1 + 1] /\ k - 1 + 1 \in 1 .. Len(h.group)
        BY <1>2, <2>5, <2>7, <2>8, <3>1, <3>4, <4>2, HeldIs
      <4>4. Held(g, j) = g.group[k + 1]
        BY <3>4, HeldIs
      <4>. HIDE DEF k, o
      <4>5. k - 1 + 1 = k /\ k \in 1 .. Len(g.group) - 1 /\ ~(k < o + 1)
        BY <1>1, <1>3, <2>3, <2>7, <3>1, <4>1, <4>3
      <4>. QED
        BY <1>2, <2>3, <2>7, <3>1, <3>4, <4>3, <4>4, <4>5
    <3>. QED
      BY <1>2, <3>1, <3>2, <3>3, <3>4
  <2>. QED
    BY <2>8, <2>9 DEF h
<1>. QED
  BY <1>4, <1>5

\* A copy is the group over again.
LEMMA GroupCopied ==
  ASSUME NEW g, GroupSound(g)
  PROVE  group_copy(g) = g
<1>1. g.group \in Seq(Val) /\ g.num_buckets = Len(g.group)
  BY DEF GroupSound
<1>2. SubSeq(g.group, 1, Len(g.group)) = g.group
  BY <1>1, SubSeqFull
<1>3. g = [g EXCEPT !.group = g.group]
  BY DEF GroupSound
<1>. QED
  BY <1>1, <1>2, <1>3 DEF group_copy

\* Erasing the tail of a group unassigns what is there, and nothing else.
LEMMA GroupCut ==
  ASSUME NEW g, GroupSound(g), NEW first \in Positions
  PROVE  LET h == group_erase_from(g, first)
         IN  /\ GroupSound(h)
             /\ \A j \in Positions : Held(h, j) = IF first <= j THEN UNASSIGNED ELSE Held(g, j)
<1>. DEFINE S == {h \in [group : Seq(Val), num_buckets : Nat, bitmap : Bitmaps] : GroupSound(h)}
            last == GROUP_SIZE - 1
            step == [i \in first .. last |-> [h \in S |-> group_erase(h, i)]]
            Solves(f) == f = [i \in first - 1 .. last |->
                                IF i < first THEN g ELSE group_erase(f[i - 1], i)]
            Cut(h, i) == /\ GroupSound(h)
                         /\ \A j \in Positions : Held(h, j) = IF first <= j /\ j <= i
                                                              THEN UNASSIGNED ELSE Held(g, j)
<1>1. /\ first \in Nat /\ last \in Nat /\ first <= last /\ Positions = 0 .. last
      /\ (first - 1) + 1 = first /\ first - 1 \in Int
  BY CharsAre DEF Positions
<1>2. \A h : GroupSound(h) <=> h \in S
  BY DEF GroupSound
<1>. HIDE DEF S, last
<1>3. \A i \in first .. last : \A h \in S : group_erase(h, i) \in S
  BY <1>1, <1>2, GroupErased
<1>4. \A i \in (first - 1) + 1 .. last : \A y \in S : step[i][y] \in S
  BY <1>1, <1>3
<1>5. g \in S
  BY <1>2
<1>6. PICK f \in [first - 1 .. last -> S] :
        f[first - 1] = g /\ \A i \in (first - 1) + 1 .. last : f[i] = step[i][f[i - 1]]
  <2>. DEFINE a == first - 1
  <2>1. /\ a \in Int /\ last \in Int /\ a <= last
        /\ \A i \in a + 1 .. last : \A y \in S : step[i][y] \in S
    BY <1>1, <1>4
  <2>. HIDE DEF step, a
  <2>2. Iterations(S, g, step, a, last) # {}
    BY <1>5, <2>1, Iterates
  <2>. QED
    BY <2>2 DEF a, Iterations
<1>7. Solves(f)
  <2>1. ASSUME NEW i \in first - 1 .. last
        PROVE  f[i] = IF i < first THEN g ELSE group_erase(f[i - 1], i)
    <3>1. CASE i < first
      BY <1>1, <1>6, <3>1
    <3>2. CASE ~(i < first)
      <4>1. i \in first .. last /\ i - 1 \in first - 1 .. last /\ i \in (first - 1) + 1 .. last
        BY <1>1, <3>2
      <4>2. f[i] = step[i][f[i - 1]] /\ f[i - 1] \in S
        BY <1>6, <4>1
      <4>. QED
        BY <3>2, <4>1, <4>2
    <3>. QED
      BY <3>1, <3>2
  <2>. QED
    BY <1>6, <2>1
<1>. HIDE DEF step
<1>. DEFINE upto == CHOOSE u : Solves(u)
<1>8. Solves(upto)
  BY <1>7
<1>. HIDE DEF upto
<1>9. /\ upto[first - 1] = g
      /\ \A i \in first .. last : upto[i] = group_erase(upto[i - 1], i)
  BY <1>1, <1>8
<1>. HIDE DEF Solves
<1>. DEFINE Good == {i \in first - 1 .. last : Cut(upto[i], i)}
<1>10. first - 1 \in Good
  BY <1>1, <1>9
<1>11. ASSUME NEW i \in first .. last, i - 1 \in Good PROVE i \in Good
  <2>. DEFINE h == upto[i - 1]
  <2>1. upto[i] = group_erase(h, i) /\ i \in Positions /\ i \in Int
    BY <1>1, <1>9
  <2>2. Cut(h, i - 1)
    BY <1>11
  <2>. HIDE DEF h
  <2>3. /\ GroupSound(upto[i])
        /\ \A j \in Positions : Held(upto[i], j) = IF j = i THEN UNASSIGNED ELSE Held(h, j)
    BY <2>1, <2>2, GroupErased
  <2>4. \A j \in Positions : j \in Int
    BY <1>1
  <2>5. \A j \in Positions : Held(upto[i], j) = IF first <= j /\ j <= i
                                                THEN UNASSIGNED ELSE Held(g, j)
    BY <1>1, <2>1, <2>2, <2>3, <2>4
  <2>6. i \in first - 1 .. last
    BY <1>1
  <2>. QED
    BY <2>3, <2>5, <2>6
<1>. HIDE DEF Good
<1>12. last \in Good
  <2>1. \A i \in (first - 1) + 1 .. last : i - 1 \in Good => i \in Good
    BY <1>1, <1>11
  <2>2. \A i \in first - 1 .. last : i \in Good
    BY <1>1, <1>10, <2>1, Climb
  <2>. QED
    BY <1>1, <2>2
<1>13. Cut(upto[last], last)
  BY <1>12 DEF Good
<1>14. group_erase_from(g, first) = upto[last]
  BY DEF group_erase_from, upto, Solves, last
<1>. QED
  BY <1>1, <1>13, <1>14

-----------------------------------------------------------------------------
(* Tables.                                                                 *)

Groups == {g \in [group : Seq(Val), num_buckets : Nat, bitmap : Bitmaps] : GroupSound(g)}

\* A table has the groups its size asks for, and in the last one nothing is
\* assigned behind the end of the table.
ShapeSound(t) ==
  /\ t = [groups |-> t.groups, table_size |-> t.table_size, num_buckets |-> t.num_buckets]
  /\ t.table_size \in Nat
  /\ t.groups \in [1 .. num_groups(t.table_size) -> Groups]
  /\ \A n \in DOMAIN t.groups : \A p \in Positions :
       bmtest(t.groups[n].bitmap, p) => GROUP_SIZE * (n - 1) + p < t.table_size

Assigned(t)      == {i \in Locations(t) : test(t, i)}
AssignedIn(t, n) == {i \in Assigned(t) : group_num(i) = n}

TableSound(t) == ShapeSound(t) /\ t.num_buckets = Cardinality(Assigned(t))

\* The groups of a sound table are the sound ones.
LEMMA SoundGroups ==
  ASSUME NEW g
  PROVE  g \in Groups <=> GroupSound(g)
BY DEF Groups, GroupSound

\* num_groups is the least number of groups with room for n elements.
LEMMA NumGroups ==
  ASSUME NEW n \in Nat
  PROVE  /\ num_groups(n) \in Nat /\ n <= GROUP_SIZE * num_groups(n)
         /\ \A m \in Nat : n <= GROUP_SIZE * m => num_groups(n) <= m
<1>1. GROUP_SIZE \in Nat \ {0}
  BY CharsAre
<1>2. CASE n = 0
  <2>1. num_groups(n) = 0 /\ GROUP_SIZE * 0 = 0
    BY <1>1, <1>2 DEF num_groups
  <2>. QED
    BY <1>2, <2>1
<1>3. CASE n # 0
  <2>. DEFINE q == (n - 1) \div GROUP_SIZE
              r == (n - 1) % GROUP_SIZE
  <2>1. n - 1 \in Nat
    BY <1>3
  <2>2. n - 1 = GROUP_SIZE * q + r /\ q \in Nat /\ r \in 0 .. GROUP_SIZE - 1
    BY <1>1, <2>1, Cells
  <2>3. num_groups(n) = q + 1
    BY <1>3 DEF num_groups
  <2>. HIDE DEF q, r
  <2>4. GROUP_SIZE * (q + 1) = GROUP_SIZE * q + GROUP_SIZE /\ GROUP_SIZE * q \in Nat
    BY <1>1, <2>2, Times
  <2>5. n <= GROUP_SIZE * (q + 1)
    BY <1>1, <2>2, <2>4
  <2>6. ASSUME NEW m \in Nat, n <= GROUP_SIZE * m PROVE q + 1 <= m
    <3>. SUFFICES ASSUME m <= q PROVE FALSE
      BY <2>2
    <3>1. GROUP_SIZE * m <= GROUP_SIZE * q /\ GROUP_SIZE * m \in Nat
      BY <1>1, <2>2, Times
    <3>. QED
      BY <1>1, <2>2, <2>4, <2>6, <3>1
  <2>. QED
    BY <2>2, <2>3, <2>5, <2>6
<1>. QED
  BY <1>2, <1>3

\* Every location is a position in one group, and back.
LEMMA Located ==
  ASSUME NEW i \in Nat
  PROVE  /\ group_num(i) \in Nat \ {0} /\ pos_in_group(i) \in Positions
         /\ i = GROUP_SIZE * (group_num(i) - 1) + pos_in_group(i)
         /\ \A n \in Nat : i < n => group_num(i) <= num_groups(n)
<1>1. GROUP_SIZE \in Nat \ {0}
  BY CharsAre
<1>. DEFINE q == i \div GROUP_SIZE
            r == i % GROUP_SIZE
<1>2. i = GROUP_SIZE * q + r /\ q \in Nat /\ r \in 0 .. GROUP_SIZE - 1
  BY <1>1, Cells
<1>3. group_num(i) = q + 1 /\ pos_in_group(i) = r
  BY DEF group_num, pos_in_group
<1>. HIDE DEF q, r
<1>4. ASSUME NEW n \in Nat, i < n PROVE q + 1 <= num_groups(n)
  <2>1. num_groups(n) \in Nat /\ n <= GROUP_SIZE * num_groups(n)
    BY NumGroups
  <2>. SUFFICES ASSUME num_groups(n) <= q PROVE FALSE
    BY <1>2, <2>1
  <2>2. /\ GROUP_SIZE * num_groups(n) <= GROUP_SIZE * q
        /\ GROUP_SIZE * num_groups(n) \in Nat /\ GROUP_SIZE * q \in Nat
    BY <1>1, <1>2, <2>1, Times
  <2>. QED
    BY <1>2, <1>4, <2>1, <2>2
<1>. QED
  BY <1>2, <1>3, <1>4 DEF Positions

\* The location at a position of a group.
LEMMA LocationOf ==
  ASSUME NEW n \in Nat \ {0}, NEW p \in Positions
  PROVE  LET i == GROUP_SIZE * (n - 1) + p
         IN  i \in Nat /\ group_num(i) = n /\ pos_in_group(i) = p
<1>1. GROUP_SIZE \in Nat \ {0} /\ n - 1 \in Nat /\ p \in 0 .. GROUP_SIZE - 1
  BY CharsAre DEF Positions
<1>2. LET i == GROUP_SIZE * (n - 1) + p
      IN  i \in Nat /\ i \div GROUP_SIZE = n - 1 /\ i % GROUP_SIZE = p
  BY <1>1, Cell
<1>. QED
  BY <1>2 DEF group_num, pos_in_group

\* The locations of a table and their groups.
LEMMA GroupOf ==
  ASSUME NEW t, ShapeSound(t), NEW i \in Locations(t)
  PROVE  /\ i \in Nat /\ i < t.table_size
         /\ group_num(i) \in DOMAIN t.groups /\ pos_in_group(i) \in Positions
         /\ GroupSound(which_group(t, i))
<1>1. i \in Nat /\ i < t.table_size /\ t.table_size \in Nat
  BY DEF Locations, ShapeSound
<1>2. DOMAIN t.groups = 1 .. num_groups(t.table_size) /\ num_groups(t.table_size) \in Nat
  BY <1>1, NumGroups DEF ShapeSound
<1>3. group_num(i) \in DOMAIN t.groups /\ pos_in_group(i) \in Positions
  <2>. DEFINE m == t.table_size
              n == group_num(i)
  <2>1. n \in Nat \ {0} /\ pos_in_group(i) \in Positions
    BY <1>1, Located
  <2>2. m \in Nat /\ i < m
    BY <1>1
  <2>. HIDE DEF m
  <2>3. n <= num_groups(m)
    BY <1>1, <2>2, Located
  <2>. HIDE DEF n
  <2>4. n \in 1 .. num_groups(m)
    BY <1>2, <2>1, <2>3 DEF m
  <2>. QED
    BY <1>2, <2>1, <2>4 DEF m, n
<1>4. t.groups[group_num(i)] \in Groups
  BY <1>3 DEF ShapeSound
<1>. QED
  BY <1>1, <1>3, <1>4, SoundGroups DEF which_group

\* An element is what its group holds, and it is assigned if that is a value.
LEMMA ElementIs ==
  ASSUME NEW t, ShapeSound(t)
  PROVE  /\ Elements(t) = [i \in Locations(t) |-> Held(which_group(t, i), pos_in_group(i))]
         /\ \A i \in Locations(t) : test(t, i) <=> Elements(t)[i] # UNASSIGNED
<1>1. \A i \in Locations(t) : test(t, i) <=> bmtest(which_group(t, i).bitmap, pos_in_group(i))
  BY DEF test
<1>2. Elements(t) = [i \in Locations(t) |-> Held(which_group(t, i), pos_in_group(i))]
  BY DEF Elements, test, get, Held
<1>3. \A i \in Locations(t) : test(t, i) <=> Elements(t)[i] # UNASSIGNED
  BY <1>1, <1>2, GroupOf, HeldIs
<1>. QED
  BY <1>2, <1>3

\* A table assigns finitely many locations.
LEMMA AssignedFinite ==
  ASSUME NEW t, t.table_size \in Nat, NEW S \in SUBSET Assigned(t)
  PROVE  IsFiniteSet(S) /\ Cardinality(S) \in Nat
<1>1. IsFiniteSet(Locations(t))
  BY FS_Interval DEF Locations
<1>2. S \in SUBSET Locations(t)
  BY DEF Assigned
<1>. QED
  BY <1>1, <1>2, FS_Subset, FS_CardinalityType

\* A group counts its locations.
LEMMA GroupCounts ==
  ASSUME NEW t, ShapeSound(t), NEW n \in DOMAIN t.groups
  PROVE  Cardinality(AssignedIn(t, n)) = t.groups[n].num_buckets
<1>. DEFINE bm == t.groups[n].bitmap
            B == Before(bm, GROUP_SIZE)
            A == AssignedIn(t, n)
            f == [p \in B |-> GROUP_SIZE * (n - 1) + p]
<1>1. t.table_size \in Nat /\ t.groups[n] \in Groups
      /\ n \in 1 .. num_groups(t.table_size) /\ num_groups(t.table_size) \in Nat
  BY NumGroups DEF ShapeSound
<1>2. t.groups[n].num_buckets = Cardinality(B)
  BY <1>1, SoundGroups DEF GroupSound, Rank
<1>3. GROUP_SIZE \in Nat \ {0} /\ n \in Nat \ {0} /\ n - 1 \in Nat /\ GROUP_SIZE * (n - 1) \in Nat
  BY <1>1, CharsAre, Times
<1>4. IsFiniteSet(B) /\ B \subseteq Positions /\ B \subseteq Nat
  <2>1. GROUP_SIZE \in Nat
    BY <1>3
  <2>2. IsFiniteSet(B)
    BY <2>1, RankType
  <2>. QED
    BY <2>1, <2>2 DEF Before, Positions
<1>5. ASSUME NEW p \in B PROVE f[p] \in A
  <2>1. f[p] \in Nat /\ group_num(f[p]) = n /\ pos_in_group(f[p]) = p
    BY <1>3, <1>4, LocationOf
  <2>2. f[p] < t.table_size /\ bmtest(bm, p)
    BY <1>4 DEF Before, ShapeSound
  <2>. HIDE DEF f
  <2>3. f[p] \in Locations(t)
    BY <1>1, <2>1, <2>2 DEF Locations
  <2>4. test(t, f[p])
    BY <2>1, <2>2 DEF test, which_group
  <2>. QED
    BY <2>1, <2>3, <2>4 DEF AssignedIn, Assigned
<1>6. ASSUME NEW i \in A PROVE pos_in_group(i) \in B /\ f[pos_in_group(i)] = i
  <2>1. i \in Nat /\ group_num(i) = n /\ test(t, i)
    BY <1>1 DEF AssignedIn, Assigned, Locations
  <2>2. i = GROUP_SIZE * (n - 1) + pos_in_group(i) /\ pos_in_group(i) \in Positions
    BY <2>1, Located
  <2>3. bmtest(bm, pos_in_group(i))
    BY <2>1 DEF test, which_group
  <2>4. pos_in_group(i) \in B
    BY <2>2, <2>3 DEF Before, Positions
  <2>. QED
    BY <2>2, <2>4
<1>7. f \in Bijection(B, A)
  <2>. HIDE DEF A, B
  <2>1. f \in Injection(B, A)
    BY <1>3, <1>4, <1>5 DEF Injection, IsInjective
  <2>2. f \in Surjection(B, A)
    BY <1>5, <1>6 DEF Surjection
  <2>. QED
    BY <2>1, <2>2 DEF Bijection
<1>. HIDE DEF A, B, f
<1>8. Cardinality(A) = Cardinality(B)
  BY <1>4, <1>7, FS_Bijection DEF ExistsBijection
<1>. QED
  BY <1>2, <1>8 DEF A

\* One group changes: the locations of the group read as the new one says, the
\* others as before, and counting by differences counts right.
LEMMA WithGroup ==
  ASSUME NEW t, TableSound(t), NEW n \in DOMAIN t.groups, NEW h, GroupSound(h),
         \A p \in Positions : bmtest(h.bitmap, p) => GROUP_SIZE * (n - 1) + p < t.table_size
  PROVE  LET u == with_group(t, n, h)
         IN  /\ TableSound(u) /\ u.table_size = t.table_size
             /\ Elements(u) = [i \in Locations(t) |->
                                 IF group_num(i) = n THEN Held(h, pos_in_group(i))
                                                     ELSE Elements(t)[i]]
<1>. DEFINE u == with_group(t, n, h)
            Rest == {i \in Assigned(t) : group_num(i) # n}
<1>1. /\ ShapeSound(t) /\ t.table_size \in Nat
      /\ t.groups \in [1 .. num_groups(t.table_size) -> Groups]
  BY DEF TableSound, ShapeSound
<1>2. h \in Groups
  BY SoundGroups
<1>3. /\ u = [groups |-> [t.groups EXCEPT ![n] = h], table_size |-> t.table_size,
              num_buckets |-> t.num_buckets + h.num_buckets - t.groups[n].num_buckets]
      /\ DOMAIN u.groups = DOMAIN t.groups
      /\ \A m \in DOMAIN t.groups : u.groups[m] = IF m = n THEN h ELSE t.groups[m]
  <2>. DEFINE gs == t.groups
              s  == t.table_size
              c  == t.num_buckets
              hs == [gs EXCEPT ![n] = h]
              l  == c + h.num_buckets - gs[n].num_buckets
  <2>1. t = [groups |-> gs, table_size |-> s, num_buckets |-> c]
    BY <1>1 DEF ShapeSound
  <2>2. u = [t EXCEPT !.groups = hs, !.num_buckets = l]
    BY DEF with_group
  <2>3. DOMAIN hs = DOMAIN gs /\ \A m \in DOMAIN gs : hs[m] = IF m = n THEN h ELSE gs[m]
    BY <1>1
  <2>. HIDE DEF gs, s, c, hs, l, u
  <2>4. u = [groups |-> hs, table_size |-> s, num_buckets |-> l]
    BY <2>1, <2>2
  <2>5. u.groups = hs
    BY <2>4
  <2>. QED
    BY <2>3, <2>4, <2>5 DEF gs, s, c, hs, l
<1>. HIDE DEF u
<1>4. ShapeSound(u)
  <2>1. u.groups \in [1 .. num_groups(u.table_size) -> Groups]
    BY <1>1, <1>2, <1>3
  <2>2. \A m \in DOMAIN u.groups : \A p \in Positions :
          bmtest(u.groups[m].bitmap, p) => GROUP_SIZE * (m - 1) + p < u.table_size
    BY <1>1, <1>3 DEF ShapeSound
  <2>. QED
    BY <1>1, <1>3, <2>1, <2>2 DEF ShapeSound
<1>5. Locations(u) = Locations(t)
  BY <1>3 DEF Locations
<1>6. \A i \in Locations(t) : which_group(u, i) = IF group_num(i) = n THEN h ELSE which_group(t, i)
  BY <1>1, <1>3, GroupOf DEF which_group
<1>7. Elements(u) = [i \in Locations(t) |->
                       IF group_num(i) = n THEN Held(h, pos_in_group(i)) ELSE Elements(t)[i]]
  BY <1>1, <1>4, <1>5, <1>6, ElementIs
<1>8. {i \in Assigned(u) : group_num(i) # n} = Rest
  BY <1>5, <1>6 DEF Assigned, test
<1>9. /\ Cardinality(AssignedIn(t, n)) = t.groups[n].num_buckets
      /\ Cardinality(AssignedIn(u, n)) = h.num_buckets
  BY <1>1, <1>3, <1>4, GroupCounts
<1>10. /\ IsFiniteSet(Rest) /\ IsFiniteSet(AssignedIn(t, n)) /\ IsFiniteSet(AssignedIn(u, n))
       /\ Cardinality(Rest) \in Nat /\ t.groups[n].num_buckets \in Nat /\ h.num_buckets \in Nat
  <2>1. Rest \in SUBSET Assigned(t) /\ AssignedIn(t, n) \in SUBSET Assigned(t)
        /\ AssignedIn(u, n) \in SUBSET Assigned(u)
    BY DEF AssignedIn
  <2>. HIDE DEF Rest
  <2>2. t.table_size \in Nat /\ u.table_size \in Nat
    BY <1>1, <1>3
  <2>. QED
    BY <1>9, <2>1, <2>2, AssignedFinite
<1>11. /\ Assigned(t) = Rest \cup AssignedIn(t, n) /\ Rest \cap AssignedIn(t, n) = {}
       /\ Assigned(u) = Rest \cup AssignedIn(u, n) /\ Rest \cap AssignedIn(u, n) = {}
  BY <1>8 DEF AssignedIn
<1>. HIDE DEF Rest
<1>12. Cardinality(Assigned(t)) = Cardinality(Rest) + t.groups[n].num_buckets
  <2>. DEFINE A == AssignedIn(t, n)
  <2>1. IsFiniteSet(A) /\ Cardinality(A) = t.groups[n].num_buckets
    BY <1>9, <1>10
  <2>. HIDE DEF A
  <2>2. Cardinality(Rest \cup A) = Cardinality(Rest) + Cardinality(A) - Cardinality(Rest \cap A)
    BY <1>10, <2>1, FS_Union
  <2>3. Cardinality(Rest \cap A) = 0 /\ Assigned(t) = Rest \cup A
    BY <1>11, FS_EmptySet DEF A
  <2>. QED
    BY <1>10, <2>1, <2>2, <2>3
<1>13. Cardinality(Assigned(u)) = Cardinality(Rest) + h.num_buckets
  <2>. DEFINE A == AssignedIn(u, n)
  <2>1. IsFiniteSet(A) /\ Cardinality(A) = h.num_buckets
    BY <1>9, <1>10
  <2>. HIDE DEF A
  <2>2. Cardinality(Rest \cup A) = Cardinality(Rest) + Cardinality(A) - Cardinality(Rest \cap A)
    BY <1>10, <2>1, FS_Union
  <2>3. Cardinality(Rest \cap A) = 0 /\ Assigned(u) = Rest \cup A
    BY <1>11, FS_EmptySet DEF A
  <2>. QED
    BY <1>10, <2>1, <2>2, <2>3
<1>14. u.num_buckets = Cardinality(Assigned(u))
  <2>1. t.num_buckets = Cardinality(Assigned(t))
    BY DEF TableSound
  <2>. QED
    BY <1>3, <1>10, <1>12, <1>13, <2>1
<1>15. TableSound(u) /\ u.table_size = t.table_size
  BY <1>3, <1>4, <1>14 DEF TableSound
<1>. QED
  BY <1>7, <1>15 DEF u

\* The same for a change of one location.
LEMMA WithElement ==
  ASSUME NEW t, TableSound(t), NEW i \in Locations(t), NEW h, NEW x, GroupSound(h),
         \A p \in Positions : Held(h, p) = IF p = pos_in_group(i) THEN x
                                           ELSE Held(which_group(t, i), p)
  PROVE  LET u == with_group(t, group_num(i), h)
         IN  /\ TableSound(u) /\ u.table_size = t.table_size
             /\ Elements(u) = [Elements(t) EXCEPT ![i] = x]
<1>. DEFINE u == with_group(t, group_num(i), h)
            n == group_num(i)
            q == pos_in_group(i)
<1>1. /\ ShapeSound(t) /\ i \in Nat /\ i < t.table_size /\ t.table_size \in Nat
      /\ n \in DOMAIN t.groups /\ n \in Nat \ {0}
      /\ q \in Positions /\ i = GROUP_SIZE * (n - 1) + q
      /\ GroupSound(which_group(t, i)) /\ which_group(t, i) = t.groups[n]
  BY GroupOf, Located DEF TableSound, ShapeSound, which_group
<1>. HIDE DEF n, q
<1>2. \A p \in Positions : bmtest(h.bitmap, p) => GROUP_SIZE * (n - 1) + p < t.table_size
  <2>. SUFFICES ASSUME NEW p \in Positions, bmtest(h.bitmap, p), p # q
                PROVE  GROUP_SIZE * (n - 1) + p < t.table_size
    BY <1>1
  <2>1. Held(t.groups[n], p) # UNASSIGNED
    BY <1>1, HeldIs DEF q
  <2>. QED
    BY <1>1, <2>1, HeldIs DEF ShapeSound
<1>3. /\ TableSound(u) /\ u.table_size = t.table_size
      /\ Elements(u) = [j \in Locations(t) |->
                          IF group_num(j) = n THEN Held(h, pos_in_group(j)) ELSE Elements(t)[j]]
  BY <1>1, <1>2, WithGroup DEF n
<1>4. Elements(t) = [j \in Locations(t) |-> Held(which_group(t, j), pos_in_group(j))]
  BY <1>1, ElementIs
<1>5. ASSUME NEW j \in Locations(t)
      PROVE  (IF group_num(j) = n THEN Held(h, pos_in_group(j)) ELSE Elements(t)[j])
                = IF j = i THEN x ELSE Elements(t)[j]
  <2>1. j \in Nat /\ pos_in_group(j) \in Positions
        /\ j = GROUP_SIZE * (group_num(j) - 1) + pos_in_group(j)
    BY <1>1, GroupOf, Located
  <2>2. group_num(j) = n => which_group(t, j) = which_group(t, i)
    BY DEF which_group, n
  <2>3. group_num(j) = n => (pos_in_group(j) = q <=> j = i)
    BY <1>1, <2>1 DEF q
  <2>4. group_num(j) # n => j # i
    BY DEF n
  <2>. QED
    BY <1>4, <2>1, <2>2, <2>3, <2>4 DEF q
<1>6. Elements(u) = [Elements(t) EXCEPT ![i] = x]
  BY <1>3, <1>4, <1>5
<1>. QED
  BY <1>3, <1>6

\* set of a sound table assigns one element.
LEMMA SetSound ==
  ASSUME NEW t, TableSound(t), NEW i \in Locations(t), NEW v \in Val
  PROVE  LET u == set(t, i, v)
         IN  /\ TableSound(u) /\ u.table_size = t.table_size
             /\ Elements(u) = [Elements(t) EXCEPT ![i] = v]
<1>1. GroupSound(which_group(t, i)) /\ pos_in_group(i) \in Positions
  BY GroupOf DEF TableSound
<1>. DEFINE h == group_set(which_group(t, i), pos_in_group(i), v)
<1>2. /\ GroupSound(h)
      /\ \A p \in Positions : Held(h, p) = IF p = pos_in_group(i) THEN v
                                           ELSE Held(which_group(t, i), p)
  BY <1>1, GroupSet
<1>3. set(t, i, v) = with_group(t, group_num(i), h)
  BY DEF set
<1>. HIDE DEF h
<1>. QED
  BY <1>2, <1>3, WithElement

\* mutating_get of a sound table assigns the default value where nothing was.
LEMMA TouchSound ==
  ASSUME NEW t, TableSound(t), NEW i \in Locations(t)
  PROVE  LET u == mutating_get(t, i)
         IN  /\ TableSound(u) /\ u.table_size = t.table_size
             /\ Elements(u) = [Elements(t) EXCEPT ![i] = IF @ = UNASSIGNED
                                                         THEN default_value ELSE @]
<1>1. GroupSound(which_group(t, i)) /\ pos_in_group(i) \in Positions
  BY GroupOf DEF TableSound
<1>. DEFINE h == group_mutating_get(which_group(t, i), pos_in_group(i))
            e == Held(which_group(t, i), pos_in_group(i))
            x == IF e = UNASSIGNED THEN default_value ELSE e
<1>2. /\ GroupSound(h)
      /\ \A p \in Positions : Held(h, p) = IF p = pos_in_group(i) THEN x
                                           ELSE Held(which_group(t, i), p)
  BY <1>1, GroupTouched
<1>3. mutating_get(t, i) = with_group(t, group_num(i), h)
  BY DEF mutating_get
<1>4. i \in DOMAIN Elements(t) /\ Elements(t)[i] = e
  BY ElementIs DEF TableSound
<1>. HIDE DEF h, e
<1>5. LET u == with_group(t, group_num(i), h)
      IN  /\ TableSound(u) /\ u.table_size = t.table_size
          /\ Elements(u) = [Elements(t) EXCEPT ![i] = x]
  BY <1>2, WithElement
<1>. QED
  BY <1>3, <1>4, <1>5

\* erase of a sound table leaves one element unassigned.
LEMMA EraseSound ==
  ASSUME NEW t, TableSound(t), NEW i \in Locations(t)
  PROVE  LET u == erase(t, i)
         IN  /\ TableSound(u) /\ u.table_size = t.table_size
             /\ Elements(u) = [Elements(t) EXCEPT ![i] = UNASSIGNED]
<1>1. GroupSound(which_group(t, i)) /\ pos_in_group(i) \in Positions
  BY GroupOf DEF TableSound
<1>. DEFINE h == group_erase(which_group(t, i), pos_in_group(i))
<1>2. /\ GroupSound(h)
      /\ \A p \in Positions : Held(h, p) = IF p = pos_in_group(i) THEN UNASSIGNED
                                           ELSE Held(which_group(t, i), p)
  BY <1>1, GroupErased
<1>3. erase(t, i) = with_group(t, group_num(i), h)
  BY DEF erase
<1>. DEFINE x == UNASSIGNED
<1>. HIDE DEF h, x
<1>4. LET u == with_group(t, group_num(i), h)
      IN  /\ TableSound(u) /\ u.table_size = t.table_size
          /\ Elements(u) = [Elements(t) EXCEPT ![i] = x]
  <2>1. \A p \in Positions : Held(h, p) = IF p = pos_in_group(i) THEN x
                                          ELSE Held(which_group(t, i), p)
    BY <1>2 DEF x
  <2>. QED
    BY <1>2, <2>1, WithElement
<1>. QED
  BY <1>3, <1>4 DEF x

\* Erasing a range erases its locations, one after the other.
LEMMA EraseRangeSound ==
  ASSUME NEW t, TableSound(t), NEW first \in Nat, NEW last \in Nat,
         first < last, last <= t.table_size
  PROVE  LET u == erase_range(t, first, last)
         IN  /\ TableSound(u) /\ u.table_size = t.table_size
             /\ Elements(u) = [i \in Locations(t) |-> IF first <= i /\ i < last
                                                      THEN UNASSIGNED ELSE Elements(t)[i]]
<1>. DEFINE S == {u \in [groups : [1 .. num_groups(t.table_size) -> Groups],
                         table_size : {t.table_size}, num_buckets : Nat] : TableSound(u)}
            step == [i \in first + 1 .. last |-> [u \in S |-> erase(u, i - 1)]]
            Solves(f) == f = [i \in first .. last |->
                                IF i = first THEN t ELSE erase(f[i - 1], i - 1)]
            Erased(u, k) == /\ TableSound(u) /\ u.table_size = t.table_size
                            /\ Elements(u) = [i \in Locations(t) |->
                                 IF first <= i /\ i < k THEN UNASSIGNED ELSE Elements(t)[i]]
<1>1. \A u : TableSound(u) /\ u.table_size = t.table_size <=> u \in S
  <2>1. ASSUME NEW u, TableSound(u), u.table_size = t.table_size PROVE u \in S
    <3>1. Cardinality(Assigned(u)) \in Nat
      <4>1. u.table_size \in Nat /\ Assigned(u) \in SUBSET Assigned(u)
        BY <2>1 DEF TableSound, ShapeSound
      <4>. QED
        BY <4>1, AssignedFinite
    <3>. QED
      BY <2>1, <3>1 DEF TableSound, ShapeSound
  <2>. QED
    BY <2>1
<1>. HIDE DEF S
<1>2. \A u : u.table_size = t.table_size => Locations(u) = Locations(t)
  BY DEF Locations
<1>3. t.table_size \in Nat /\ Locations(t) = 0 .. t.table_size - 1
  BY DEF TableSound, ShapeSound, Locations
<1>4. \A i \in first + 1 .. last : \A u \in S : step[i][u] \in S
  <2>1. ASSUME NEW i \in first + 1 .. last, NEW u \in S PROVE erase(u, i - 1) \in S
    <3>1. TableSound(u) /\ u.table_size = t.table_size /\ i - 1 \in Locations(u)
      BY <1>1, <1>2, <1>3
    <3>. QED
      BY <1>1, <3>1, EraseSound
  <2>. QED
    BY <2>1
<1>5. PICK f \in [first .. last -> S] :
        f[first] = t /\ \A i \in first + 1 .. last : f[i] = step[i][f[i - 1]]
  <2>. HIDE DEF step
  <2>1. t \in S /\ first <= last /\ first \in Int /\ last \in Int
    BY <1>1
  <2>2. Iterations(S, t, step, first, last) # {}
    BY <1>4, <2>1, Iterates
  <2>. QED
    BY <2>2 DEF Iterations
<1>6. Solves(f)
  <2>1. ASSUME NEW i \in first .. last
        PROVE  f[i] = IF i = first THEN t ELSE erase(f[i - 1], i - 1)
    <3>1. CASE i = first
      BY <1>5, <3>1
    <3>2. CASE i # first
      <4>1. i \in first + 1 .. last /\ i - 1 \in first .. last
        BY <3>2
      <4>2. f[i] = step[i][f[i - 1]] /\ f[i - 1] \in S
        BY <1>5, <4>1
      <4>. QED
        BY <3>2, <4>1, <4>2
    <3>. QED
      BY <3>1, <3>2
  <2>. QED
    BY <1>5, <2>1
<1>. HIDE DEF step
<1>. DEFINE upto == CHOOSE u : Solves(u)
<1>7. Solves(upto)
  BY <1>6
<1>. HIDE DEF upto
<1>8. /\ upto[first] = t
      /\ \A i \in first + 1 .. last : upto[i] = erase(upto[i - 1], i - 1)
  BY <1>7
<1>. HIDE DEF Solves
<1>. DEFINE Good == {i \in first .. last : Erased(upto[i], i)}
<1>9. first \in Good
  <2>1. Elements(t) = [i \in Locations(t) |->
                         IF first <= i /\ i < first THEN UNASSIGNED ELSE Elements(t)[i]]
    BY <1>3, ElementIs DEF TableSound
  <2>. QED
    BY <1>8, <2>1
<1>10. ASSUME NEW i \in first + 1 .. last, i - 1 \in Good PROVE i \in Good
  <2>. DEFINE u == upto[i - 1]
  <2>1. upto[i] = erase(u, i - 1) /\ i \in first .. last /\ i - 1 \in Nat
    BY <1>8
  <2>2. Erased(u, i - 1)
    BY <1>10
  <2>. HIDE DEF u
  <2>3. i - 1 \in Locations(u) /\ Locations(u) = Locations(t)
    BY <1>2, <1>3, <2>2
  <2>4. /\ TableSound(upto[i]) /\ upto[i].table_size = t.table_size
        /\ Elements(upto[i]) = [Elements(u) EXCEPT ![i - 1] = UNASSIGNED]
    BY <2>1, <2>2, <2>3, EraseSound
  <2>5. \A j \in Locations(t) : j \in Int
    BY <1>3
  <2>6. Elements(upto[i]) = [j \in Locations(t) |->
          IF first <= j /\ j < i THEN UNASSIGNED ELSE Elements(t)[j]]
    <3>. DEFINE K == Locations(t)
                E == Elements(u)
                F == Elements(t)
    <3>1. /\ E = [j \in K |-> IF first <= j /\ j < i - 1 THEN UNASSIGNED ELSE F[j]]
          /\ Elements(upto[i]) = [E EXCEPT ![i - 1] = UNASSIGNED]
      BY <2>2, <2>4
    <3>2. \A j \in K : j \in Int
      BY <2>5
    <3>. HIDE DEF K, E, F
    <3>3. Elements(upto[i]) = [j \in K |-> IF j = i - 1 THEN UNASSIGNED ELSE E[j]]
      BY <3>1
    <3>4. \A j \in K : (IF j = i - 1 THEN UNASSIGNED ELSE E[j]) =
                         IF first <= j /\ j < i THEN UNASSIGNED ELSE F[j]
      <4>. SUFFICES ASSUME NEW j \in K
                    PROVE  (IF j = i - 1 THEN UNASSIGNED ELSE E[j]) =
                             IF first <= j /\ j < i THEN UNASSIGNED ELSE F[j]
        OBVIOUS
      <4>1. E[j] = IF first <= j /\ j < i - 1 THEN UNASSIGNED ELSE F[j]
        BY <3>1
      <4>2. j \in Int /\ i \in Int /\ first <= i - 1
        BY <3>2
      <4>3. first <= j /\ j < i <=> j = i - 1 \/ (first <= j /\ j < i - 1)
        BY <4>2
      <4>. QED
        BY <4>1, <4>3
    <3>5. Elements(upto[i]) = [j \in K |-> IF first <= j /\ j < i THEN UNASSIGNED ELSE F[j]]
      BY <3>3, <3>4
    <3>. QED
      BY <3>5 DEF K, F
  <2>. QED
    BY <2>1, <2>4, <2>6
<1>. HIDE DEF Good
<1>11. last \in Good
  <2>0. \A i \in first + 1 .. last : i - 1 \in Good => i \in Good
    BY <1>10
  <2>1. \A i \in first .. last : i \in Good
    BY <1>9, <2>0, Climb
  <2>. QED
    BY <2>1
<1>12. Erased(upto[last], last)
  BY <1>11 DEF Good
<1>13. erase_range(t, first, last) = upto[last]
  BY DEF erase_range, upto, Solves
<1>. QED
  BY <1>12, <1>13

\* A table with nothing in it.
LEMMA EmptyTable ==
  ASSUME NEW t, NEW n \in Nat,
         t = [groups |-> t.groups, table_size |-> n, num_buckets |-> 0],
         DOMAIN t.groups = 1 .. num_groups(n), t.groups = [g \in DOMAIN t.groups |-> t.groups[g]],
         \A g \in DOMAIN t.groups : t.groups[g] = new_group
  PROVE  /\ TableSound(t) /\ t.table_size = n /\ t.num_buckets = 0
         /\ Elements(t) = [i \in 0 .. n - 1 |-> UNASSIGNED]
<1>1. GroupSound(new_group) /\ \A j \in Positions : Held(new_group, j) = UNASSIGNED
  BY EmptyGroup DEF new_group
<1>2. t.table_size = n /\ t.num_buckets = 0
  <2>1. [groups |-> t.groups, table_size |-> n, num_buckets |-> 0].table_size = n
        /\ [groups |-> t.groups, table_size |-> n, num_buckets |-> 0].num_buckets = 0
    OBVIOUS
  <2>. QED
    BY <2>1
<1>3. \A p \in Positions : ~bmtest(new_group.bitmap, p)
  BY <1>1, HeldIs
<1>4. new_group \in Groups
  BY <1>1, SoundGroups
<1>5. t.groups \in [1 .. num_groups(n) -> Groups]
  BY <1>4
<1>6. ShapeSound(t)
  BY <1>2, <1>3, <1>5 DEF ShapeSound
<1>7. Elements(t) = [i \in 0 .. n - 1 |-> UNASSIGNED]
  <2>1. Locations(t) = 0 .. n - 1
    BY <1>2 DEF Locations
  <2>2. \A i \in Locations(t) : Held(which_group(t, i), pos_in_group(i)) = UNASSIGNED
    BY <1>1, <1>6, GroupOf DEF which_group
  <2>. QED
    BY <1>6, <2>1, <2>2, ElementIs
<1>8. Assigned(t) = {}
  BY <1>2, <1>6, <1>7, ElementIs DEF Assigned, Locations
<1>. QED
  BY <1>2, <1>6, <1>7, <1>8, FS_EmptySet DEF TableSound

\* A new table is sound and has nothing assigned.
LEMMA NewSound ==
  ASSUME NEW n \in Nat
  PROVE  LET u == new_sparsetable(n)
         IN  /\ TableSound(u) /\ u.table_size = n
             /\ Elements(u) = [i \in 0 .. n - 1 |-> UNASSIGNED]
<1>. DEFINE u == new_sparsetable(n)
<1>1. /\ u = [groups |-> u.groups, table_size |-> n, num_buckets |-> 0]
      /\ DOMAIN u.groups = 1 .. num_groups(n)
      /\ u.groups = [g \in DOMAIN u.groups |-> u.groups[g]]
      /\ \A g \in DOMAIN u.groups : u.groups[g] = new_group
  BY DEF new_sparsetable
<1>. HIDE DEF u
<1>2. /\ TableSound(u) /\ u.table_size = n
      /\ Elements(u) = [i \in 0 .. n - 1 |-> UNASSIGNED]
  BY <1>1, EmptyTable
<1>. QED
  BY <1>2 DEF u

\* clear unassigns everything and leaves the size.
LEMMA ClearSound ==
  ASSUME NEW t, TableSound(t)
  PROVE  LET u == clear(t)
         IN  /\ TableSound(u) /\ u.table_size = t.table_size
             /\ Elements(u) = [i \in Locations(t) |-> UNASSIGNED]
<1>. DEFINE u == clear(t)
            n == t.table_size
<1>1. /\ t = [groups |-> t.groups, table_size |-> n, num_buckets |-> t.num_buckets]
      /\ n \in Nat /\ t.groups \in [1 .. num_groups(n) -> Groups]
      /\ Locations(t) = 0 .. n - 1
  BY DEF TableSound, ShapeSound, Locations
<1>2. ASSUME NEW g \in Groups PROVE group_clear(g) = new_group
  <2>. DEFINE s == g.group
              k == g.num_buckets
              b == g.bitmap
              c == [c \in Chars |-> {}]
  <2>1. g = [group |-> s, num_buckets |-> k, bitmap |-> b]
    BY DEF Groups
  <2>2. group_clear(g) = [g EXCEPT !.group = <<>>, !.num_buckets = 0, !.bitmap = c]
    BY DEF group_clear
  <2>3. new_group = [group |-> <<>>, num_buckets |-> 0, bitmap |-> c]
    BY DEF new_group
  <2>. HIDE DEF s, k, b, c
  <2>. QED
    BY <2>1, <2>2, <2>3
<1>. DEFINE gs == t.groups
            k  == t.num_buckets
            hs == [g \in DOMAIN gs |-> group_clear(gs[g])]
<1>3. u = [t EXCEPT !.groups = hs, !.num_buckets = 0]
  BY DEF clear
<1>4. DOMAIN hs = 1 .. num_groups(n) /\ hs = [g \in DOMAIN hs |-> hs[g]]
      /\ \A g \in DOMAIN hs : hs[g] = new_group
  BY <1>1, <1>2
<1>6. t = [groups |-> gs, table_size |-> n, num_buckets |-> k]
  BY <1>1
<1>. HIDE DEF gs, k, hs, u, n
<1>7. u = [groups |-> hs, table_size |-> n, num_buckets |-> 0]
  BY <1>3, <1>6
<1>8. u.groups = hs
  BY <1>7
<1>5. /\ TableSound(u) /\ u.table_size = n
      /\ Elements(u) = [i \in 0 .. n - 1 |-> UNASSIGNED]
  <2>1. /\ u = [groups |-> u.groups, table_size |-> n, num_buckets |-> 0]
        /\ DOMAIN u.groups = 1 .. num_groups(n)
        /\ u.groups = [g \in DOMAIN u.groups |-> u.groups[g]]
        /\ \A g \in DOMAIN u.groups : u.groups[g] = new_group
    BY <1>4, <1>7, <1>8
  <2>2. n \in Nat
    BY <1>1
  <2>. QED
    BY <2>1, <2>2, EmptyTable
<1>. QED
  BY <1>1, <1>5 DEF u, n

\* A copy is the same table.
LEMMA CopyIsEqual ==
  ASSUME NEW t, TableSound(t)
  PROVE  copy(t) = t
<1>1. /\ t = [groups |-> t.groups, table_size |-> t.table_size, num_buckets |-> t.num_buckets]
      /\ t.groups \in [1 .. num_groups(t.table_size) -> Groups]
  BY DEF TableSound, ShapeSound
<1>2. \A g \in DOMAIN t.groups : group_copy(t.groups[g]) = t.groups[g]
  BY <1>1, SoundGroups, GroupCopied
<1>3. [g \in DOMAIN t.groups |-> group_copy(t.groups[g])] = t.groups
  BY <1>1, <1>2
<1>. QED
  BY <1>1, <1>3 DEF copy

\* What the groups count, in sum.
LEMMA GroupsCount ==
  ASSUME NEW t, ShapeSound(t)
  PROVE  num_nonempty_of(t.groups) = Cardinality(Assigned(t))
<1>. DEFINE N == num_groups(t.table_size)
            groups == t.groups
            UpTo(k) == {i \in Assigned(t) : group_num(i) <= k}
            R == [k \in 0 .. N |-> Cardinality(UpTo(k))]
            Solves(f) == f = [k \in 0 .. N |->
                                IF k = 0 THEN 0 ELSE f[k - 1] + groups[k].num_buckets]
<1>1. /\ t.table_size \in Nat /\ N \in Nat /\ groups \in [1 .. N -> Groups]
      /\ DOMAIN groups = 1 .. N
  BY NumGroups DEF ShapeSound
<1>2. Len(groups) = N
  BY <1>1
<1>3. \A i \in Assigned(t) : group_num(i) \in 1 .. N
  BY <1>1, GroupOf DEF Assigned
<1>4. \A k \in 0 .. N : IsFiniteSet(UpTo(k)) /\ Cardinality(UpTo(k)) \in Nat
  BY <1>1, AssignedFinite
<1>5. Cardinality(UpTo(0)) = 0
  <2>1. UpTo(0) = {}
    BY <1>1, <1>3
  <2>. QED
    BY <2>1, FS_EmptySet
<1>6. ASSUME NEW k \in 1 .. N
      PROVE  Cardinality(UpTo(k)) = Cardinality(UpTo(k - 1)) + groups[k].num_buckets
  <2>. DEFINE A == UpTo(k - 1)
              B == AssignedIn(t, k)
  <2>1. UpTo(k) = A \cup B /\ A \cap B = {}
    BY <1>1, <1>3 DEF AssignedIn
  <2>2. IsFiniteSet(A) /\ Cardinality(A) \in Nat
    BY <1>1, <1>4
  <2>3. B \in SUBSET Assigned(t)
    BY DEF AssignedIn
  <2>4. IsFiniteSet(B) /\ Cardinality(B) \in Nat /\ Cardinality(B) = groups[k].num_buckets
    BY <1>1, <2>3, AssignedFinite, GroupCounts
  <2>. HIDE DEF A, B
  <2>5. Cardinality(A \cup B) = Cardinality(A) + Cardinality(B) - Cardinality(A \cap B)
    BY <2>2, <2>4, FS_Union
  <2>6. Cardinality(A \cap B) = 0
    BY <2>1, FS_EmptySet
  <2>7. Cardinality(UpTo(k)) = Cardinality(A) + groups[k].num_buckets
    <3>. DEFINE U == UpTo(k)
    <3>1. U = A \cup B
      BY <2>1
    <3>. HIDE DEF U
    <3>2. Cardinality(U) = Cardinality(A) + groups[k].num_buckets
      BY <2>2, <2>4, <2>5, <2>6, <3>1
    <3>. QED
      BY <3>2 DEF U
  <2>. QED
    BY <2>7 DEF A
<1>. HIDE DEF UpTo, N, groups
<1>7. Solves(R)
  <2>1. ASSUME NEW k \in 0 .. N
        PROVE  R[k] = IF k = 0 THEN 0 ELSE R[k - 1] + groups[k].num_buckets
    <3>1. CASE k = 0
      BY <1>1, <1>5, <3>1
    <3>2. CASE k # 0
      <4>1. k \in 1 .. N /\ k - 1 \in 0 .. N
        BY <1>1, <3>2
      <4>. QED
        BY <1>6, <3>2, <4>1
    <3>. QED
      BY <3>1, <3>2
  <2>. QED
    BY <2>1
<1>. HIDE DEF R
<1>. DEFINE upto == CHOOSE f : Solves(f)
<1>8. Solves(upto)
  BY <1>7
<1>. HIDE DEF upto
<1>9. upto[0] = 0 /\ \A k \in 1 .. N : upto[k] = upto[k - 1] + groups[k].num_buckets
  BY <1>1, <1>8
<1>. HIDE DEF Solves
<1>. DEFINE Good == {k \in 0 .. N : upto[k] = Cardinality(UpTo(k))}
<1>10. 0 \in Good
  BY <1>1, <1>5, <1>9
<1>11. ASSUME NEW k \in 0 + 1 .. N, k - 1 \in Good PROVE k \in Good
  BY <1>1, <1>6, <1>9, <1>11
<1>. HIDE DEF Good
<1>12. N \in Good
  <2>0. \A k \in 0 + 1 .. N : k - 1 \in Good => k \in Good
    BY <1>11
  <2>1. \A k \in 0 .. N : k \in Good
    <3>. DEFINE a == 0
    <3>1. /\ a \in Int /\ N \in Int /\ a \in Good
          /\ \A k \in a + 1 .. N : k - 1 \in Good => k \in Good
      BY <1>1, <1>10, <2>0
    <3>. HIDE DEF a
    <3>2. \A k \in a .. N : k \in Good
      BY <3>1, Climb
    <3>. QED
      BY <3>2 DEF a
  <2>. QED
    BY <1>1, <2>1
<1>13. upto[N] = Cardinality(UpTo(N))
  BY <1>12 DEF Good
<1>14. UpTo(N) = Assigned(t)
  BY <1>1, <1>3 DEF UpTo
<1>15. num_nonempty_of(t.groups) = upto[N]
  <2>1. num_nonempty_of(groups) = (CHOOSE f : f = [k \in 0 .. Len(groups) |->
                                IF k = 0 THEN 0 ELSE f[k - 1] + groups[k].num_buckets])[Len(groups)]
    BY Zenon DEF num_nonempty_of
  <2>2. num_nonempty_of(groups) = (CHOOSE f : f = [k \in 0 .. N |->
                                IF k = 0 THEN 0 ELSE f[k - 1] + groups[k].num_buckets])[N]
    BY <1>2, <2>1
  <2>. QED
    BY <2>2 DEF upto, Solves, groups
<1>. QED
  BY <1>13, <1>14, <1>15

\* Where the end of a table of n elements is.
LEMMA EndOf ==
  ASSUME NEW n \in Nat
  PROVE  LET K == num_groups(n)
             q == pos_in_group(n)
         IN  /\ q \in Positions /\ K \in Nat
             /\ q > 0 => K > 0 /\ n = GROUP_SIZE * (K - 1) + q
             /\ q = 0 => n = GROUP_SIZE * K
<1>. DEFINE K == num_groups(n)
            q == pos_in_group(n)
            m == group_num(n)
<1>1. /\ GROUP_SIZE \in Nat \ {0} /\ K \in Nat /\ n <= GROUP_SIZE * K
      /\ m \in Nat \ {0} /\ m - 1 \in Nat /\ q \in Positions /\ q \in 0 .. GROUP_SIZE - 1
      /\ n = GROUP_SIZE * (m - 1) + q
      /\ \A l \in Nat : n <= GROUP_SIZE * l => K <= l
  <2>1. GROUP_SIZE \in Nat \ {0} /\ Positions = 0 .. GROUP_SIZE - 1
    BY CharsAre DEF Positions
  <2>2. /\ K \in Nat /\ n <= GROUP_SIZE * K
        /\ \A l \in Nat : n <= GROUP_SIZE * l => K <= l
    BY NumGroups
  <2>3. m \in Nat \ {0} /\ q \in Positions /\ n = GROUP_SIZE * (m - 1) + q
    BY Located
  <2>. HIDE DEF K, q, m
  <2>. QED
    BY <2>1, <2>2, <2>3
<1>2. GROUP_SIZE * m = GROUP_SIZE * (m - 1) + GROUP_SIZE /\ GROUP_SIZE * (m - 1) \in Nat
  <2>1. m = (m - 1) + 1
    BY <1>1
  <2>2. GROUP_SIZE * ((m - 1) + 1) = GROUP_SIZE * (m - 1) + GROUP_SIZE
    BY <1>1
  <2>. QED
    BY <1>1, <2>1, <2>2, Times
<1>3. ASSUME q > 0 PROVE K > 0 /\ n = GROUP_SIZE * (K - 1) + q
  <2>1. K <= m
    BY <1>1, <1>2
  <2>2. q - 1 \in Positions
    BY <1>1, <1>3 DEF Positions
  <2>3. group_num(GROUP_SIZE * (m - 1) + (q - 1)) = m
    BY <1>1, <2>2, LocationOf
  <2>4. GROUP_SIZE * (m - 1) + (q - 1) = n - 1 /\ n - 1 \in Nat
    BY <1>1, <1>2, <1>3
  <2>5. m <= K
    BY <2>3, <2>4, Located
  <2>. QED
    BY <1>1, <2>1, <2>5
<1>4. ASSUME q = 0 PROVE n = GROUP_SIZE * K
  <2>1. n = GROUP_SIZE * (m - 1)
    BY <1>1, <1>2, <1>4
  <2>2. K <= m - 1
    BY <1>1, <2>1
  <2>3. GROUP_SIZE * K <= GROUP_SIZE * (m - 1) /\ GROUP_SIZE * K \in Nat
    BY <1>1, <2>2, Times
  <2>. QED
    BY <1>1, <2>1, <2>3
<1>. QED
  BY <1>1, <1>3, <1>4

\* Growing brings empty elements, and none that were there before a shrinking.
LEMMA GrowSound ==
  ASSUME NEW t, TableSound(t), NEW n \in Nat, t.table_size <= n
  PROVE  LET u == [t EXCEPT !.groups = resized_groups(t, n), !.table_size = n]
         IN  /\ TableSound(u) /\ u.table_size = n
             /\ Elements(u) = [i \in 0 .. n - 1 |-> IF i \in Locations(t)
                                                    THEN Elements(t)[i] ELSE UNASSIGNED]
<1>. DEFINE u == [t EXCEPT !.groups = resized_groups(t, n), !.table_size = n]
            G == num_groups(t.table_size)
            K == num_groups(n)
<1>1. /\ ShapeSound(t) /\ t.table_size \in Nat /\ G \in Nat /\ K \in Nat
      /\ t.groups \in [1 .. G -> Groups] /\ Len(t.groups) = G
      /\ t = [groups |-> t.groups, table_size |-> t.table_size, num_buckets |-> t.num_buckets]
      /\ Locations(t) = 0 .. t.table_size - 1
  BY NumGroups DEF TableSound, ShapeSound, Locations
<1>2. u = [groups |-> resized_groups(t, n), table_size |-> n, num_buckets |-> t.num_buckets]
  <2>. DEFINE gs == t.groups
              s  == t.table_size
              c  == t.num_buckets
              hs == resized_groups(t, n)
  <2>1. t = [groups |-> gs, table_size |-> s, num_buckets |-> c]
    BY <1>1
  <2>2. u = [t EXCEPT !.groups = hs, !.table_size = n]
    OBVIOUS
  <2>. HIDE DEF gs, s, c, hs, u
  <2>3. u = [groups |-> hs, table_size |-> n, num_buckets |-> c]
    BY <2>1, <2>2
  <2>. QED
    BY <2>3 DEF hs, c
<1>. HIDE DEF u
<1>3. u.groups = [g \in 1 .. K |-> IF g <= G THEN t.groups[g] ELSE new_group]
  BY <1>1, <1>2 DEF resized_groups
<1>4. /\ new_group \in Groups /\ \A p \in Positions : Held(new_group, p) = UNASSIGNED
      /\ \A p \in Positions : ~bmtest(new_group.bitmap, p)
  <2>1. GroupSound(new_group) /\ \A p \in Positions : Held(new_group, p) = UNASSIGNED
    BY EmptyGroup DEF new_group
  <2>. QED
    BY <2>1, SoundGroups, HeldIs
<1>5. \A g \in 1 .. K : g <= G => g \in 1 .. G
  BY <1>1
<1>6. ShapeSound(u)
  <2>1. u.groups \in [1 .. K -> Groups]
    BY <1>1, <1>3, <1>4, <1>5
  <2>2. ASSUME NEW g \in 1 .. K, NEW p \in Positions, bmtest(u.groups[g].bitmap, p)
        PROVE  GROUP_SIZE * (g - 1) + p < n
    <3>1. g <= G /\ bmtest(t.groups[g].bitmap, p)
      BY <1>3, <1>4, <2>2
    <3>2. GROUP_SIZE * (g - 1) + p < t.table_size
      BY <1>1, <1>5, <3>1 DEF ShapeSound
    <3>3. GROUP_SIZE * (g - 1) + p \in Nat
      BY LocationOf
    <3>. QED
      BY <1>1, <3>2, <3>3
  <2>3. DOMAIN u.groups = 1 .. K /\ u.table_size = n
    BY <1>2, <1>3
  <2>4. u = [groups |-> u.groups, table_size |-> u.table_size, num_buckets |-> u.num_buckets]
    BY <1>2
  <2>. QED
    BY <2>1, <2>2, <2>3, <2>4 DEF ShapeSound
<1>7. Locations(u) = 0 .. n - 1
  BY <1>2 DEF Locations
<1>8. ASSUME NEW i \in Locations(u)
      PROVE  Elements(u)[i] = IF i \in Locations(t) THEN Elements(t)[i] ELSE UNASSIGNED
  <2>. DEFINE m == group_num(i)
              p == pos_in_group(i)
  <2>1. i \in Nat /\ m \in 1 .. K /\ p \in Positions /\ i = GROUP_SIZE * (m - 1) + p
    BY <1>3, <1>6, <1>7, GroupOf, Located
  <2>2. Elements(u)[i] = Held(u.groups[m], p)
    BY <1>6, ElementIs DEF which_group
  <2>3. CASE i \in Locations(t)
    <3>1. m \in DOMAIN t.groups
      BY <1>1, <2>3, GroupOf
    <3>2. u.groups[m] = t.groups[m]
      BY <1>1, <1>3, <2>1, <3>1
    <3>3. Elements(t)[i] = Held(t.groups[m], p)
      BY <1>1, <2>3, ElementIs DEF which_group
    <3>. QED
      BY <2>2, <2>3, <3>2, <3>3
  <2>4. CASE i \notin Locations(t) /\ m <= G
    <3>1. u.groups[m] = t.groups[m] /\ m \in 1 .. G /\ GroupSound(t.groups[m])
      BY <1>1, <1>3, <1>5, <2>1, <2>4, SoundGroups
    <3>2. ~(i < t.table_size)
      BY <1>1, <2>1, <2>4
    <3>3. ~bmtest(t.groups[m].bitmap, p)
      BY <1>1, <2>1, <3>1, <3>2 DEF ShapeSound
    <3>. QED
      BY <2>1, <2>2, <2>4, <3>1, <3>3, HeldIs
  <2>5. CASE i \notin Locations(t) /\ ~(m <= G)
    BY <1>3, <1>4, <2>1, <2>2, <2>5
  <2>. QED
    BY <2>3, <2>4, <2>5
<1>9. Elements(u) = [i \in 0 .. n - 1 |-> IF i \in Locations(t)
                                          THEN Elements(t)[i] ELSE UNASSIGNED]
  <2>1. Elements(u) = [i \in 0 .. n - 1 |-> Elements(u)[i]]
    BY <1>7 DEF Elements
  <2>. QED
    BY <1>7, <1>8, <2>1
<1>10. Assigned(u) = Assigned(t)
  <2>1. \A i \in Locations(t) : i \in Locations(u)
    BY <1>1, <1>7
  <2>2. \A i \in Locations(u) : test(u, i) <=> Elements(u)[i] # UNASSIGNED
    BY <1>6, ElementIs
  <2>3. \A i \in Locations(t) : test(t, i) <=> Elements(t)[i] # UNASSIGNED
    BY <1>1, ElementIs
  <2>. QED
    BY <1>8, <2>1, <2>2, <2>3 DEF Assigned
<1>11. TableSound(u) /\ u.table_size = n
  BY <1>2, <1>6, <1>10 DEF TableSound
<1>. QED
  BY <1>9, <1>11 DEF u

\* Shrinking leaves the elements in front of the new end as they are, and
\* nothing behind it.
LEMMA ShrinkSound ==
  ASSUME NEW t, TableSound(t), NEW n \in Nat, n < t.table_size
  PROVE  LET u == resize(t, n)
         IN  /\ TableSound(u) /\ u.table_size = n
             /\ Elements(u) = [i \in 0 .. n - 1 |-> Elements(t)[i]]
<1>. DEFINE u == resize(t, n)
            G == num_groups(t.table_size)
            K == num_groups(n)
            q == pos_in_group(n)
            kept == resized_groups(t, n)
            trimmed == IF q > 0 THEN [kept EXCEPT ![Len(kept)] = group_erase_from(@, q)] ELSE kept
<1>1. /\ ShapeSound(t) /\ t.table_size \in Nat /\ G \in Nat
      /\ t.groups \in [1 .. G -> Groups] /\ Len(t.groups) = G
      /\ Locations(t) = 0 .. t.table_size - 1
  BY NumGroups DEF TableSound, ShapeSound, Locations
<1>2. /\ GROUP_SIZE \in Nat \ {0} /\ Positions = 0 .. GROUP_SIZE - 1
      /\ q \in Positions /\ q \in Nat /\ K \in Nat
      /\ q > 0 => K > 0 /\ n = GROUP_SIZE * (K - 1) + q
      /\ q = 0 => n = GROUP_SIZE * K
  <2>1. GROUP_SIZE \in Nat \ {0} /\ Positions = 0 .. GROUP_SIZE - 1
    BY CharsAre DEF Positions
  <2>2. /\ q \in Positions /\ K \in Nat
        /\ q > 0 => K > 0 /\ n = GROUP_SIZE * (K - 1) + q
        /\ q = 0 => n = GROUP_SIZE * K
    BY EndOf
  <2>. HIDE DEF q, K
  <2>. QED
    BY <2>1, <2>2
<1>3. K <= G
  <2>1. t.table_size <= GROUP_SIZE * G /\ GROUP_SIZE * G \in Nat
    BY <1>1, <1>2, NumGroups, Times
  <2>2. n <= GROUP_SIZE * G
    BY <1>1, <2>1
  <2>. QED
    BY <1>1, <2>2, NumGroups
<1>4. kept = [g \in 1 .. K |-> t.groups[g]] /\ kept \in [1 .. K -> Groups] /\ Len(kept) = K
  <2>1. \A g \in 1 .. K : g <= G /\ g \in 1 .. G
    BY <1>1, <1>2, <1>3
  <2>2. kept = [g \in 1 .. K |-> t.groups[g]]
    BY <1>1, <2>1 DEF resized_groups
  <2>. QED
    BY <1>1, <1>2, <2>1, <2>2
<1>5. u = [groups |-> trimmed, table_size |-> n, num_buckets |-> num_nonempty_of(trimmed)]
  BY DEF resize
<1>. HIDE DEF u, kept, q, K
<1>6. /\ trimmed \in [1 .. K -> Groups]
      /\ \A g \in 1 .. K : \A p \in Positions :
           Held(trimmed[g], p) = IF q > 0 /\ g = K /\ q <= p THEN UNASSIGNED
                                                             ELSE Held(t.groups[g], p)
  <2>1. CASE q = 0
    BY <1>2, <1>4, <2>1
  <2>2. CASE q > 0
    <3>. DEFINE cut == group_erase_from(kept[K], q)
    <3>1. K \in 1 .. K /\ kept[K] \in Groups
      BY <1>2, <1>4, <2>2
    <3>2. GroupSound(kept[K])
      BY <3>1, SoundGroups
    <3>3. /\ GroupSound(cut)
          /\ \A p \in Positions : Held(cut, p) = IF q <= p THEN UNASSIGNED ELSE Held(kept[K], p)
      BY <1>2, <3>2, GroupCut
    <3>4. trimmed = [kept EXCEPT ![K] = cut]
      BY <1>4, <2>2
    <3>. HIDE DEF cut, trimmed
    <3>5. cut \in Groups
      BY <3>3, SoundGroups
    <3>6. trimmed \in [1 .. K -> Groups]
      BY <1>4, <3>4, <3>5
    <3>7. \A g \in 1 .. K : trimmed[g] = IF g = K THEN cut ELSE kept[g]
      BY <1>4, <3>4
    <3>. QED
      BY <1>4, <2>2, <3>3, <3>6, <3>7
  <2>. QED
    BY <1>2, <2>1, <2>2
<1>. HIDE DEF trimmed
<1>7. ASSUME NEW g \in 1 .. K, NEW p \in Positions, bmtest(trimmed[g].bitmap, p)
      PROVE  GROUP_SIZE * (g - 1) + p < n
  <2>1. g \in Nat \ {0} /\ g - 1 \in Nat /\ p \in Nat /\ p < GROUP_SIZE
        /\ GROUP_SIZE * (g - 1) \in Nat /\ GROUP_SIZE * g = GROUP_SIZE * (g - 1) + GROUP_SIZE
    <3>1. g \in Nat \ {0} /\ g - 1 \in Nat /\ g = (g - 1) + 1
      BY <1>2
    <3>2. GROUP_SIZE * ((g - 1) + 1) = GROUP_SIZE * (g - 1) + GROUP_SIZE
      BY <1>2, <3>1
    <3>. QED
      BY <1>2, <3>1, <3>2, Times
  <2>2. CASE q = 0
    <3>1. GROUP_SIZE * g <= GROUP_SIZE * K /\ GROUP_SIZE * K \in Nat
      BY <1>2, <2>1, Times
    <3>. QED
      BY <1>2, <2>1, <2>2, <3>1
  <2>3. CASE q > 0 /\ g = K
    <3>1. GroupSound(trimmed[g])
      BY <1>6, SoundGroups
    <3>2. Held(trimmed[g], p) # UNASSIGNED
      BY <1>7, <3>1, HeldIs
    <3>3. p < q
      BY <1>2, <1>6, <2>1, <2>3, <3>2
    <3>. QED
      BY <1>2, <2>1, <2>3, <3>3
  <2>4. CASE q > 0 /\ g # K
    <3>1. g <= K - 1 /\ K - 1 \in Nat
      BY <1>2, <2>4
    <3>2. GROUP_SIZE * g <= GROUP_SIZE * (K - 1) /\ GROUP_SIZE * (K - 1) \in Nat
      BY <1>2, <2>1, <3>1, Times
    <3>. QED
      BY <1>2, <2>1, <2>4, <3>2
  <2>. QED
    BY <1>2, <2>2, <2>3, <2>4
<1>8. ShapeSound(u)
  <2>1. DOMAIN u.groups = 1 .. K /\ u.table_size = n /\ u.groups = trimmed
    BY <1>5, <1>6
  <2>2. u = [groups |-> u.groups, table_size |-> u.table_size, num_buckets |-> u.num_buckets]
    BY <1>5
  <2>. QED
    BY <1>6, <1>7, <2>1, <2>2 DEF ShapeSound, K
<1>9. u.num_buckets = Cardinality(Assigned(u))
  BY <1>5, <1>8, GroupsCount
<1>10. Locations(u) = 0 .. n - 1
  BY <1>5 DEF Locations
<1>11. ASSUME NEW i \in 0 .. n - 1 PROVE Elements(u)[i] = Elements(t)[i]
  <2>. DEFINE m == group_num(i)
              p == pos_in_group(i)
  <2>1. i \in Locations(u) /\ i \in Locations(t) /\ i \in Nat /\ i < n
    BY <1>1, <1>10
  <2>2. m \in DOMAIN u.groups /\ p \in Positions /\ i = GROUP_SIZE * (m - 1) + p
    BY <1>8, <2>1, GroupOf, Located
  <2>3. m \in 1 .. K
    BY <1>5, <1>6, <2>2
  <2>4. Elements(u)[i] = Held(trimmed[m], p)
    BY <1>5, <1>8, <2>1, ElementIs DEF which_group
  <2>5. Elements(t)[i] = Held(t.groups[m], p)
    BY <1>1, <2>1, ElementIs DEF which_group
  <2>6. ~(q > 0 /\ m = K /\ q <= p)
    <3>. SUFFICES ASSUME q > 0, m = K, q <= p PROVE FALSE
      OBVIOUS
    <3>1. n = GROUP_SIZE * (K - 1) + q /\ GROUP_SIZE * (K - 1) \in Nat
      BY <1>2, Times
    <3>2. i = GROUP_SIZE * (K - 1) + p
      BY <2>2
    <3>3. p \in Nat
      BY <1>2, <2>2
    <3>. HIDE DEF p, m
    <3>. QED
      BY <1>2, <2>1, <3>1, <3>2, <3>3
  <2>. HIDE DEF m, p
  <2>. QED
    BY <1>6, <2>2, <2>3, <2>4, <2>5, <2>6
<1>12. Elements(u) = [i \in 0 .. n - 1 |-> Elements(t)[i]]
  <2>1. Elements(u) = [i \in 0 .. n - 1 |-> Elements(u)[i]]
    BY <1>10 DEF Elements
  <2>. QED
    BY <1>11, <2>1
<1>13. TableSound(u) /\ u.table_size = n
  BY <1>5, <1>8, <1>9 DEF TableSound
<1>. QED
  BY <1>12, <1>13 DEF u

\* resize, either way.
LEMMA ResizeSound ==
  ASSUME NEW t, TableSound(t), NEW n \in Nat
  PROVE  LET u == resize(t, n)
         IN  /\ TableSound(u) /\ u.table_size = n
             /\ Elements(u) = [i \in 0 .. n - 1 |-> IF i \in Locations(t)
                                                    THEN Elements(t)[i] ELSE UNASSIGNED]
<1>1. t.table_size \in Nat /\ Locations(t) = 0 .. t.table_size - 1
  BY DEF TableSound, ShapeSound, Locations
<1>2. CASE n < t.table_size
  <2>1. \A i \in 0 .. n - 1 : i \in Locations(t)
    BY <1>1, <1>2
  <2>2. [i \in 0 .. n - 1 |-> Elements(t)[i]] =
          [i \in 0 .. n - 1 |-> IF i \in Locations(t) THEN Elements(t)[i] ELSE UNASSIGNED]
    BY <2>1
  <2>. QED
    BY <1>2, <2>2, ShrinkSound
<1>3. CASE ~(n < t.table_size)
  <2>1. resize(t, n) = [t EXCEPT !.groups = resized_groups(t, n), !.table_size = n]
    BY <1>3 DEF resize
  <2>2. t.table_size <= n
    BY <1>1, <1>3
  <2>. DEFINE u == [t EXCEPT !.groups = resized_groups(t, n), !.table_size = n]
  <2>3. /\ TableSound(u) /\ u.table_size = n
        /\ Elements(u) = [i \in 0 .. n - 1 |-> IF i \in Locations(t)
                                               THEN Elements(t)[i] ELSE UNASSIGNED]
    BY <2>2, GrowSound
  <2>. HIDE DEF u
  <2>4. resize(t, n) = u
    BY <2>1 DEF u
  <2>. QED
    BY <2>3, <2>4
<1>. QED
  BY <1>2, <1>3

-----------------------------------------------------------------------------
(* The walk over the assigned elements.  The stop of an assigned location  *)
(* is its group and its rank there, and the stops are ordered by rows and  *)
(* then by columns as the locations are by number.                         *)

Stop(t, i) ==
  Iterator(group_num(i), Rank(which_group(t, i).bitmap, pos_in_group(i)))

\* In a group there is a position of every rank below its count.
LEMMA RankTaken ==
  ASSUME NEW bm, NEW m \in Nat, NEW k \in Nat, k < Rank(bm, m)
  PROVE  \E p \in 0 .. m - 1 : bmtest(bm, p) /\ Rank(bm, p) = k
<1>. DEFINE Above == {p \in Nat : p <= m /\ k < Rank(bm, p)}
<1>1. Above \in SUBSET Nat /\ m \in Above
  OBVIOUS
<1>. HIDE DEF Above
<1>2. PICK p \in Above : \A q \in Above : p <= q
  BY <1>1, LeastNumber
<1>3. p \in Nat /\ p <= m /\ k < Rank(bm, p)
  BY <1>2 DEF Above
<1>4. p # 0
  <2>1. Before(bm, 0) = {}
    BY DEF Before
  <2>2. Rank(bm, 0) = 0
    BY <2>1, FS_EmptySet DEF Rank
  <2>. QED
    BY <1>3, <2>2
<1>. DEFINE q == p - 1
<1>5. q \in Nat /\ q + 1 = p /\ q \in 0 .. m - 1 /\ ~(p <= q)
  BY <1>3, <1>4
<1>. HIDE DEF q
<1>6. q \notin Above
  BY <1>2, <1>5
<1>7. ~(k < Rank(bm, q))
  BY <1>3, <1>5, <1>6 DEF Above
<1>8. Rank(bm, q) \in Nat /\ Rank(bm, p) = Rank(bm, q) + (IF bmtest(bm, q) THEN 1 ELSE 0)
  BY <1>5, RankType, RankNext
<1>9. bmtest(bm, q) /\ Rank(bm, q) = k
  BY <1>3, <1>7, <1>8
<1>. QED
  BY <1>5, <1>9

\* Stops lie in the packed arrays, and each place in one of them is a stop.
LEMMA StopIsPlace ==
  ASSUME NEW t, ShapeSound(t), NEW i \in Assigned(t)
  PROVE  /\ i \in Nat /\ i \in Locations(t) /\ Stop(t, i).row \in DOMAIN t.groups
         /\ Stop(t, i).col \in 0 .. t.groups[Stop(t, i).row].num_buckets - 1
         /\ get_iter(t, i) = Stop(t, i)
         /\ Stop(t, i) = Iterator(Stop(t, i).row, Stop(t, i).col)
<1>. DEFINE g == which_group(t, i)
            p == pos_in_group(i)
<1>1. i \in Locations(t) /\ bmtest(g.bitmap, p)
  BY DEF Assigned, test
<1>2. i \in Nat /\ group_num(i) \in DOMAIN t.groups /\ p \in Positions /\ GroupSound(g)
  BY <1>1, GroupOf
<1>3. g = t.groups[group_num(i)]
  BY DEF which_group
<1>. DEFINE r == Rank(g.bitmap, p)
<1>4. r \in Nat /\ pos_to_offset(g.bitmap, p) = r
  BY <1>2, HeldIs
<1>5. r < g.num_buckets /\ g.num_buckets \in Nat
  <2>1. p \in Nat /\ GROUP_SIZE \in Nat /\ p < GROUP_SIZE
    BY <1>2, CharsAre DEF Positions
  <2>2. g.num_buckets = Rank(g.bitmap, GROUP_SIZE) /\ g.num_buckets \in Nat
    BY <1>2 DEF GroupSound
  <2>. QED
    BY <1>1, <2>1, <2>2, RankGrows
<1>6. Stop(t, i) = Iterator(group_num(i), r)
  BY DEF Stop
<1>7. get_iter(t, i) = Iterator(group_num(i), r)
  BY <1>4 DEF get_iter
<1>. HIDE DEF g, p, r
<1>8. Iterator(group_num(i), r).row = group_num(i) /\ Iterator(group_num(i), r).col = r
  BY DEF Iterator
<1>. QED
  BY <1>1, <1>2, <1>3, <1>4, <1>5, <1>6, <1>7, <1>8

\* Every place in a packed array is that of an assigned location: no rank is
\* skipped.
LEMMA PlaceIsStop ==
  ASSUME NEW t, ShapeSound(t), NEW n \in DOMAIN t.groups,
         NEW c \in 0 .. t.groups[n].num_buckets - 1
  PROVE  \E i \in Assigned(t) : Stop(t, i) = Iterator(n, c)
<1>. DEFINE g == t.groups[n]
<1>1. /\ n \in Nat \ {0} /\ n \in 1 .. num_groups(t.table_size) /\ g \in Groups
      /\ t.table_size \in Nat
  <2>1. /\ DOMAIN t.groups = 1 .. num_groups(t.table_size)
        /\ num_groups(t.table_size) \in Nat /\ t.table_size \in Nat
        /\ t.groups[n] \in Groups
    BY NumGroups DEF ShapeSound
  <2>. QED
    BY <2>1
<1>2. GroupSound(g)
  BY <1>1, SoundGroups
<1>3. g.num_buckets = Rank(g.bitmap, GROUP_SIZE) /\ g.num_buckets \in Nat /\ GROUP_SIZE \in Nat
  BY <1>2, CharsAre DEF GroupSound
<1>4. PICK p \in 0 .. GROUP_SIZE - 1 : bmtest(g.bitmap, p) /\ Rank(g.bitmap, p) = c
  <2>1. c \in Nat /\ c < Rank(g.bitmap, GROUP_SIZE)
    BY <1>3
  <2>. HIDE DEF g
  <2>. QED
    BY <1>3, <2>1, RankTaken
<1>5. p \in Positions
  BY <1>4 DEF Positions
<1>. DEFINE i == GROUP_SIZE * (n - 1) + p
<1>6. i \in Nat /\ group_num(i) = n /\ pos_in_group(i) = p
  BY <1>1, <1>5, LocationOf
<1>7. i < t.table_size
  BY <1>4, <1>5 DEF ShapeSound
<1>. HIDE DEF i
<1>8. i \in Locations(t)
  BY <1>1, <1>6, <1>7 DEF Locations
<1>9. which_group(t, i) = g
  BY <1>6 DEF which_group
<1>10. i \in Assigned(t)
  BY <1>4, <1>6, <1>8, <1>9 DEF Assigned, test
<1>11. Stop(t, i) = Iterator(n, c)
  BY <1>4, <1>6, <1>9 DEF Stop
<1>. QED
  BY <1>10, <1>11

\* Stops are in the order of their locations.
LEMMA StopsOrdered ==
  ASSUME NEW t, ShapeSound(t), NEW i \in Assigned(t), NEW j \in Assigned(t), i < j
  PROVE  \/ Stop(t, i).row < Stop(t, j).row
         \/ Stop(t, i).row = Stop(t, j).row /\ Stop(t, i).col < Stop(t, j).col
<1>. DEFINE n == group_num(i)
            m == group_num(j)
            p == pos_in_group(i)
            q == pos_in_group(j)
<1>1. /\ i \in Nat /\ j \in Nat /\ i \in Locations(t) /\ j \in Locations(t)
      /\ bmtest(which_group(t, i).bitmap, p)
  BY StopIsPlace DEF Assigned, test
<1>2. /\ n \in Nat \ {0} /\ p \in Positions /\ i = GROUP_SIZE * (n - 1) + p
      /\ m \in Nat \ {0} /\ q \in Positions /\ j = GROUP_SIZE * (m - 1) + q
  BY <1>1, Located
<1>3. /\ Stop(t, i).row = n /\ Stop(t, i).col = Rank(which_group(t, i).bitmap, p)
      /\ Stop(t, j).row = m /\ Stop(t, j).col = Rank(which_group(t, j).bitmap, q)
  BY DEF Stop, Iterator
<1>4. n = m => which_group(t, i) = which_group(t, j)
  BY DEF which_group
<1>. HIDE DEF n, m, p, q
<1>5. GROUP_SIZE \in Nat \ {0} /\ p \in 0 .. GROUP_SIZE - 1 /\ q \in 0 .. GROUP_SIZE - 1
  BY <1>2, CharsAre DEF Positions
<1>6. ~(m < n)
  <2>. SUFFICES ASSUME m < n PROVE FALSE
    OBVIOUS
  <2>1. m \in Nat /\ n - 1 \in Nat /\ m <= n - 1
    BY <1>2
  <2>. DEFINE x == GROUP_SIZE * (n - 1)
              y == GROUP_SIZE * m
              z == GROUP_SIZE * (m - 1)
  <2>2. x \in Nat /\ y \in Nat /\ y <= x
    BY <1>5, <2>1, Times
  <2>3. z \in Nat /\ z + GROUP_SIZE = y
    <3>1. m - 1 \in Nat
      BY <1>2
    <3>. DEFINE k == m - 1
    <3>2. k \in Nat /\ m = k + 1
      BY <1>2, <3>1
    <3>. HIDE DEF k
    <3>3. GROUP_SIZE * k \in Nat /\ GROUP_SIZE * k + GROUP_SIZE = GROUP_SIZE * (k + 1)
      BY <1>5, <3>2
    <3>. QED
      BY <3>2, <3>3 DEF k
  <2>4. i = x + p /\ j = z + q
    BY <1>2
  <2>. HIDE DEF x, y, z
  <2>. QED
    BY <1>5, <2>2, <2>3, <2>4
<1>7. n = m => p < q
  <2>. SUFFICES ASSUME n = m PROVE p < q
    OBVIOUS
  <2>. DEFINE x == GROUP_SIZE * (n - 1)
  <2>1. x \in Nat
    <3>1. n - 1 \in Nat /\ GROUP_SIZE \in Nat
      BY <1>2, <1>5
    <3>. QED
      BY <3>1, Times
  <2>2. i = x + p /\ j = x + q
    BY <1>2
  <2>. HIDE DEF x
  <2>. QED
    BY <1>5, <2>1, <2>2
<1>8. n = m => Stop(t, i).col < Stop(t, j).col
  <2>. SUFFICES ASSUME n = m PROVE Stop(t, i).col < Stop(t, j).col
    OBVIOUS
  <2>. DEFINE bm == which_group(t, i).bitmap
  <2>1. bmtest(bm, p) /\ p < q /\ p \in Nat /\ q \in Nat
    BY <1>1, <1>5, <1>7
  <2>2. Rank(bm, p) < Rank(bm, q)
    BY <2>1, RankGrows
  <2>. QED
    BY <1>3, <1>4, <2>2
<1>. QED
  BY <1>2, <1>3, <1>6, <1>8

\* j is the next assigned location after i.
Follows(t, i, j) == i < j /\ \A x \in Assigned(t) : ~(i < x /\ x < j)

\* What advance_past_end makes of a place, or of the end of a row.
LEMMA Advances ==
  ASSUME NEW t, ShapeSound(t), NEW n \in DOMAIN t.groups,
         NEW c \in 0 .. t.groups[n].num_buckets
  PROVE  LET it   == Iterator(n, c)
             next == advance_past_end(t.groups, it)
             full == {r \in n + 1 .. Len(t.groups) : t.groups[r].num_buckets > 0}
         IN  /\ c < t.groups[n].num_buckets => next = it
             /\ c = t.groups[n].num_buckets /\ full = {} => next = nonempty_end(t)
             /\ c = t.groups[n].num_buckets /\ full # {} =>
                  \E m \in full : next = Iterator(m, 0) /\ \A r \in full : m <= r
<1>. DEFINE it   == Iterator(n, c)
            next == advance_past_end(t.groups, it)
            N    == Len(t.groups)
            full == {r \in n + 1 .. N : t.groups[r].num_buckets > 0}
            size == t.groups[n].num_buckets
<1>1. N \in Nat /\ DOMAIN t.groups = 1 .. N /\ n \in 1 .. N
  <2>1. t.groups \in [1 .. num_groups(t.table_size) -> Groups] /\ num_groups(t.table_size) \in Nat
    BY NumGroups DEF ShapeSound
  <2>. QED
    BY <2>1
<1>2. size \in Nat /\ c \in Nat
  <2>1. GroupSound(t.groups[n])
    BY SoundGroups DEF ShapeSound
  <2>. QED
    BY <2>1 DEF GroupSound
<1>3. it.row = n /\ it.col = c
  BY DEF Iterator
<1>4. next = IF c # size THEN it ELSE Iterator(Min(full \cup {N + 1}), 0)
  BY <1>1, <1>3 DEF advance_past_end, row_end
<1>5. ASSUME full = {} PROVE Min(full \cup {N + 1}) = N + 1
  <2>1. {N + 1} \in SUBSET Nat /\ N + 1 \in {N + 1} /\ \A x \in {N + 1} : N + 1 <= x
    BY <1>1
  <2>2. Min({N + 1}) = N + 1
    BY <2>1, MinIs
  <2>. QED
    BY <1>5, <2>2
<1>6. ASSUME full # {}
      PROVE  \E m \in full : Min(full \cup {N + 1}) = m /\ \A r \in full : m <= r
  <2>1. full \in SUBSET Nat /\ \A r \in full : r <= N
    BY <1>1
  <2>. HIDE DEF full
  <2>2. PICK m \in full : \A r \in full : m <= r
    BY <1>6, <2>1, LeastNumber
  <2>. DEFINE T == full \cup {N + 1}
  <2>3. T \in SUBSET Nat /\ m \in T /\ \A r \in T : m <= r
    <3>1. m \in Nat /\ m <= N + 1 /\ N + 1 \in Nat
      BY <1>1, <2>1
    <3>2. T \in SUBSET Nat
      BY <2>1, <3>1
    <3>. QED
      BY <2>2, <3>1, <3>2
  <2>. HIDE DEF T
  <2>4. Min(T) = m
    BY <2>3, MinIs
  <2>. QED
    BY <2>2, <2>4 DEF T
<1>7. nonempty_end(t) = Iterator(N + 1, 0)
  BY DEF nonempty_end, row_end
<1>. HIDE DEF it, next, full, N, size
<1>8. c < size => next = it
  BY <1>2, <1>4
<1>9. c = size /\ full = {} => next = nonempty_end(t)
  BY <1>4, <1>5, <1>7
<1>10. c = size /\ full # {} => \E m \in full : next = Iterator(m, 0) /\ \A r \in full : m <= r
  BY <1>4, <1>6
<1>. QED
  BY <1>8, <1>9, <1>10 DEF it, next, full, N, size

\* The numbers of rows and of what is in them, of a table and of its stops.
LEMMA RowsAre ==
  ASSUME NEW t, ShapeSound(t)
  PROVE  /\ Len(t.groups) \in Nat /\ DOMAIN t.groups = 1 .. Len(t.groups)
         /\ \A n \in DOMAIN t.groups : t.groups[n].num_buckets \in Nat
         /\ \A i \in Assigned(t) :
              /\ i \in Nat /\ Stop(t, i).row \in 1 .. Len(t.groups)
              /\ Stop(t, i).row \in Nat /\ Stop(t, i).col \in Nat
              /\ Stop(t, i).col < t.groups[Stop(t, i).row].num_buckets
<1>1. Len(t.groups) \in Nat /\ DOMAIN t.groups = 1 .. Len(t.groups)
  <2>1. t.groups \in [1 .. num_groups(t.table_size) -> Groups] /\ num_groups(t.table_size) \in Nat
    BY NumGroups DEF ShapeSound
  <2>. QED
    BY <2>1
<1>2. ASSUME NEW n \in DOMAIN t.groups PROVE t.groups[n].num_buckets \in Nat
  <2>1. GroupSound(t.groups[n])
    BY SoundGroups DEF ShapeSound
  <2>. QED
    BY <2>1 DEF GroupSound
<1>3. ASSUME NEW i \in Assigned(t)
      PROVE  /\ i \in Nat /\ Stop(t, i).row \in 1 .. Len(t.groups)
             /\ Stop(t, i).row \in Nat /\ Stop(t, i).col \in Nat
             /\ Stop(t, i).col < t.groups[Stop(t, i).row].num_buckets
  <2>. DEFINE r == Stop(t, i).row
              c == Stop(t, i).col
  <2>1. i \in Nat /\ r \in DOMAIN t.groups /\ c \in 0 .. t.groups[r].num_buckets - 1
    BY StopIsPlace
  <2>. HIDE DEF r, c
  <2>2. t.groups[r].num_buckets \in Nat /\ r \in 1 .. Len(t.groups) /\ r \in Nat
    BY <1>1, <1>2, <2>1
  <2>3. c \in Nat /\ c < t.groups[r].num_buckets
    BY <2>1, <2>2
  <2>. QED
    BY <2>1, <2>2, <2>3 DEF r, c
<1>. QED
  BY <1>1, <1>2, <1>3

\* The order of stops decides that of locations.
LEMMA StopsApart ==
  ASSUME NEW t, ShapeSound(t), NEW i \in Assigned(t), NEW j \in Assigned(t),
         \/ Stop(t, i).row < Stop(t, j).row
         \/ Stop(t, i).row = Stop(t, j).row /\ Stop(t, i).col < Stop(t, j).col
  PROVE  i < j
<1>1. i \in Nat /\ j \in Nat
  BY RowsAre
<1>2. /\ Stop(t, i).row \in Nat /\ Stop(t, i).col \in Nat
      /\ Stop(t, j).row \in Nat /\ Stop(t, j).col \in Nat
  BY RowsAre
<1>3. CASE j < i
  <2>1. \/ Stop(t, j).row < Stop(t, i).row
        \/ Stop(t, j).row = Stop(t, i).row /\ Stop(t, j).col < Stop(t, i).col
    BY <1>3, StopsOrdered
  <2>. QED
    BY <1>2, <2>1
<1>4. CASE i = j
  BY <1>2, <1>4
<1>. QED
  BY <1>1, <1>3, <1>4

\* The first stop.
LEMMA WalkBegins ==
  ASSUME NEW t, ShapeSound(t)
  PROVE  \/ Assigned(t) = {} /\ nonempty_begin(t) = nonempty_end(t)
         \/ \E i \in Assigned(t) : /\ nonempty_begin(t) = Stop(t, i)
                                   /\ \A x \in Assigned(t) : i <= x
<1>. DEFINE N == Len(t.groups)
            full == {r \in 1 + 1 .. N : t.groups[r].num_buckets > 0}
<1>1. /\ N \in Nat /\ DOMAIN t.groups = 1 .. N
      /\ \A n \in 1 .. N : t.groups[n].num_buckets \in Nat
  BY RowsAre
<1>2. CASE N = 0
  <2>1. Assigned(t) = {}
    <3>1. \A i \in Assigned(t) : Stop(t, i).row \in 1 .. N
      BY RowsAre
    <3>. QED
      BY <1>2, <3>1
  <2>2. Iterator(1, 0).row = 1
    BY DEF Iterator
  <2>3. nonempty_begin(t) = nonempty_end(t)
    BY <1>2, <2>2 DEF nonempty_begin, nonempty_end, advance_past_end, row_end
  <2>. QED
    BY <2>1, <2>3
<1>3. ASSUME NEW i \in Assigned(t), nonempty_begin(t) = Stop(t, i),
             \A x \in Assigned(t) : \/ Stop(t, i).row < Stop(t, x).row
                                    \/ /\ Stop(t, i).row = Stop(t, x).row
                                       /\ Stop(t, i).col <= Stop(t, x).col
      PROVE  \A x \in Assigned(t) : i <= x
  <2>. SUFFICES ASSUME NEW x \in Assigned(t), x < i PROVE FALSE
    BY RowsAre
  <2>1. \/ Stop(t, x).row < Stop(t, i).row
        \/ Stop(t, x).row = Stop(t, i).row /\ Stop(t, x).col < Stop(t, i).col
    BY StopsOrdered
  <2>2. /\ Stop(t, i).row \in Nat /\ Stop(t, i).col \in Nat
        /\ Stop(t, x).row \in Nat /\ Stop(t, x).col \in Nat
    BY RowsAre
  <2>3. \/ Stop(t, i).row < Stop(t, x).row
        \/ Stop(t, i).row = Stop(t, x).row /\ Stop(t, i).col <= Stop(t, x).col
    BY <1>3
  <2>. QED
    BY <2>1, <2>2, <2>3
<1>4. CASE N # 0
  <2>1. 1 \in DOMAIN t.groups /\ t.groups[1].num_buckets \in Nat
    BY <1>1, <1>4
  <2>2. 0 \in 0 .. t.groups[1].num_buckets
    BY <2>1
  <2>3. /\ 0 < t.groups[1].num_buckets => nonempty_begin(t) = Iterator(1, 0)
        /\ 0 = t.groups[1].num_buckets /\ full = {} => nonempty_begin(t) = nonempty_end(t)
        /\ 0 = t.groups[1].num_buckets /\ full # {} =>
             \E m \in full : nonempty_begin(t) = Iterator(m, 0) /\ \A r \in full : m <= r
    BY <2>1, <2>2, Advances DEF nonempty_begin
  <2>4. ASSUME NEW m \in 1 .. N, 0 < t.groups[m].num_buckets, nonempty_begin(t) = Iterator(m, 0),
               \A x \in Assigned(t) : m <= Stop(t, x).row
        PROVE  \E i \in Assigned(t) : /\ nonempty_begin(t) = Stop(t, i)
                                      /\ \A x \in Assigned(t) : i <= x
    <3>1. m \in DOMAIN t.groups /\ 0 \in 0 .. t.groups[m].num_buckets - 1
      BY <1>1, <2>4
    <3>2. PICK i \in Assigned(t) : Stop(t, i) = Iterator(m, 0)
      BY <3>1, PlaceIsStop
    <3>3. Stop(t, i).row = m /\ Stop(t, i).col = 0
      BY <3>2 DEF Iterator
    <3>4. \A x \in Assigned(t) : Stop(t, x).row \in Nat /\ Stop(t, x).col \in Nat
      BY RowsAre
    <3>5. \A x \in Assigned(t) : \/ Stop(t, i).row < Stop(t, x).row
                                 \/ /\ Stop(t, i).row = Stop(t, x).row
                                    /\ Stop(t, i).col <= Stop(t, x).col
      BY <2>4, <3>3, <3>4
    <3>. QED
      BY <1>3, <2>4, <3>2, <3>5
  <2>5. CASE 0 < t.groups[1].num_buckets
    <3>1. \A x \in Assigned(t) : 1 <= Stop(t, x).row
      BY RowsAre
    <3>. QED
      BY <1>1, <1>4, <2>3, <2>4, <2>5, <3>1
  <2>6. \A x \in Assigned(t) : 0 = t.groups[1].num_buckets => Stop(t, x).row \in full
    <3>. SUFFICES ASSUME NEW x \in Assigned(t), 0 = t.groups[1].num_buckets
                  PROVE  Stop(t, x).row \in full
      OBVIOUS
    <3>. DEFINE r == Stop(t, x).row
    <3>1. r \in 1 .. N /\ Stop(t, x).col \in Nat /\ Stop(t, x).col < t.groups[r].num_buckets
      BY RowsAre
    <3>. HIDE DEF r
    <3>2. t.groups[r].num_buckets \in Nat /\ t.groups[r].num_buckets > 0
      BY <1>1, <3>1
    <3>3. r # 1
      BY <3>2
    <3>4. r \in full
      BY <1>1, <3>1, <3>2, <3>3
    <3>. QED
      BY <3>4 DEF r
  <2>7. CASE 0 = t.groups[1].num_buckets /\ full = {}
    <3>1. Assigned(t) = {}
      BY <2>6, <2>7
    <3>. QED
      BY <2>3, <2>7, <3>1
  <2>8. CASE 0 = t.groups[1].num_buckets /\ full # {}
    <3>1. PICK m \in full : nonempty_begin(t) = Iterator(m, 0) /\ \A r \in full : m <= r
      BY <2>3, <2>8
    <3>2. m \in 1 .. N /\ 0 < t.groups[m].num_buckets
      BY <1>1
    <3>3. \A x \in Assigned(t) : m <= Stop(t, x).row
      BY <2>6, <2>8, <3>1
    <3>. HIDE DEF full
    <3>. QED
      BY <2>4, <3>1, <3>2, <3>3
  <2>. QED
    BY <2>1, <2>5, <2>7, <2>8
<1>. QED
  BY <1>2, <1>4

\* From one stop to the next, over rows with nothing in them and to the end.
LEMMA WalkGoesOn ==
  ASSUME NEW t, ShapeSound(t), NEW i \in Assigned(t)
  PROVE  LET next == increment(t, Stop(t, i))
         IN  \/ next = nonempty_end(t) /\ \A x \in Assigned(t) : ~(i < x)
             \/ \E j \in Assigned(t) : next = Stop(t, j) /\ Follows(t, i, j)
<1>. DEFINE N    == Len(t.groups)
            n    == Stop(t, i).row
            c    == Stop(t, i).col
            next == increment(t, Stop(t, i))
            full == {r \in n + 1 .. N : t.groups[r].num_buckets > 0}
<1>1. /\ N \in Nat /\ DOMAIN t.groups = 1 .. N
      /\ \A r \in 1 .. N : t.groups[r].num_buckets \in Nat
      /\ i \in Nat /\ n \in 1 .. N /\ n \in Nat /\ c \in Nat /\ c < t.groups[n].num_buckets
      /\ \A x \in Assigned(t) :
           /\ x \in Nat /\ Stop(t, x).row \in 1 .. N
           /\ Stop(t, x).row \in Nat /\ Stop(t, x).col \in Nat
           /\ Stop(t, x).col < t.groups[Stop(t, x).row].num_buckets
  <2>1. N \in Nat /\ DOMAIN t.groups = 1 .. N
    BY RowsAre
  <2>2. \A r \in 1 .. N : t.groups[r].num_buckets \in Nat
    BY <2>1, RowsAre
  <2>3. \A x \in Assigned(t) :
           /\ x \in Nat /\ Stop(t, x).row \in 1 .. N
           /\ Stop(t, x).row \in Nat /\ Stop(t, x).col \in Nat
           /\ Stop(t, x).col < t.groups[Stop(t, x).row].num_buckets
    BY RowsAre
  <2>. QED
    BY <2>1, <2>2, <2>3
<1>2. /\ c + 1 < t.groups[n].num_buckets => next = Iterator(n, c + 1)
      /\ c + 1 = t.groups[n].num_buckets /\ full = {} => next = nonempty_end(t)
      /\ c + 1 = t.groups[n].num_buckets /\ full # {} =>
           \E m \in full : next = Iterator(m, 0) /\ \A r \in full : m <= r
  <2>1. t.groups[n].num_buckets \in Nat
    BY <1>1
  <2>2. n \in DOMAIN t.groups /\ c + 1 \in 0 .. t.groups[n].num_buckets
    BY <1>1, <2>1
  <2>3. next = advance_past_end(t.groups, Iterator(n, c + 1))
    BY DEF increment
  <2>. HIDE DEF n, c, next
  <2>. QED
    BY <2>2, <2>3, Advances
<1>3. \A x \in Assigned(t) : i < x =>
        \/ n < Stop(t, x).row
        \/ n = Stop(t, x).row /\ c < Stop(t, x).col
  BY StopsOrdered
<1>4. ASSUME NEW j \in Assigned(t), next = Stop(t, j),
             \/ n < Stop(t, j).row
             \/ n = Stop(t, j).row /\ c < Stop(t, j).col,
             \A x \in Assigned(t) :
               \/ n < Stop(t, x).row
               \/ n = Stop(t, x).row /\ c < Stop(t, x).col
               => \/ Stop(t, j).row < Stop(t, x).row
                  \/ Stop(t, j).row = Stop(t, x).row /\ Stop(t, j).col <= Stop(t, x).col
      PROVE  \E k \in Assigned(t) : next = Stop(t, k) /\ Follows(t, i, k)
  <2>1. i < j
    BY <1>4, StopsApart
  <2>2. ASSUME NEW x \in Assigned(t), i < x, x < j PROVE FALSE
    <3>1. \/ Stop(t, j).row < Stop(t, x).row
          \/ Stop(t, j).row = Stop(t, x).row /\ Stop(t, j).col <= Stop(t, x).col
      BY <1>3, <1>4, <2>2
    <3>2. \/ Stop(t, x).row < Stop(t, j).row
          \/ Stop(t, x).row = Stop(t, j).row /\ Stop(t, x).col < Stop(t, j).col
      BY <2>2, StopsOrdered
    <3>3. /\ Stop(t, j).row \in Nat /\ Stop(t, j).col \in Nat
          /\ Stop(t, x).row \in Nat /\ Stop(t, x).col \in Nat
      BY RowsAre
    <3>. QED
      BY <3>1, <3>2, <3>3
  <2>. QED
    BY <1>4, <2>1, <2>2 DEF Follows
<1>5. CASE c + 1 < t.groups[n].num_buckets
  <2>1. n \in DOMAIN t.groups /\ c + 1 \in 0 .. t.groups[n].num_buckets - 1
    <3>1. t.groups[n].num_buckets \in Nat
      BY <1>1
    <3>. QED
      BY <1>1, <1>5, <3>1
  <2>2. PICK j \in Assigned(t) : Stop(t, j) = Iterator(n, c + 1)
    <3>. HIDE DEF n, c
    <3>. QED
      BY <2>1, PlaceIsStop
  <2>3. Stop(t, j).row = n /\ Stop(t, j).col = c + 1
    BY <2>2 DEF Iterator
  <2>4. \A x \in Assigned(t) : Stop(t, x).row \in Nat /\ Stop(t, x).col \in Nat
    BY RowsAre
  <2>5. next = Stop(t, j)
    BY <1>2, <1>5, <2>2
  <2>6. \E k \in Assigned(t) : next = Stop(t, k) /\ Follows(t, i, k)
    <3>. HIDE DEF n, c, next
    <3>. QED
      BY <1>1, <1>4, <2>3, <2>4, <2>5
  <2>. QED
    BY <2>6
<1>6. ASSUME c + 1 = t.groups[n].num_buckets, NEW x \in Assigned(t),
             \/ n < Stop(t, x).row
             \/ n = Stop(t, x).row /\ c < Stop(t, x).col
      PROVE  Stop(t, x).row \in full
  <2>. DEFINE r == Stop(t, x).row
              d == Stop(t, x).col
  <2>1. r \in 1 .. N /\ r \in Nat /\ d \in Nat /\ d < t.groups[r].num_buckets
    BY <1>1
  <2>2. \/ n < r
        \/ n = r /\ c < d
    BY <1>6
  <2>3. t.groups[r].num_buckets \in Nat
    BY <1>1
  <2>. HIDE DEF r, d, n, c
  <2>4. n < r
    BY <1>1, <1>6, <2>1, <2>2, <2>3
  <2>5. r \in full
    BY <1>1, <2>1, <2>3, <2>4
  <2>. QED
    BY <2>5 DEF r
<1>7. CASE c + 1 = t.groups[n].num_buckets /\ full = {}
  <2>1. \A x \in Assigned(t) : ~(i < x)
    BY <1>3, <1>6, <1>7
  <2>. QED
    BY <1>2, <1>7, <2>1
<1>8. CASE c + 1 = t.groups[n].num_buckets /\ full # {}
  <2>1. PICK m \in full : next = Iterator(m, 0) /\ \A r \in full : m <= r
    BY <1>2, <1>8
  <2>2. m \in 1 .. N /\ 0 < t.groups[m].num_buckets /\ n < m /\ m \in Nat
        /\ t.groups[m].num_buckets \in Nat
    BY <1>1
  <2>3. m \in DOMAIN t.groups /\ 0 \in 0 .. t.groups[m].num_buckets - 1
    BY <1>1, <2>2
  <2>4. PICK j \in Assigned(t) : Stop(t, j) = Iterator(m, 0)
    BY <2>3, PlaceIsStop
  <2>5. Stop(t, j).row = m /\ Stop(t, j).col = 0
    BY <2>4 DEF Iterator
  <2>6. \A x \in Assigned(t) : Stop(t, x).row \in Nat /\ Stop(t, x).col \in Nat
    BY RowsAre
  <2>7. \A x \in Assigned(t) :
           \/ n < Stop(t, x).row
           \/ n = Stop(t, x).row /\ c < Stop(t, x).col
           => m <= Stop(t, x).row
    BY <1>6, <1>8, <2>1
  <2>8. \A x \in Assigned(t) :
           \/ n < Stop(t, x).row
           \/ n = Stop(t, x).row /\ c < Stop(t, x).col
           => \/ Stop(t, j).row < Stop(t, x).row
              \/ Stop(t, j).row = Stop(t, x).row /\ Stop(t, j).col <= Stop(t, x).col
    <3>. HIDE DEF n, c, full
    <3>. QED
      BY <2>2, <2>5, <2>6, <2>7
  <2>9. next = Stop(t, j) /\ n < Stop(t, j).row
    BY <2>1, <2>2, <2>4, <2>5
  <2>10. \E k \in Assigned(t) : next = Stop(t, k) /\ Follows(t, i, k)
    <3>. HIDE DEF n, c, next, full
    <3>. QED
      BY <1>4, <2>8, <2>9
  <2>. QED
    BY <2>10
<1>9. c + 1 < t.groups[n].num_buckets \/ c + 1 = t.groups[n].num_buckets
  <2>1. t.groups[n].num_buckets \in Nat
    BY <1>1
  <2>. HIDE DEF n, c
  <2>. QED
    BY <1>1, <2>1
<1>. HIDE DEF next, n, c, full
<1>. QED
  BY <1>5, <1>7, <1>8, <1>9 DEF next

\* A member of a set of numbers that is no less than any other is the greatest.
LEMMA MaxIs ==
  ASSUME NEW T \in SUBSET Nat, NEW w \in T, \A c \in T : c <= w
  PROVE  Max(T) = w
<1>1. \A x \in T : (\A y \in T : x >= y) => x = w
  OBVIOUS
<1>. QED
  BY <1>1 DEF Max

\* Back from the beginning of a row, or from the end of the table, to the last
\* place in front of it.
LEMMA BackOneRow ==
  ASSUME NEW t, ShapeSound(t), NEW i \in Assigned(t), NEW it,
         it.row \in Nat, it.row <= Len(t.groups) + 1,
         it.row = row_end(t.groups) \/ it.col = 0,
         Stop(t, i).row < it.row,
         \A x \in Assigned(t) : Stop(t, x).row < it.row => ~(i < x)
  PROVE  decrement(t, it) = Stop(t, i)
<1>. DEFINE N    == Len(t.groups)
            n    == Stop(t, i).row
            c    == Stop(t, i).col
            R    == it.row
            full == {r \in 1 .. R - 1 : t.groups[r].num_buckets > 0}
<1>1. N \in Nat /\ DOMAIN t.groups = 1 .. N
  BY RowsAre
<1>2. \A r \in 1 .. N : t.groups[r].num_buckets \in Nat
  BY <1>1, RowsAre
<1>3. n \in 1 .. N /\ n \in Nat /\ c \in Nat /\ c < t.groups[n].num_buckets
  BY RowsAre
<1>4. decrement(t, it) = Iterator(Max(full), t.groups[Max(full)].num_buckets - 1)
  BY DEF decrement
<1>5. n \in full
  <2>1. t.groups[n].num_buckets \in Nat
    BY <1>2, <1>3
  <2>2. n < R /\ R \in Nat
    OBVIOUS
  <2>. HIDE DEF n, c, R
  <2>. QED
    BY <1>3, <2>1, <2>2
<1>6. ASSUME NEW r \in 1 .. N, NEW d \in 0 .. t.groups[r].num_buckets - 1, r < R
      PROVE  ~(n < r) /\ (n = r => ~(c < d))
  <2>1. r \in DOMAIN t.groups
    BY <1>1
  <2>2. PICK x \in Assigned(t) : Stop(t, x) = Iterator(r, d)
    BY <2>1, PlaceIsStop
  <2>3. Stop(t, x).row = r /\ Stop(t, x).col = d
    BY <2>2 DEF Iterator
  <2>4. ~(i < x)
    BY <1>6, <2>3
  <2>. QED
    BY <2>3, <2>4, StopsApart
<1>7. ASSUME NEW r \in full PROVE r <= n
  <2>1. r \in 1 .. N /\ r < R /\ r \in Nat
    BY <1>1
  <2>2. t.groups[r].num_buckets \in Nat /\ t.groups[r].num_buckets > 0
    BY <1>2, <2>1
  <2>3. 0 \in 0 .. t.groups[r].num_buckets - 1
    BY <2>2
  <2>4. ~(n < r)
    BY <1>6, <2>1, <2>3
  <2>. HIDE DEF n
  <2>. QED
    BY <1>3, <2>1, <2>4
<1>8. Max(full) = n
  <2>1. full \in SUBSET Nat
    OBVIOUS
  <2>. HIDE DEF full, n
  <2>. QED
    BY <1>5, <1>7, <2>1, MaxIs
<1>9. c = t.groups[n].num_buckets - 1
  <2>. DEFINE size == t.groups[n].num_buckets
  <2>1. size \in Nat /\ c < size
    BY <1>2, <1>3
  <2>2. n < R
    OBVIOUS
  <2>3. c + 1 < size => FALSE
    <3>. SUFFICES ASSUME c + 1 < size PROVE FALSE
      OBVIOUS
    <3>. HIDE DEF n, c, R, full
    <3>1. c + 1 \in 0 .. t.groups[n].num_buckets - 1
      BY <1>3, <2>1
    <3>2. ~(c < c + 1)
      BY <1>3, <1>6, <2>2, <3>1
    <3>. QED
      BY <1>3, <3>2
  <2>. HIDE DEF size, n, c
  <2>4. c = size - 1
    BY <1>3, <2>1, <2>3
  <2>. QED
    BY <2>4 DEF size
<1>10. Stop(t, i) = Iterator(n, c)
  BY StopIsPlace
<1>. HIDE DEF n, c, R, full
<1>. QED
  BY <1>4, <1>8, <1>9, <1>10

\* Going back from an assigned location, or from the end, leads to the one before.
LEMMA WalkGoesBack ==
  ASSUME NEW t, ShapeSound(t), NEW i \in Assigned(t)
  PROVE  /\ \A j \in Assigned(t) : Follows(t, i, j) => decrement(t, Stop(t, j)) = Stop(t, i)
         /\ (\A x \in Assigned(t) : ~(i < x)) => decrement(t, nonempty_end(t)) = Stop(t, i)
<1>1. Len(t.groups) \in Nat
  BY RowsAre
<1>2. \A x \in Assigned(t) :
        /\ x \in Nat /\ Stop(t, x).row \in 1 .. Len(t.groups)
        /\ Stop(t, x).row \in Nat /\ Stop(t, x).col \in Nat
        /\ Stop(t, x).col < t.groups[Stop(t, x).row].num_buckets
  BY RowsAre
<1>3. ASSUME \A x \in Assigned(t) : ~(i < x)
      PROVE  decrement(t, nonempty_end(t)) = Stop(t, i)
  <2>. DEFINE it == nonempty_end(t)
  <2>1. it.row = Len(t.groups) + 1 /\ it.row = row_end(t.groups)
    BY DEF nonempty_end, row_end, Iterator
  <2>. HIDE DEF it
  <2>2. it.row \in Nat /\ it.row <= Len(t.groups) + 1
    BY <1>1, <2>1
  <2>3. Stop(t, i).row < it.row
    BY <1>1, <1>2, <2>1
  <2>4. decrement(t, it) = Stop(t, i)
    BY <1>3, <2>1, <2>2, <2>3, BackOneRow
  <2>. QED
    BY <2>4 DEF it
<1>4. ASSUME NEW j \in Assigned(t), Follows(t, i, j)
      PROVE  decrement(t, Stop(t, j)) = Stop(t, i)
  <2>1. i < j /\ \A x \in Assigned(t) : ~(i < x /\ x < j)
    BY <1>4 DEF Follows
  <2>2. \/ Stop(t, i).row < Stop(t, j).row
        \/ Stop(t, i).row = Stop(t, j).row /\ Stop(t, i).col < Stop(t, j).col
    BY <2>1, StopsOrdered
  <2>3. CASE Stop(t, j).col = 0
    <3>. DEFINE it == Stop(t, j)
    <3>1. it.row \in Nat /\ it.row <= Len(t.groups) + 1
      BY <1>1, <1>2
    <3>2. Stop(t, i).row < it.row
      BY <1>2, <2>2, <2>3
    <3>3. ASSUME NEW x \in Assigned(t), Stop(t, x).row < it.row PROVE ~(i < x)
      <4>1. x < j
        BY <3>3, StopsApart
      <4>. QED
        BY <2>1, <4>1
    <3>4. it.col = 0
      BY <2>3
    <3>. HIDE DEF it
    <3>5. decrement(t, it) = Stop(t, i)
      BY <3>1, <3>2, <3>3, <3>4, BackOneRow
    <3>. QED
      BY <3>5 DEF it
  <2>4. CASE Stop(t, j).col # 0
    <3>. DEFINE r == Stop(t, j).row
                c == Stop(t, j).col
    <3>1. /\ r \in 1 .. Len(t.groups) /\ r \in DOMAIN t.groups /\ r \in Nat
          /\ c \in Nat /\ c # 0 /\ c < t.groups[r].num_buckets
          /\ t.groups[r].num_buckets \in Nat
      <4>1. DOMAIN t.groups = 1 .. Len(t.groups)
        BY RowsAre
      <4>2. \A n \in 1 .. Len(t.groups) : t.groups[n].num_buckets \in Nat
        BY <4>1, RowsAre
      <4>. QED
        BY <1>2, <2>4, <4>1, <4>2
    <3>2. r # row_end(t.groups)
      <4>. HIDE DEF r, c
      <4>. QED
        BY <1>1, <3>1 DEF row_end
    <3>3. decrement(t, Stop(t, j)) = Iterator(r, c - 1)
      <4>1. c > 0
        <5>. HIDE DEF r, c
        <5>. QED
          BY <3>1
      <4>. QED
        BY <3>2, <4>1 DEF decrement
    <3>4. PICK x \in Assigned(t) : Stop(t, x) = Iterator(r, c - 1)
      <4>. HIDE DEF r, c
      <4>1. c - 1 \in 0 .. t.groups[r].num_buckets - 1
        BY <3>1
      <4>. QED
        BY <3>1, <4>1, PlaceIsStop
    <3>5. Stop(t, x).row = r /\ Stop(t, x).col = c - 1
      BY <3>4 DEF Iterator
    <3>6. x < j
      BY <3>1, <3>5, StopsApart
    <3>7. ~(i < x)
      BY <2>1, <3>6
    <3>8. ~(x < i)
      <4>. SUFFICES ASSUME x < i PROVE FALSE
        OBVIOUS
      <4>1. \/ Stop(t, x).row < Stop(t, i).row
            \/ Stop(t, x).row = Stop(t, i).row /\ Stop(t, x).col < Stop(t, i).col
        BY StopsOrdered
      <4>2. Stop(t, i).row \in Nat /\ Stop(t, i).col \in Nat
        BY <1>2
      <4>. QED
        BY <2>2, <3>1, <3>5, <4>1, <4>2
    <3>9. x = i
      BY <1>2, <3>7, <3>8
    <3>. QED
      BY <3>3, <3>4, <3>9
  <2>. QED
    BY <2>3, <2>4
<1>. QED
  BY <1>3, <1>4

\* How many assigned locations are in front of one.
Number(t, i) == Cardinality({x \in Assigned(t) : x < i})

\* The stops of a walk, numbered by the assigned locations before them.
LEMMA Numbered ==
  ASSUME NEW t, ShapeSound(t), NEW i \in Assigned(t)
  PROVE  /\ Number(t, i) \in Nat /\ Cardinality(Assigned(t)) \in Nat
         /\ Number(t, i) < Cardinality(Assigned(t))
         /\ (\A x \in Assigned(t) : i <= x) => Number(t, i) = 0
         /\ (\A x \in Assigned(t) : ~(i < x)) => Cardinality(Assigned(t)) = Number(t, i) + 1
         /\ \A j \in Assigned(t) : Follows(t, i, j) => Number(t, j) = Number(t, i) + 1
         /\ \A j \in Assigned(t) : i < j => Number(t, i) < Number(t, j)
<1>. DEFINE A == Assigned(t)
            Below(j) == {x \in A : x < j}
<1>1. t.table_size \in Nat /\ \A x \in A : x \in Nat
  BY RowsAre DEF ShapeSound
<1>2. \A S \in SUBSET A : IsFiniteSet(S) /\ Cardinality(S) \in Nat
  BY <1>1, AssignedFinite
<1>. HIDE DEF A
<1>3. \A j \in A : Below(j) \in SUBSET A /\ j \notin Below(j)
  BY <1>1
<1>4. \A j \in A : Number(t, j) = Cardinality(Below(j))
  BY DEF Number, A
<1>5. i \in A
  BY DEF A
<1>6. ASSUME NEW j \in A
      PROVE  Cardinality(Below(j) \cup {j}) = Number(t, j) + 1
  <2>1. IsFiniteSet(Below(j)) /\ j \notin Below(j)
    BY <1>2, <1>3
  <2>. HIDE DEF Below
  <2>. QED
    BY <1>4, <2>1, FS_AddElement
<1>7. Number(t, i) \in Nat /\ Cardinality(A) \in Nat
  BY <1>2, <1>3, <1>4, <1>5
<1>8. ASSUME NEW S \in SUBSET A, Below(i) \cup {i} \in SUBSET S
      PROVE  Number(t, i) < Cardinality(S)
  <2>1. IsFiniteSet(S) /\ Cardinality(S) \in Nat
    BY <1>2
  <2>2. Cardinality(Below(i) \cup {i}) <= Cardinality(S)
    <3>. HIDE DEF Below
    <3>. QED
      BY <1>8, <2>1, FS_Subset
  <2>. QED
    BY <1>5, <1>6, <1>7, <2>1, <2>2
<1>9. Number(t, i) < Cardinality(A)
  BY <1>3, <1>5, <1>8
<1>10. ASSUME \A x \in A : i <= x PROVE Number(t, i) = 0
  <2>1. Below(i) = {}
    BY <1>1, <1>5, <1>10
  <2>. HIDE DEF Below
  <2>. QED
    BY <1>4, <1>5, <2>1, FS_EmptySet
<1>11. ASSUME \A x \in A : ~(i < x) PROVE Cardinality(A) = Number(t, i) + 1
  <2>1. A = Below(i) \cup {i}
    BY <1>1, <1>5, <1>11
  <2>. HIDE DEF Below
  <2>. QED
    BY <1>5, <1>6, <2>1
<1>12. ASSUME NEW j \in A, Follows(t, i, j) PROVE Number(t, j) = Number(t, i) + 1
  <2>1. i < j /\ \A x \in A : ~(i < x /\ x < j)
    BY <1>12 DEF Follows, A
  <2>2. Below(j) = Below(i) \cup {i}
    BY <1>1, <1>5, <2>1
  <2>. HIDE DEF Below
  <2>. QED
    BY <1>4, <1>5, <1>6, <2>2
<1>13. ASSUME NEW j \in A, i < j PROVE Number(t, i) < Number(t, j)
  <2>1. Below(i) \cup {i} \in SUBSET Below(j)
    BY <1>1, <1>5, <1>13
  <2>. HIDE DEF Below
  <2>. QED
    BY <1>3, <1>4, <1>8, <2>1
<1>. HIDE DEF Below
<1>. QED
  BY <1>7, <1>9, <1>10, <1>11, <1>12, <1>13 DEF A

\* Numbers are not skipped.
LEMMA NthAssigned ==
  ASSUME NEW t, ShapeSound(t), NEW k \in 0 .. Cardinality(Assigned(t)) - 1
  PROVE  \E i \in Assigned(t) : Number(t, i) = k
<1>. DEFINE n == Cardinality(Assigned(t))
            Good == {m \in 0 .. n - 1 : \E i \in Assigned(t) : Number(t, i) = m}
<1>1. n \in Nat /\ n # 0
  <2>1. n \in Nat
    <3>1. t.table_size \in Nat
      BY DEF ShapeSound
    <3>. QED
      BY <3>1, AssignedFinite
  <2>. QED
    BY <2>1
<1>2. Assigned(t) # {}
  BY <1>1, FS_EmptySet
<1>3. PICK i \in Assigned(t) : \A x \in Assigned(t) : i <= x
  BY <1>2, WalkBegins
<1>4. Number(t, i) = 0
  BY <1>3, Numbered
<1>. HIDE DEF n
<1>5. 0 \in Good
  BY <1>1, <1>4
<1>6. ASSUME NEW m \in 0 + 1 .. n - 1, m - 1 \in Good PROVE m \in Good
  <2>1. PICK j \in Assigned(t) : Number(t, j) = m - 1
    BY <1>6
  <2>2. ~(\A x \in Assigned(t) : ~(j < x))
    <3>. SUFFICES ASSUME \A x \in Assigned(t) : ~(j < x) PROVE FALSE
      OBVIOUS
    <3>1. Cardinality(Assigned(t)) = Number(t, j) + 1
      BY Numbered
    <3>. QED
      BY <1>1, <2>1, <3>1 DEF n
  <2>3. PICK x \in Assigned(t) : Follows(t, j, x)
    BY <2>2, WalkGoesOn
  <2>4. Number(t, x) = Number(t, j) + 1
    BY <2>3, Numbered
  <2>5. Number(t, x) = m
    BY <1>1, <2>1, <2>4
  <2>. QED
    BY <2>5
<1>. HIDE DEF Good
<1>7. \A m \in 0 .. n - 1 : m \in Good
  <2>. DEFINE a == 0
              b == n - 1
  <2>1. /\ a \in Int /\ b \in Int /\ a \in Good
        /\ \A m \in a + 1 .. b : m - 1 \in Good => m \in Good
    BY <1>1, <1>5, <1>6
  <2>. HIDE DEF a, b
  <2>2. \A m \in a .. b : m \in Good
    BY <2>1, Climb
  <2>. QED
    BY <2>2 DEF a, b
<1>. QED
  BY <1>7 DEF Good, n

\* The walk that WalkVisitsAssigned takes.
Walk(t) ==
  CHOOSE walk : walk = [k \in 0 .. Cardinality({i \in Locations(t) : test(t, i)}) |->
                          IF k = 0 THEN nonempty_begin(t) ELSE increment(t, walk[k - 1])]

\* After k steps it is at the k-th assigned location, and then at the end.
LEMMA WalkIs ==
  ASSUME NEW t, ShapeSound(t)
  PROVE  LET n == Cardinality(Assigned(t))
         IN  /\ n \in Nat /\ Walk(t)[n] = nonempty_end(t)
             /\ \A k \in 0 .. n - 1 :
                  \E i \in Assigned(t) : Number(t, i) = k /\ Walk(t)[k] = Stop(t, i)
<1>. DEFINE n == Cardinality(Assigned(t))
            At(k) == CHOOSE i \in Assigned(t) : Number(t, i) = k
            Expected(k) == IF k = n THEN nonempty_end(t) ELSE Stop(t, At(k))
            W == [k \in 0 .. n |-> Expected(k)]
            Solves(f) == f = [k \in 0 .. n |->
                                IF k = 0 THEN nonempty_begin(t) ELSE increment(t, f[k - 1])]
<1>1. n \in Nat
  <2>1. t.table_size \in Nat
    BY DEF ShapeSound
  <2>. QED
    BY <2>1, AssignedFinite
<1>2. \A k \in 0 .. n - 1 : At(k) \in Assigned(t) /\ Number(t, At(k)) = k
  BY NthAssigned
<1>3. ASSUME NEW i \in Assigned(t), NEW j \in Assigned(t), Number(t, i) = Number(t, j)
      PROVE  i = j
  <2>1. /\ i \in Nat /\ j \in Nat /\ Number(t, i) \in Nat
        /\ i < j => Number(t, i) < Number(t, j)
        /\ j < i => Number(t, j) < Number(t, i)
    BY RowsAre, Numbered
  <2>. QED
    BY <1>3, <2>1
<1>4. Expected(0) = nonempty_begin(t)
  <2>1. CASE Assigned(t) = {}
    <3>1. n = 0
      BY <2>1, FS_EmptySet
    <3>2. nonempty_begin(t) = nonempty_end(t)
      BY <2>1, WalkBegins
    <3>. QED
      BY <3>1, <3>2
  <2>2. CASE Assigned(t) # {}
    <3>1. PICK i \in Assigned(t) : /\ nonempty_begin(t) = Stop(t, i)
                                   /\ \A x \in Assigned(t) : i <= x
      BY <2>2, WalkBegins
    <3>2. Number(t, i) = 0 /\ Number(t, i) < n
      BY <3>1, Numbered
    <3>. HIDE DEF At, n
    <3>3. 0 \in 0 .. n - 1
      BY <1>1, <3>2
    <3>4. At(0) = i
      BY <1>2, <1>3, <3>2, <3>3
    <3>. QED
      BY <3>1, <3>2, <3>4
  <2>. QED
    BY <2>1, <2>2
<1>5. ASSUME NEW k \in 1 .. n PROVE Expected(k) = increment(t, Expected(k - 1))
  <2>. DEFINE i == At(k - 1)
  <2>1. k - 1 \in 0 .. n - 1 /\ k - 1 # n /\ k \in Nat
    BY <1>1
  <2>2. i \in Assigned(t) /\ Number(t, i) = k - 1
    BY <1>2, <2>1
  <2>3. Expected(k - 1) = Stop(t, i)
    BY <2>1
  <2>4. ASSUME \A x \in Assigned(t) : ~(i < x), increment(t, Stop(t, i)) = nonempty_end(t)
        PROVE  Expected(k) = increment(t, Stop(t, i))
    <3>1. n = Number(t, i) + 1
      <4>. HIDE DEF i
      <4>. QED
        BY <2>2, <2>4, Numbered
    <3>. HIDE DEF n, At
    <3>2. n = k
      BY <2>1, <2>2, <3>1
    <3>. QED
      BY <2>4, <3>2
  <2>5. ASSUME NEW j \in Assigned(t), Follows(t, i, j), increment(t, Stop(t, i)) = Stop(t, j)
        PROVE  Expected(k) = increment(t, Stop(t, i))
    <3>1. Number(t, j) = Number(t, i) + 1 /\ Number(t, j) < n
      <4>. HIDE DEF i
      <4>1. Number(t, j) = Number(t, i) + 1
        BY <2>2, <2>5, Numbered
      <4>2. Number(t, j) < n
        BY Numbered
      <4>. QED
        BY <4>1, <4>2
    <3>. HIDE DEF n, At
    <3>2. Number(t, j) = k /\ k \in 0 .. n - 1 /\ k # n
      BY <1>1, <2>1, <2>2, <3>1
    <3>3. At(k) = j
      BY <1>2, <1>3, <3>2
    <3>. QED
      BY <2>5, <3>2, <3>3
  <2>6. \/ increment(t, Stop(t, i)) = nonempty_end(t) /\ \A x \in Assigned(t) : ~(i < x)
        \/ \E j \in Assigned(t) : increment(t, Stop(t, i)) = Stop(t, j) /\ Follows(t, i, j)
    <3>. HIDE DEF i
    <3>. QED
      BY <2>2, WalkGoesOn
  <2>. HIDE DEF i, Expected
  <2>. QED
    BY <2>3, <2>4, <2>5, <2>6
<1>. HIDE DEF n, At, Expected
<1>6. Solves(W)
  <2>1. ASSUME NEW k \in 0 .. n
        PROVE  W[k] = IF k = 0 THEN nonempty_begin(t) ELSE increment(t, W[k - 1])
    <3>1. CASE k = 0
      BY <1>1, <1>4, <3>1
    <3>2. CASE k # 0
      <4>1. k \in 1 .. n /\ k - 1 \in 0 .. n
        BY <1>1, <3>2
      <4>. QED
        BY <1>5, <3>2, <4>1
    <3>. QED
      BY <3>1, <3>2
  <2>. QED
    BY <2>1
<1>. HIDE DEF W
<1>. DEFINE walk == CHOOSE f : Solves(f)
<1>7. Solves(walk)
  BY <1>6
<1>8. Walk(t) = walk
  BY DEF Walk, walk, n, Assigned
<1>. HIDE DEF walk
<1>9. /\ walk[0] = nonempty_begin(t)
      /\ \A k \in 1 .. n : walk[k] = increment(t, walk[k - 1])
  BY <1>1, <1>7
<1>. HIDE DEF Solves
<1>. DEFINE Good == {k \in 0 .. n : walk[k] = Expected(k)}
<1>10. 0 \in Good
  BY <1>1, <1>4, <1>9
<1>11. ASSUME NEW k \in 0 + 1 .. n, k - 1 \in Good PROVE k \in Good
  BY <1>1, <1>5, <1>9, <1>11
<1>. HIDE DEF Good
<1>12. \A k \in 0 .. n : k \in Good
  <2>. DEFINE a == 0
  <2>1. /\ a \in Int /\ n \in Int /\ a \in Good
        /\ \A k \in a + 1 .. n : k - 1 \in Good => k \in Good
    BY <1>1, <1>10, <1>11
  <2>. HIDE DEF a
  <2>2. \A k \in a .. n : k \in Good
    BY <2>1, Climb
  <2>. QED
    BY <2>2 DEF a
<1>13. \A k \in 0 .. n : walk[k] = Expected(k)
  BY <1>12 DEF Good
<1>14. walk[n] = nonempty_end(t)
  BY <1>1, <1>13 DEF Expected
<1>15. ASSUME NEW k \in 0 .. n - 1
       PROVE  \E i \in Assigned(t) : Number(t, i) = k /\ walk[k] = Stop(t, i)
  <2>1. k \in 0 .. n /\ k # n
    BY <1>1
  <2>2. walk[k] = Stop(t, At(k))
    BY <1>13, <2>1 DEF Expected
  <2>. QED
    BY <1>2, <2>2
<1>. QED
  BY <1>1, <1>8, <1>14, <1>15 DEF n

\* What an iterator refers to, and where it is.
LEMMA StopReads ==
  ASSUME NEW t, ShapeSound(t), NEW i \in Assigned(t)
  PROVE  /\ get_pos(t, Stop(t, i)) = i /\ test(t, i) /\ get_iter(t, i) = Stop(t, i)
         /\ dereference(t, Stop(t, i)) = get(t, i)
         /\ Stop(t, i) # nonempty_end(t)
<1>. DEFINE n == group_num(i)
            p == pos_in_group(i)
            g == which_group(t, i)
            r == Rank(g.bitmap, p)
<1>1. i \in Locations(t) /\ test(t, i) /\ bmtest(g.bitmap, p) /\ g = t.groups[n]
  BY DEF Assigned, test, which_group
<1>2. i \in Nat /\ p \in Positions /\ GroupSound(g)
  BY <1>1, GroupOf
<1>3. i = GROUP_SIZE * (n - 1) + p /\ n \in Nat \ {0}
  BY <1>2, Located
<1>4. g.bitmap \in Bitmaps
  BY <1>2 DEF GroupSound
<1>5. Stop(t, i) = Iterator(n, r) /\ Stop(t, i).row = n /\ Stop(t, i).col = r
  BY DEF Stop, Iterator
<1>6. get_iter(t, i) = Stop(t, i)
  BY StopIsPlace
<1>7. get_pos(t, Stop(t, i)) = i
  <2>1. get_pos(t, Stop(t, i)) = (n - 1) * GROUP_SIZE + offset_to_pos(g.bitmap, r)
    BY <1>1, <1>5 DEF get_pos
  <2>2. offset_to_pos(g.bitmap, r) = p
    <3>. HIDE DEF g, p
    <3>. QED
      BY <1>1, <1>2, <1>4, OffsetRoundTrip
  <2>3. (n - 1) * GROUP_SIZE = GROUP_SIZE * (n - 1)
    <3>1. n - 1 \in Nat /\ GROUP_SIZE \in Nat
      BY <1>3, CharsAre
    <3>. DEFINE k == n - 1
    <3>. HIDE DEF k
    <3>2. k \in Nat => k * GROUP_SIZE = GROUP_SIZE * k
      BY <3>1
    <3>. QED
      BY <3>1, <3>2 DEF k
  <2>. QED
    BY <1>3, <2>1, <2>2, <2>3
<1>8. dereference(t, Stop(t, i)) = get(t, i)
  <2>1. dereference(t, Stop(t, i)) = g.group[r + 1]
    BY <1>1, <1>5 DEF dereference
  <2>2. pos_to_offset(g.bitmap, p) = r
    <3>. HIDE DEF g, p
    <3>. QED
      BY <1>2, <1>4, OffsetIsRank
  <2>3. get(t, i) = g.group[r + 1]
    BY <1>1, <2>2 DEF get, group_get
  <2>. QED
    BY <2>1, <2>3
<1>9. Stop(t, i) # nonempty_end(t)
  <2>1. Stop(t, i).row \in 1 .. Len(t.groups) /\ Len(t.groups) \in Nat
    BY RowsAre
  <2>2. nonempty_end(t).row = Len(t.groups) + 1
    BY DEF nonempty_end, row_end, Iterator
  <2>3. Stop(t, i).row # nonempty_end(t).row
    BY <2>1, <2>2
  <2>. QED
    BY <2>3
<1>. QED
  BY <1>1, <1>6, <1>7, <1>8, <1>9

\* What is read at an assigned location.
LEMMA ReadIs ==
  ASSUME NEW t, ShapeSound(t), NEW i \in Locations(t)
  PROVE  /\ test(t, i) <=> Elements(t)[i] # UNASSIGNED
         /\ test(t, i) => unsafe_get(t, i) = Elements(t)[i] /\ get(t, i) = Elements(t)[i]
                          /\ Elements(t)[i] \in Val
<1>. DEFINE g == which_group(t, i)
            p == pos_in_group(i)
<1>1. p \in Positions /\ GroupSound(g)
  BY GroupOf
<1>2. Elements(t)[i] = Held(g, p) /\ (test(t, i) <=> Elements(t)[i] # UNASSIGNED)
  BY ElementIs
<1>3. test(t, i) <=> bmtest(g.bitmap, p)
  BY DEF test
<1>4. get(t, i) = group_get(g, p) /\ unsafe_get(t, i) = group_unsafe_get(g, p)
  BY DEF get, unsafe_get
<1>. HIDE DEF g, p
<1>5. bmtest(g.bitmap, p) => Held(g, p) \in Val
  BY <1>1, HeldIs
<1>6. bmtest(g.bitmap, p) => group_unsafe_get(g, p) = group_get(g, p)
                             /\ Held(g, p) = group_get(g, p)
  BY DEF group_unsafe_get, group_get, Held
<1>. QED
  BY <1>2, <1>3, <1>4, <1>5, <1>6

(* A table whose first rows a destructive iterator has left behind.        *)

\* The rows from r on are what they were, and so is the walk over them.
LEMMA Destroyed ==
  ASSUME NEW t, ShapeSound(t), NEW r \in 1 .. Len(t.groups) + 1
  PROVE  LET d == destroy_rows(t, 1, r)
         IN  /\ d.table_size = t.table_size /\ d.num_buckets = t.num_buckets
             /\ Len(d.groups) = Len(t.groups)
             /\ \A g \in 1 .. Len(t.groups) :
                  d.groups[g] = IF g < r THEN new_group ELSE t.groups[g]
             /\ nonempty_end(d) = nonempty_end(t)
<1>. DEFINE d == destroy_rows(t, 1, r)
            n == Len(t.groups)
<1>1. n \in Nat /\ DOMAIN t.groups = 1 .. n /\ r \in Nat
  BY RowsAre
<1>2. \A g \in 1 .. n : t.groups[g] \in Groups
  BY <1>1 DEF ShapeSound
<1>3. ASSUME NEW g \in Groups PROVE group_clear(g) = new_group
  <2>. DEFINE s == g.group
              k == g.num_buckets
              b == g.bitmap
              c == [x \in Chars |-> {}]
  <2>1. g = [group |-> s, num_buckets |-> k, bitmap |-> b]
    BY DEF Groups
  <2>2. group_clear(g) = [g EXCEPT !.group = <<>>, !.num_buckets = 0, !.bitmap = c]
    BY DEF group_clear
  <2>3. new_group = [group |-> <<>>, num_buckets |-> 0, bitmap |-> c]
    BY DEF new_group
  <2>. HIDE DEF s, k, b, c
  <2>. QED
    BY <2>1, <2>2, <2>3
<1>4. t = [groups |-> t.groups, table_size |-> t.table_size, num_buckets |-> t.num_buckets]
  BY DEF ShapeSound
<1>. DEFINE gs == [x \in 1 .. n |-> IF x < r THEN new_group ELSE t.groups[x]]
<1>5. d.groups = gs
  <2>1. d.groups = [x \in DOMAIN t.groups |-> IF 1 <= x /\ x < r THEN group_clear(t.groups[x])
                                                                 ELSE t.groups[x]]
    BY <1>4 DEF destroy_rows
  <2>2. \A x \in 1 .. n : (IF 1 <= x /\ x < r THEN group_clear(t.groups[x]) ELSE t.groups[x]) = gs[x]
    BY <1>1, <1>2, <1>3
  <2>. QED
    BY <1>1, <2>1, <2>2
<1>6. d.table_size = t.table_size /\ d.num_buckets = t.num_buckets
  BY <1>4 DEF destroy_rows
<1>7. Len(gs) = n
  BY <1>1
<1>. HIDE DEF d
<1>8. Len(d.groups) = n
  BY <1>5, <1>7
<1>9. nonempty_end(d) = nonempty_end(t)
  BY <1>8 DEF nonempty_end, row_end
<1>. QED
  BY <1>5, <1>6, <1>8, <1>9 DEF d

\* Nothing is assigned in the rows destroyed, and the others read as they did.
LEMMA DestroyedReads ==
  ASSUME NEW t, ShapeSound(t), NEW r \in 1 .. Len(t.groups) + 1, NEW i \in Locations(t)
  PROVE  LET d == destroy_rows(t, 1, r)
         IN  /\ test(d, i) <=> test(t, i) /\ r <= group_num(i)
             /\ r <= group_num(i) => unsafe_get(d, i) = unsafe_get(t, i)
                                     /\ get_iter(d, i) = get_iter(t, i)
<1>. DEFINE d == destroy_rows(t, 1, r)
            n == group_num(i)
            p == pos_in_group(i)
<1>1. n \in 1 .. Len(t.groups) /\ p \in Positions /\ r \in Nat /\ n \in Nat
  BY GroupOf, RowsAre
<1>2. d.groups[n] = IF n < r THEN new_group ELSE t.groups[n]
  BY <1>1, Destroyed
<1>3. which_group(d, i) = d.groups[n] /\ which_group(t, i) = t.groups[n]
  BY DEF which_group
<1>4. ~bmtest(new_group.bitmap, p)
  BY <1>1, CharsAre DEF bmtest, new_group
<1>. HIDE DEF d
<1>5. CASE n < r
  <2>1. which_group(d, i) = new_group
    BY <1>2, <1>3, <1>5
  <2>2. ~test(d, i)
    BY <1>4, <2>1 DEF test
  <2>. QED
    BY <1>1, <1>5, <2>2 DEF d
<1>6. CASE r <= n
  <2>1. which_group(d, i) = which_group(t, i)
    BY <1>1, <1>2, <1>3, <1>6
  <2>2. /\ test(d, i) <=> test(t, i)
        /\ unsafe_get(d, i) = unsafe_get(t, i) /\ get_iter(d, i) = get_iter(t, i)
    BY <2>1 DEF test, unsafe_get, get_iter
  <2>. QED
    BY <1>6, <2>2 DEF d
<1>. QED
  BY <1>1, <1>5, <1>6

\* An iterator in the other rows goes on as it would have.
LEMMA DestroyedWalk ==
  ASSUME NEW t, ShapeSound(t), NEW r \in 1 .. Len(t.groups) + 1,
         NEW it, it.row \in r .. Len(t.groups)
  PROVE  LET d == destroy_rows(t, 1, r)
         IN  dereference(d, it) = dereference(t, it) /\ increment(d, it) = increment(t, it)
<1>. DEFINE d == destroy_rows(t, 1, r)
            n == Len(t.groups)
            full(s) == {x \in it.row + 1 .. Len(s.groups) : s.groups[x].num_buckets > 0}
<1>1. n \in Nat /\ r \in Nat /\ it.row \in Nat /\ it.row \in 1 .. n /\ r <= it.row
  BY RowsAre
<1>2. Len(d.groups) = n /\ \A g \in 1 .. n : d.groups[g] = IF g < r THEN new_group ELSE t.groups[g]
  BY Destroyed
<1>. HIDE DEF d, n
<1>3. \A g \in it.row .. n : d.groups[g] = t.groups[g]
  <2>1. ASSUME NEW g \in it.row .. n PROVE g \in 1 .. n /\ ~(g < r)
    BY <1>1
  <2>. QED
    BY <1>2, <2>1
<1>4. d.groups[it.row] = t.groups[it.row]
  BY <1>1, <1>3
<1>5. dereference(d, it) = dereference(t, it)
  BY <1>4 DEF dereference
<1>6. full(d) = full(t)
  <2>1. ASSUME NEW x \in it.row + 1 .. n PROVE d.groups[x] = t.groups[x]
    BY <1>1, <1>3
  <2>. QED
    BY <1>2, <2>1 DEF n
<1>. DEFINE at == Iterator(it.row, it.col + 1)
<1>7. at.row = it.row
  BY DEF Iterator
<1>8. row_end(d.groups) = row_end(t.groups)
  BY <1>2 DEF row_end, n
<1>9. advance_past_end(d.groups, at) = advance_past_end(t.groups, at)
  <2>1. {x \in at.row + 1 .. Len(d.groups) : d.groups[x].num_buckets > 0} =
        {x \in at.row + 1 .. Len(t.groups) : t.groups[x].num_buckets > 0}
    BY <1>6, <1>7
  <2>2. d.groups[at.row] = t.groups[at.row]
    BY <1>4, <1>7
  <2>. HIDE DEF at
  <2>. QED
    BY <1>8, <2>1, <2>2, Zenon DEF advance_past_end
<1>. QED
  BY <1>5, <1>9 DEF increment, d

\* Destroying rows after rows.
LEMMA DestroyedOn ==
  ASSUME NEW t, ShapeSound(t), NEW r \in 1 .. Len(t.groups) + 1,
         NEW s \in r .. Len(t.groups) + 1
  PROVE  destroy_rows(destroy_rows(t, 1, r), r, s) = destroy_rows(t, 1, s)
<1>. DEFINE n == Len(t.groups)
            f == [x \in 1 .. n |-> IF 1 <= x /\ x < r THEN group_clear(t.groups[x])
                                                     ELSE t.groups[x]]
<1>1. n \in Nat /\ DOMAIN t.groups = 1 .. n /\ r \in Nat /\ s \in Nat /\ 1 <= r /\ r <= s
  BY RowsAre
<1>2. t = [groups |-> t.groups, table_size |-> t.table_size, num_buckets |-> t.num_buckets]
  BY DEF ShapeSound
<1>3. destroy_rows(t, 1, r) =
        [groups |-> f, table_size |-> t.table_size, num_buckets |-> t.num_buckets]
  BY <1>1, <1>2 DEF destroy_rows
<1>4. DOMAIN f = 1 .. n
  OBVIOUS
<1>. DEFINE h == [x \in 1 .. n |-> IF r <= x /\ x < s THEN group_clear(f[x]) ELSE f[x]]
            d == destroy_rows(t, 1, r)
<1>5. destroy_rows(d, r, s) =
        [groups |-> h, table_size |-> t.table_size, num_buckets |-> t.num_buckets]
  <2>1. d = [groups |-> f, table_size |-> t.table_size, num_buckets |-> t.num_buckets]
    BY <1>3
  <2>. HIDE DEF d, f
  <2>2. d.groups = f /\ DOMAIN d.groups = 1 .. n
    BY <1>4, <2>1
  <2>3. [x \in DOMAIN d.groups |-> IF r <= x /\ x < s THEN group_clear(d.groups[x])
                                                    ELSE d.groups[x]] = h
    BY <2>2
  <2>4. destroy_rows(d, r, s) = [d EXCEPT !.groups = h]
    BY <2>3, Zenon DEF destroy_rows
  <2>. HIDE DEF h
  <2>. QED
    BY <2>1, <2>4
<1>6. destroy_rows(t, 1, s) =
        [groups |-> [x \in 1 .. n |-> IF 1 <= x /\ x < s THEN group_clear(t.groups[x])
                                                         ELSE t.groups[x]],
         table_size |-> t.table_size, num_buckets |-> t.num_buckets]
  BY <1>1, <1>2 DEF destroy_rows
<1>7. ASSUME NEW x \in 1 .. n
      PROVE  (IF r <= x /\ x < s THEN group_clear(f[x]) ELSE f[x]) =
             (IF 1 <= x /\ x < s THEN group_clear(t.groups[x]) ELSE t.groups[x])
  <2>1. f[x] = IF x < r THEN group_clear(t.groups[x]) ELSE t.groups[x]
    BY <1>1
  <2>2. x \in Nat /\ 1 <= x
    BY <1>1
  <2>. QED
    BY <1>1, <2>1, <2>2
<1>. HIDE DEF f
<1>. QED
  BY <1>5, <1>6, <1>7

=============================================================================
