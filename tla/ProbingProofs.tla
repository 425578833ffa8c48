---------------------------- MODULE ProbingProofs ----------------------------
(***************************************************************************)
(* Why a search ends: in a table of any size the code allows, quadratic    *)
(* probing (JUMP_ in densehashtable.h and sparsehashtable.h) comes by      *)
(* every bucket before it comes by one twice, so that find_position meets  *)
(* an empty bucket whenever there is one.                                  *)
(*                                                                         *)
(* The i-th probe is i * (i + 1) / 2 buckets further on, modulo a power of *)
(* two n.  If the probes i < j meet, 2 * n divides (j - i) * (j + i + 1),  *)
(* of which one factor is odd; so it divides the other one, but each is    *)
(* smaller than 2 * n.                                                     *)
(***************************************************************************)
EXTENDS HashtableSettings, FiniteSetTheorems, FunctionTheorems, NaturalsInduction,
        WellFoundedInduction, TLAPS

\* Every nonempty set of naturals has a least element: induction in the one form
\* every prover here can use, applied to the set of counterexamples.
LEMMA LeastNumber ==
  ASSUME NEW T \in SUBSET Nat, T # {}
  PROVE  \E n \in T : \A m \in T : n <= m
<1>1. IsWellFoundedOn(OpToRel(<, Nat), Nat)
  BY NatLessThanWellFounded
<1>2. PICK n \in T : \A m \in T : <<m, n>> \notin OpToRel(<, Nat)
  BY <1>1, WFMin
<1>3. OpToRel(<, Nat) = {p \in Nat \X Nat : p[1] < p[2]}
  BY DEF OpToRel
<1>4. ASSUME NEW m \in T PROVE n <= m
  <2>1. <<m, n>> \in Nat \X Nat
    OBVIOUS
  <2>2. ~(m < n)
    BY <1>2, <1>3, <2>1
  <2>3. m \in Nat /\ n \in Nat
    OBVIOUS
  <2>. QED
    BY <2>2, <2>3
<1>. QED
  BY <1>4

-----------------------------------------------------------------------------
(* Powers of two.                                                          *)

Divides(d, n) == \E q \in Nat : n = d * q

\* To divide and to leave no remainder are the same.
LEMMA DividesIsMod ==
  ASSUME NEW d \in Nat \ {0}, NEW n \in Nat
  PROVE  Divides(d, n) <=> n % d = 0
<1>1. n = d * (n \div d) + (n % d) /\ n \div d \in Nat /\ n % d \in 0 .. d - 1
  OBVIOUS
<1>2. ASSUME NEW q \in Nat, n = d * q PROVE n % d = 0
  <2>1. q = n \div d + (q - n \div d) /\ q - n \div d \in Int
    BY <1>1
  <2>. DEFINE e == q - n \div d
  <2>2. d * e = n % d
    BY <1>1, <1>2
  <2>. HIDE DEF e
  <2>3. e \in Int
    BY DEF e
  <2>4. CASE e >= 1
    <3>1. d * e >= d
      BY <2>3, <2>4
    <3>. QED
      BY <1>1, <2>2, <3>1
  <2>5. CASE e <= -1
    <3>1. d * e <= -d
      BY <2>3, <2>5
    <3>. QED
      BY <1>1, <2>2, <3>1
  <2>6. CASE e = 0
    BY <2>2, <2>6
  <2>. QED
    BY <2>3, <2>4, <2>5, <2>6
<1>3. ASSUME n % d = 0 PROVE Divides(d, n)
  <2>1. n = d * (n \div d)
    BY <1>1, <1>3
  <2>. QED
    BY <1>1, <2>1 DEF Divides
<1>4. ASSUME Divides(d, n) PROVE n % d = 0
  BY <1>2, <1>4 DEF Divides
<1>. QED
  BY <1>3, <1>4

\* A power of two, in terms of divisibility.
LEMMA PowerByDivisors ==
  ASSUME NEW n \in Nat
  PROVE  IsPowerOfTwo(n) <=> n > 0 /\ \A d \in 2 .. n : Divides(d, n) => d % 2 = 0
<1>1. \A d \in 2 .. n : Divides(d, n) <=> n % d = 0
  BY DividesIsMod
<1>. QED
  BY <1>1 DEF IsPowerOfTwo

\* Half of a power of two is one too, if there is one.
LEMMA HalfOfPower ==
  ASSUME NEW n \in Nat, IsPowerOfTwo(n), n > 1
  PROVE  \E m \in Nat : n = 2 * m /\ m < n /\ IsPowerOfTwo(m)
<1>1. n % 2 = 0
  <2>1. n = n * 1
    OBVIOUS
  <2>2. n \in 2 .. n /\ Divides(n, n)
    BY <2>1 DEF Divides
  <2>. QED
    BY <2>2, PowerByDivisors
<1>2. PICK m \in Nat : n = 2 * m
  BY <1>1
<1>3. ASSUME NEW d \in 2 .. m, Divides(d, m) PROVE d % 2 = 0
  <2>1. PICK q \in Nat : m = d * q
    BY <1>3 DEF Divides
  <2>2. n = d * (2 * q) /\ 2 * q \in Nat
    BY <1>2, <2>1
  <2>3. Divides(d, n)
    BY <2>2 DEF Divides
  <2>4. d \in 2 .. n
    BY <1>2
  <2>. QED
    BY <2>3, <2>4, PowerByDivisors
<1>4. m > 0 /\ m < n
  BY <1>2
<1>. QED
  BY <1>2, <1>3, <1>4, PowerByDivisors

\* Twice a power of two is one.
LEMMA DoubleOfPower ==
  ASSUME NEW n \in Nat, IsPowerOfTwo(n)
  PROVE  IsPowerOfTwo(2 * n)
<1>. n > 0
  BY PowerByDivisors
<1>1. ASSUME NEW d \in 2 .. 2 * n, Divides(d, 2 * n), d % 2 # 0 PROVE FALSE
  <2>1. PICK q \in Nat : 2 * n = d * q
    BY <1>1 DEF Divides
  <2>2. PICK c \in Nat : d = 2 * c + 1
    BY <1>1
  <2>3. q % 2 = 0
    <3>1. CASE q % 2 = 1
      <4>1. PICK b \in Nat : q = 2 * b + 1
        BY <3>1
      <4>2. d * q = 2 * (2 * (c * b) + c + b) + 1 /\ 2 * (c * b) + c + b \in Nat
        BY <2>2, <4>1
      <4>. QED
        BY <2>1, <4>2
    <3>. QED
      BY <3>1
  <2>4. PICK b \in Nat : q = 2 * b
    BY <2>3
  <2>5. n = d * b
    BY <2>1, <2>4
  <2>6. b # 0 /\ d <= n
    BY <2>5
  <2>7. Divides(d, n) /\ d \in 2 .. n
    BY <2>5, <2>6 DEF Divides
  <2>. QED
    BY <1>1, <2>7, PowerByDivisors
<1>. QED
  BY <1>1, PowerByDivisors

\* A power of two that divides a product with an odd factor divides the other.
LEMMA OddFactor ==
  ASSUME NEW n \in Nat, IsPowerOfTwo(n), NEW a \in Nat, NEW b \in Nat, b % 2 = 1,
         Divides(n, a * b)
  PROVE  Divides(n, a)
<1>. DEFINE Holds(m) == \A x \in Nat : Divides(m, x * b) => Divides(m, x)
            Bad == {m \in Nat : IsPowerOfTwo(m) /\ ~Holds(m)}
<1>1. Bad = {}
  <2>. SUFFICES ASSUME Bad # {} PROVE FALSE
    OBVIOUS
  <2>1. PICK m \in Bad : \A p \in Bad : m <= p
    BY LeastNumber
  <2>2. PICK x \in Nat : Divides(m, x * b) /\ ~Divides(m, x)
    BY <2>1
  <2>3. m > 1
    <3>1. m > 0
      BY PowerByDivisors
    <3>2. x = 1 * x
      OBVIOUS
    <3>3. Divides(1, x)
      BY <3>2 DEF Divides
    <3>. QED
      BY <2>2, <3>1, <3>3
  <2>4. PICK h \in Nat : m = 2 * h /\ h < m /\ IsPowerOfTwo(h)
    BY <2>3, HalfOfPower
  <2>5. PICK q \in Nat : x * b = m * q
    BY <2>2 DEF Divides
  <2>6. PICK c \in Nat : b = 2 * c + 1
    OBVIOUS
  <2>7. x % 2 = 0
    <3>1. CASE x % 2 = 1
      <4>1. PICK y \in Nat : x = 2 * y + 1
        BY <3>1
      <4>2. x * b = 2 * (2 * (y * c) + y + c) + 1 /\ 2 * (y * c) + y + c \in Nat
        BY <2>6, <4>1
      <4>3. x * b = 2 * (h * q) /\ h * q \in Nat
        BY <2>4, <2>5
      <4>. QED
        BY <4>2, <4>3
    <3>. QED
      BY <3>1
  <2>8. PICK y \in Nat : x = 2 * y
    BY <2>7
  <2>9. y * b = h * q
    <3>1. 2 * (y * b) = 2 * (h * q) /\ y * b \in Nat /\ h * q \in Nat
      BY <2>4, <2>5, <2>8
    <3>. QED
      BY <3>1
  <2>10. Divides(h, y)
    <3>1. h \notin Bad
      BY <2>1, <2>4
    <3>2. Holds(h)
      BY <2>4, <3>1
    <3>. QED
      BY <2>9, <3>2 DEF Divides
  <2>11. PICK r \in Nat : y = h * r
    BY <2>10 DEF Divides
  <2>12. x = m * r
    BY <2>4, <2>8, <2>11
  <2>. QED
    BY <2>2, <2>12 DEF Divides
<1>. QED
  BY <1>1

-----------------------------------------------------------------------------
(* Triangular numbers.                                                     *)

Triangle(i) == (i * (i + 1)) \div 2

\* The i-th bucket probed among n for hash value h.
Probed(h, i, n) == (h + Triangle(i)) % n

\* The division in a triangular number leaves no remainder.
LEMMA TriangleTwice ==
  ASSUME NEW i \in Nat
  PROVE  Triangle(i) \in Nat /\ 2 * Triangle(i) = i * (i + 1)
<1>1. PICK h \in Nat : i = 2 * h \/ i = 2 * h + 1
  <2>1. i \div 2 \in Nat /\ (i = 2 * (i \div 2) \/ i = 2 * (i \div 2) + 1)
    OBVIOUS
  <2>. QED
    BY <2>1
<1>2. CASE i = 2 * h
  <2>1. i * (i + 1) = 2 * (h * (i + 1)) /\ h * (i + 1) \in Nat
    BY <1>2
  <2>2. \A p \in Nat : (2 * p) \div 2 = p
    OBVIOUS
  <2>. QED
    BY <2>1, <2>2, Zenon DEF Triangle
<1>3. CASE i = 2 * h + 1
  <2>1. i * (i + 1) = 2 * (i * (h + 1)) /\ i * (h + 1) \in Nat
    BY <1>3
  <2>2. \A p \in Nat : (2 * p) \div 2 = p
    OBVIOUS
  <2>. QED
    BY <2>1, <2>2, Zenon DEF Triangle
<1>. QED
  BY <1>1, <1>2, <1>3

\* Numbers with the same remainder differ by a multiple.
LEMMA SameRemainder ==
  ASSUME NEW n \in Nat \ {0}, NEW x \in Nat, NEW y \in Nat, x <= y, x % n = y % n
  PROVE  \E q \in Nat : y - x = n * q
<1>1. /\ x = n * (x \div n) + (x % n) /\ x \div n \in Nat
      /\ y = n * (y \div n) + (y % n) /\ y \div n \in Nat
      /\ x % n \in Nat
  OBVIOUS
<1>. DEFINE a == x \div n
            b == y \div n
<1>2. y - x = n * b - n * a /\ a \in Nat /\ b \in Nat
  BY <1>1
<1>. HIDE DEF a, b
<1>3. y - x = n * (b - a)
  BY <1>2
<1>4. b - a >= 0
  <2>1. CASE b - a <= -1
    <3>1. n * (b - a) <= -n
      BY <1>2, <2>1
    <3>. QED
      BY <1>3, <3>1
  <2>. QED
    BY <1>2, <2>1
<1>. QED
  BY <1>2, <1>3, <1>4

\* A multiple of n more leaves the same remainder.
LEMMA MultipleAdded ==
  ASSUME NEW n \in Nat \ {0}, NEW q \in Nat, NEW y \in Nat
  PROVE  (n * q + y) % n = y % n
<1>. DEFINE x == n * q + y
            a == x \div n
            b == y \div n
            r == x % n
            s == y % n
            e == q + b - a
<1>1. x \in Nat
  OBVIOUS
<1>2. /\ x = n * a + r /\ a \in Nat /\ r \in 0 .. n - 1
      /\ y = n * b + s /\ b \in Nat /\ s \in 0 .. n - 1
  <2>. HIDE DEF x
  <2>. QED
    BY <1>1
<1>3. x = n * q + y /\ e = q + b - a
  OBVIOUS
<1>. HIDE DEF x, a, b, r, s, e
<1>4. n * e = r - s /\ e \in Int /\ r \in 0 .. n - 1 /\ s \in 0 .. n - 1
  <2>1. n * e = n * q + n * b - n * a
    BY <1>2, <1>3
  <2>2. n * q \in Nat /\ n * b \in Nat /\ n * a \in Nat
    BY <1>2
  <2>3. r - s = n * q + n * b - n * a
    BY <1>2, <1>3, <2>2
  <2>. QED
    BY <1>2, <1>3, <2>1, <2>3
<1>5. r = s
  <2>1. CASE e >= 1
    <3>1. n * e >= n
      BY <1>4, <2>1
    <3>. QED
      BY <1>4, <3>1
  <2>2. CASE e <= -1
    <3>1. n * e <= -n
      BY <1>4, <2>2
    <3>. QED
      BY <1>4, <3>1
  <2>3. CASE e = 0
    BY <1>4, <2>3
  <2>. QED
    BY <1>4, <2>1, <2>2, <2>3
<1>. QED
  BY <1>5 DEF r, s, x

\* No two of the first n probes for a key meet in a table of n buckets.
LEMMA ProbesAreDistinct ==
  ASSUME NEW n \in Nat, IsPowerOfTwo(n), NEW h \in Nat,
         NEW i \in Nat, NEW j \in Nat, i < j, j < n,
         (h + Triangle(i)) % n = (h + Triangle(j)) % n
  PROVE  FALSE
<1>. DEFINE d == j - i
            e == j + i + 1
<1>1. d \in Nat /\ e \in Nat /\ d > 0 /\ e > 0 /\ d < 2 * n /\ e < 2 * n
  OBVIOUS
<1>2. Triangle(i) \in Nat /\ Triangle(j) \in Nat
      /\ 2 * (Triangle(j) - Triangle(i)) = d * e
  <2>1. j * (j + 1) - i * (i + 1) = d * e
    OBVIOUS
  <2>2. /\ Triangle(i) \in Nat /\ 2 * Triangle(i) = i * (i + 1)
        /\ Triangle(j) \in Nat /\ 2 * Triangle(j) = j * (j + 1)
    BY TriangleTwice
  <2>3. \A x, y \in Nat : 2 * (x - y) = 2 * x - 2 * y
    OBVIOUS
  <2>. QED
    BY <2>1, <2>2, <2>3
<1>3. Triangle(i) <= Triangle(j)
  <2>1. d * e >= 0
    BY <1>1
  <2>. QED
    BY <1>2, <2>1
<1>4. PICK q \in Nat : Triangle(j) - Triangle(i) = n * q
  <2>1. h + Triangle(i) \in Nat /\ h + Triangle(j) \in Nat
        /\ h + Triangle(i) <= h + Triangle(j) /\ n \in Nat \ {0}
    BY <1>2, <1>3
  <2>2. PICK q \in Nat : (h + Triangle(j)) - (h + Triangle(i)) = n * q
    BY <2>1, SameRemainder
  <2>. QED
    BY <1>2, <2>2
<1>5. d * e = (2 * n) * q
  BY <1>2, <1>4
<1>6. Divides(2 * n, d * e) /\ IsPowerOfTwo(2 * n) /\ 2 * n \in Nat
  BY <1>5, DoubleOfPower DEF Divides
<1>7. d % 2 = 1 \/ e % 2 = 1
  <2>1. e = d + 2 * i + 1
    OBVIOUS
  <2>2. d \in Int /\ i \in Int
    OBVIOUS
  <2>. HIDE DEF d, e
  <2>. QED
    BY <2>1, <2>2
<1>. HIDE DEF d, e
<1>8. Divides(2 * n, d) \/ Divides(2 * n, e)
  <2>1. CASE d % 2 = 1
    <3>1. d * e = e * d
      BY <1>1
    <3>. QED
      BY <1>1, <1>6, <2>1, <3>1, OddFactor
  <2>2. CASE e % 2 = 1
    BY <1>1, <1>6, <2>2, OddFactor
  <2>. QED
    BY <1>7, <2>1, <2>2
<1>9. ASSUME NEW x \in Nat, x > 0, x < 2 * n, Divides(2 * n, x) PROVE FALSE
  <2>1. PICK r \in Nat : x = (2 * n) * r
    BY <1>9 DEF Divides
  <2>2. r # 0
    BY <1>9, <2>1
  <2>3. (2 * n) * r >= 2 * n
    BY <2>2
  <2>. QED
    BY <1>9, <2>1, <2>3
<1>. QED
  BY <1>1, <1>8, <1>9

-----------------------------------------------------------------------------
(* Probing.                                                                *)

\* A table size is a positive power of two.
LEMMA BucketCountIsPower ==
  ASSUME NEW n \in BucketCounts
  PROVE  n \in Nat \ {0} /\ IsPowerOfTwo(n)
  BY SizesAssumption DEF BucketCounts

\* Each step of a search is JUMP_(key, num_probes) = num_probes buckets long,
\* as find_position and copy_from compute it from the last bucket probed.
LEMMA ProbeIsAStep ==
  ASSUME NEW n \in Nat \ {0}, NEW h \in Nat, NEW i \in Nat
  PROVE  Probed(h, i + 1, n) = (Probed(h, i, n) + (i + 1)) % n
<1>. DEFINE x == h + Triangle(i)
<1>2. x \in Nat
  BY TriangleTwice
<1>3. Triangle(i + 1) = Triangle(i) + (i + 1)
  <2>1. /\ Triangle(i) \in Nat /\ 2 * Triangle(i) = i * (i + 1)
        /\ Triangle(i + 1) \in Nat /\ 2 * Triangle(i + 1) = (i + 1) * ((i + 1) + 1)
    BY TriangleTwice
  <2>. QED
    BY <2>1
<1>4. Probed(h, i + 1, n) = (x + (i + 1)) % n /\ Probed(h, i, n) = x % n
  <2>1. h + Triangle(i + 1) = x + (i + 1)
    <3>1. Triangle(i) \in Nat
      BY TriangleTwice
    <3>. QED
      BY <1>3, <3>1
  <2>. QED
    BY <2>1, Zenon DEF Probed
<1>. HIDE DEF x
<1>5. (x + (i + 1)) % n = ((x % n) + (i + 1)) % n
  <2>1. x = n * (x \div n) + (x % n) /\ x \div n \in Nat /\ x % n \in Nat
    BY <1>2
  <2>2. x + (i + 1) = n * (x \div n) + ((x % n) + (i + 1))
    <3>. DEFINE m == n * (x \div n)
                r == x % n
    <3>1. x = m + r /\ x \in Nat /\ r \in Nat /\ m \in Nat
      BY <1>2, <2>1
    <3>. HIDE DEF m, r
    <3>2. x + (i + 1) = m + (r + (i + 1))
      BY <3>1
    <3>. QED
      BY <3>2 DEF m, r
  <2>3. (x % n) + (i + 1) \in Nat
    BY <2>1
  <2>4. (n * (x \div n) + ((x % n) + (i + 1))) % n = ((x % n) + (i + 1)) % n
    BY <1>2, <2>1, <2>3, MultipleAdded
  <2>. QED
    BY <2>2, <2>4
<1>. QED
  BY <1>4, <1>5

\* The first n probes for any hash value, in a table of n buckets, come by every
\* bucket of the table, each once: the loops of find_position and copy_from,
\* which stop after that many (densehashtable.h 652, 851, sparsehashtable.h 684,
\* 723, 862), have then seen the whole table.
THEOREM ProbesSeeAll ==
  ASSUME NEW n \in BucketCounts, NEW h \in Nat
  PROVE  {Probed(h, i, n) : i \in 0 .. n - 1} = 0 .. n - 1
<1>. DEFINE S == 0 .. n - 1
            f == [i \in S |-> Probed(h, i, n)]
<1>1. n \in Nat \ {0} /\ IsPowerOfTwo(n) 
  BY BucketCountIsPower
<1>2. \A i \in S : Probed(h, i, n) = (h + Triangle(i)) % n
  BY DEF Probed
<1>3. f \in [S -> S]
  <2>1. ASSUME NEW i \in S PROVE Probed(h, i, n) \in S
    <3>1. i \in Nat
      BY <1>1
    <3>2. h + Triangle(i) \in Nat
      <4>1. Triangle(i) \in Nat
        BY <3>1, TriangleTwice
      <4>. QED
        BY <4>1
    <3>. DEFINE x == h + Triangle(i)
    <3>3. x \in Nat /\ n \in Nat \ {0}
      BY <1>1, <3>2
    <3>. HIDE DEF x
    <3>4. x % n \in Nat /\ x % n < n
      BY <3>3
    <3>5. x % n \in 0 .. n - 1
      BY <3>3, <3>4
    <3>. QED
      BY <1>2, <3>5 DEF x
  <2>. QED
    BY <2>1
<1>4. ASSUME NEW i \in S, NEW j \in S, f[i] = f[j] PROVE i = j
  <2>1. i \in Nat /\ j \in Nat /\ i < n /\ j < n
    BY <1>1
  <2>2. (h + Triangle(i)) % n = (h + Triangle(j)) % n
    BY <1>2, <1>4
  <2>3. ~ (i < j) /\ ~ (j < i)
    BY <1>1, <2>1, <2>2, ProbesAreDistinct
  <2>. QED
    BY <2>1, <2>3
<1>. HIDE DEF f, S
<1>5. f \in Injection(S, S)
  BY <1>3, <1>4, Fun_IsInj
<1>6. IsFiniteSet(S)
  BY <1>1, FS_Interval DEF S
<1>7. f \in Surjection(S, S)
  BY <1>5, <1>6, FS_Injection
<1>8. \A b \in S : \E i \in S : f[i] = b
  BY <1>7 DEF Surjection
<1>. QED
  BY <1>3, <1>8 DEF f, S

\* The least of a nonempty set of numbers is one of them.
LEMMA MinIsMember ==
  ASSUME NEW T \in SUBSET Nat, T # {}
  PROVE  Min(T) \in T /\ \A m \in T : Min(T) <= m
<1>1. \E n \in T : \A m \in T : n <= m
  BY LeastNumber
<1>. QED
  BY <1>1, Zenon DEF Min

\* Max is a member of a bounded set of numbers.
LEMMA MaxIsMember ==
  ASSUME NEW N \in Nat, NEW S \in SUBSET (0 .. N), S # {}
  PROVE  Max(S) \in S
<1>. DEFINE T == {N - x : x \in S}
<1>1. T \in SUBSET Nat /\ T # {}
  <2>1. \A x \in S : N - x \in Nat
    OBVIOUS
  <2>2. \A y \in T : y \in Nat
    BY <2>1
  <2>. QED
    BY <2>2, Zenon
<1>2. PICK m \in T : \A y \in T : m <= y
  BY <1>1, LeastNumber
<1>3. PICK x \in S : m = N - x
  BY <1>2
<1>4. \A y \in S : x >= y
  <2>. SUFFICES ASSUME NEW y \in S PROVE x >= y
    OBVIOUS
  <2>1. N - y \in T
    OBVIOUS
  <2>2. N - x <= N - y
    BY <1>2, <1>3, <2>1
  <2>. QED
    BY <1>3, <2>2
<1>. QED
  BY <1>4 DEF Max

-----------------------------------------------------------------------------
(* Sizes.                                                                  *)

\* The load at which a table grows is at most its size and grows with it.
LEMMA EnlargeGrows ==
  ASSUME NEW s, s.enlarge_factor \in Percent, NEW n \in Nat, NEW m \in Nat, n <= m
  PROVE  /\ enlarge_size(s, n) \in Nat /\ enlarge_size(s, m) \in Nat
         /\ enlarge_size(s, n) <= enlarge_size(s, m)
         /\ enlarge_size(s, n) <= n
<1>. DEFINE g == s.enlarge_factor
<1>1. g \in Nat /\ g <= 100
  BY DEF Percent
<1>2. n * g \in Nat /\ m * g \in Nat /\ n * g <= m * g /\ n * g <= n * 100
  BY <1>1
<1>. HIDE DEF g
<1>3. \A x, y \in Nat : x <= y => x \div 100 <= y \div 100 /\ x \div 100 \in Nat
  OBVIOUS
<1>4. \A x \in Nat : x <= n * 100 => x \div 100 <= n
  OBVIOUS
<1>5. (n * g) \div 100 \in Nat /\ (m * g) \div 100 \in Nat
      /\ (n * g) \div 100 <= (m * g) \div 100 /\ (n * g) \div 100 <= n
  BY <1>2, <1>3, <1>4
<1>. QED
  BY <1>5 DEF enlarge_size, g

\* Under a grow factor of less than 100% a table grows before it is full.
LEMMA GrowsBeforeFull ==
  ASSUME NEW s, s.enlarge_factor \in Percent, s.enlarge_factor < 100,
         NEW n \in BucketCounts
  PROVE  enlarge_size(s, n) < n
<1>. DEFINE g == s.enlarge_factor
<1>1. n \in Nat /\ n > 0 /\ g \in Nat /\ g <= 99
  BY BucketCountIsPower, SizesAssumption DEF Percent, BucketCounts
<1>. HIDE DEF g
<1>2. n * g \in Nat /\ n * g <= n * 99
  BY <1>1
<1>3. n * 99 < n * 100
  BY <1>1
<1>4. \A x \in Nat : x < n * 100 => x \div 100 < n
  BY <1>1
<1>5. (n * g) \div 100 < n
  BY <1>1, <1>2, <1>3, <1>4
<1>. QED
  BY <1>5 DEF enlarge_size, g

\* min_buckets answers a size that fulfils its loop's condition whenever some
\* size has room for the objects and some size is as large as wanted.
LEMMA MinBuckets ==
  ASSUME NEW s, s.enlarge_factor \in Percent, NEW num \in Nat, NEW wanted \in Nat,
         NEW n \in BucketCounts, num < enlarge_size(s, n),
         NEW m \in BucketCounts, wanted <= m
  PROVE  /\ min_buckets(s, num, wanted) \in BucketCounts
         /\ wanted <= min_buckets(s, num, wanted)
         /\ num < enlarge_size(s, min_buckets(s, num, wanted))
<1>1. n \in Nat /\ m \in Nat
  BY BucketCountIsPower
<1>. DEFINE R == roomy_sizes(s, num, wanted)
<1>2. (IF n <= m THEN m ELSE n) \in R
  <2>1. n <= m => num < enlarge_size(s, m)
    BY <1>1, EnlargeGrows
  <2>. QED
    BY <1>1, <2>1 DEF roomy_sizes
<1>3. R \in SUBSET Nat
  BY BucketCountIsPower DEF roomy_sizes
<1>4. Min(R) \in R
  BY <1>2, <1>3, MinIsMember
<1>. QED
  BY <1>4 DEF min_buckets, roomy_sizes

\* Twice a size is one, if size_type can hold it.
LEMMA TwiceASize ==
  ASSUME NEW n \in BucketCounts, n < SizeMax \div 2
  PROVE  n * 2 \in BucketCounts
<1>1. n \in Nat /\ IsPowerOfTwo(n) /\ n >= HT_MIN_BUCKETS
      /\ HT_MIN_BUCKETS \in Nat /\ SizeMax \in Nat
  BY BucketCountIsPower, SizesAssumption DEF BucketCounts
<1>2. n * 2 = 2 * n /\ n * 2 \in HT_MIN_BUCKETS .. SizeMax
  BY <1>1
<1>3. IsPowerOfTwo(n * 2)
  BY <1>1, <1>2, DoubleOfPower
<1>. QED
  BY <1>2, <1>3 DEF BucketCounts

\* The two initial sizes are sizes a table can have.
LEMMA StartingSizes ==
  HT_MIN_BUCKETS \in BucketCounts /\ HT_DEFAULT_STARTING_BUCKETS \in BucketCounts
  BY SizesAssumption DEF BucketCounts

=============================================================================
