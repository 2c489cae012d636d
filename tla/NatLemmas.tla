------------------------------ MODULE NatLemmas ------------------------------
(***************************************************************************)
(* Facts about the natural numbers that the proofs of several components   *)
(* need and the library states only for an operator parameter.             *)
(***************************************************************************)
EXTENDS Integers, FiniteSetTheorems, WellFoundedInduction, TLAPS

\* A nonempty set of naturals has a least element.
LEMMA LeastElement ==
  ASSUME NEW T, T \subseteq Nat, T # {}
  PROVE  \E x \in T : \A y \in T : x <= y
<1> DEFINE Below == {0 .. n : n \in T}
<1>1. Below \subseteq FiniteSubsetsOf(Nat)
  <2>1. \A n \in T : 0 .. n \subseteq Nat /\ IsFiniteSet(0 .. n)
    BY FS_Interval
  <2>2. QED
    BY <2>1 DEF FiniteSubsetsOf
<1>2. Below # {}
  OBVIOUS
<1>3. PICK d \in Below :
        \A e \in Below : <<e, d>> \notin StrictSubsetOrdering(Nat)
  <2> HIDE DEF Below
  <2> QED
    BY <1>1, <1>2, FS_StrictSubsetOrderingWellFounded, WFMin
<1>4. PICK x \in T : d = 0 .. x
  BY <1>3
<1>5. ASSUME NEW y \in T, y < x
      PROVE  FALSE
  <2>1. 0 .. y \subseteq 0 .. x /\ 0 .. y # 0 .. x
    <3>1. x \in 0 .. x /\ x \notin 0 .. y
      BY <1>5
    <3>2. QED
      BY <1>5, <3>1
  <2>2. <<0 .. y, 0 .. x>> \in StrictSubsetOrdering(Nat)
    BY <2>1 DEF StrictSubsetOrdering
  <2>3. QED
    BY <1>3, <1>4, <2>2
<1>6. QED
  BY <1>5


\* A multiple leaves no remainder.
LEMMA MultipleMod ==
  ASSUME NEW q \in Nat, NEW b \in Nat, b > 0
  PROVE  (q * b) % b = 0
<1> DEFINE a == q * b
<1>1. q * b \in Nat
  OBVIOUS
<1>2. a \div b \in Nat /\ a % b \in 0 .. b - 1 /\ (a \div b) * b + (a % b) = a
  BY <1>1
<1>3. (q - (a \div b)) * b = a % b
  BY <1>1, <1>2
<1>4. ASSUME NEW x \in Int, x * b \in 0 .. b - 1, x # 0
      PROVE  FALSE
  <2>1. CASE x > 0
    BY <1>4, <2>1
  <2>2. CASE x < 0
    BY <1>4, <2>2
  <2> QED
    BY <1>4, <2>1, <2>2
<1>5. q - (a \div b) = 0
  BY <1>2, <1>3, <1>4
<1> QED
  BY <1>2, <1>3, <1>5

\* The multiples next to one.
LEMMA NextMultiples ==
  ASSUME NEW a \in Nat, NEW b \in Nat, b > 0, a % b = 0
  PROVE  /\ (a + b) % b = 0
         /\ a # 0 => a >= b /\ (a - b) % b = 0
<1>1. PICK q \in Nat : a = q * b
  <2>1. a \div b \in Nat /\ (a \div b) * b + (a % b) = a
    OBVIOUS
  <2>2. (a \div b) * b \in Nat
    BY <2>1
  <2>3. a = (a \div b) * b
    BY <2>1, <2>2
  <2> QED
    BY <2>1, <2>3
<1>2. a + b = (q + 1) * b /\ q + 1 \in Nat
  BY <1>1
<1>3. ASSUME a # 0
      PROVE  a - b = (q - 1) * b /\ q - 1 \in Nat
  <2>1. q > 0
    BY <1>1, <1>3
  <2> QED
    BY <1>1, <2>1
<1>4. (a + b) % b = 0
  <2>1. ((q + 1) * b) % b = 0
    BY <1>2, MultipleMod
  <2> QED
    BY <1>2, <2>1
<1>5. ASSUME a # 0
      PROVE  a >= b /\ (a - b) % b = 0
  <2>1. a - b = (q - 1) * b /\ q - 1 \in Nat
    BY <1>3, <1>5
  <2>2. (q - 1) * b \in Nat
    BY <2>1
  <2>3. ((q - 1) * b) % b = 0
    BY <2>1, MultipleMod
  <2> QED
    BY <2>1, <2>2, <2>3
<1> QED
  BY <1>4, <1>5

\* Whether a multiple of m is at or before a number, by its quotient.
LEMMA QuotientBounds ==
  ASSUME NEW off \in Nat, NEW m \in Nat, m > 0, NEW a \in Nat
  PROVE  off \div m \in Nat /\ (a <= off \div m <=> a * m <= off)
<1> DEFINE q == off \div m
<1>1. q \in Nat /\ q * m <= off /\ off < q * m + m
  <2>1. off \div m \in Nat /\ off % m \in 0 .. m - 1 /\ off = m * (off \div m) + (off % m)
    OBVIOUS
  <2>2. \A x \in Nat : m * x = x * m /\ x * m \in Nat
    OBVIOUS
  <2> QED
    BY <2>1, <2>2
<1> HIDE DEF q
<1>2. ASSUME NEW x \in Nat, NEW y \in Nat, x <= y
      PROVE  x * m <= y * m
  <2>1. PICK d \in Nat : y = x + d
    <3>1. y - x \in Nat /\ y = x + (y - x)
      BY <1>2
    <3> QED
      BY <3>1
  <2>2. (x + d) * m = x * m + d * m /\ d * m \in Nat /\ x * m \in Nat
    OBVIOUS
  <2> QED
    BY <2>1, <2>2
<1>3. (q + 1) * m = q * m + m /\ q * m \in Nat /\ a * m \in Nat
  BY <1>1
<1>4. ASSUME a <= q
      PROVE  a * m <= off
  <2>1. a * m <= q * m
    BY <1>1, <1>2, <1>4
  <2> QED
    BY <1>1, <1>3, <2>1
<1>5. ASSUME ~(a <= q)
      PROVE  ~(a * m <= off)
  <2>1. q + 1 \in Nat /\ q + 1 <= a
    BY <1>1, <1>5
  <2>2. (q + 1) * m <= a * m
    BY <1>2, <2>1
  <2> QED
    BY <1>1, <1>3, <2>2
<1> QED
  BY <1>1, <1>4, <1>5 DEF q

\* Where entry r of table q is, with l entries to a table.
LEMMA DivModOf ==
  ASSUME NEW l \in Nat \ {0}, NEW q \in Nat, NEW r \in 0 .. l - 1
  PROVE  (l * q + r) \div l = q /\ (l * q + r) % l = r
<1> DEFINE n == l * q + r
           d == n \div l
           m == n % l
<1>1. n \in Nat
  OBVIOUS
<1>2. d \in Nat /\ m \in 0 .. l - 1 /\ n = l * d + m
  BY <1>1
<1>3. l * (q - d) = m - r /\ q - d \in Int
  <2>1. l * (q - d) = l * q - l * d
    BY <1>2
  <2>2. l * q \in Nat /\ l * d \in Nat
    BY <1>2
  <2> QED
    BY <1>2, <2>1, <2>2
<1>4. q - d = 0
  <2> DEFINE e == q - d
  <2>1. m - r > - l /\ m - r < l
    BY <1>2
  <2>2. e \in Int /\ l * e > - l /\ l * e < l
    BY <1>3, <2>1
  <2> HIDE DEF e
  <2>3. ~(e >= 1)
    <3>1. ASSUME e >= 1 PROVE l * e >= l
      BY <2>2, <3>1
    <3> QED
      BY <2>2, <3>1
  <2>4. ~(e <= -1)
    <3>1. ASSUME e <= -1 PROVE l * e <= - l
      BY <2>2, <3>1
    <3> QED
      BY <2>2, <3>1
  <2>5. e = 0
    BY <2>2, <2>3, <2>4
  <2> QED
    BY <2>5 DEF e
<1> QED
  BY <1>2, <1>3, <1>4

\* Multiplication by what is not zero, for products of numbers from a header.
LEMMA TimesGrows ==
  ASSUME NEW a \in Nat, NEW b \in Nat, NEW m \in Nat \ {0}
  PROVE  /\ a * m \in Nat
         /\ a >= b => a * m >= b * m
<1>1. a * m \in Nat /\ b * m \in Nat
  OBVIOUS
<1>2. ASSUME a >= b PROVE a * m >= b * m
  <2>1. (a - b) * m = a * m - b * m
    OBVIOUS
  <2>2. a - b \in Nat
    BY <1>2
  <2>3. (a - b) * m \in Nat
    BY <2>2
  <2> QED
    BY <1>1, <2>1, <2>3
<1> QED
  BY <1>1, <1>2

-----------------------------------------------------------------------------
\* Induction along an interval, for a set instead of a formula.
LEMMA IntervalInduction ==
  ASSUME NEW T, NEW lo \in Nat, NEW hi \in Nat, lo \in T,
         \A j \in lo + 1 .. hi : j - 1 \in T => j \in T
  PROVE  \A j \in lo .. hi : j \in T
<1> SUFFICES ASSUME NEW x \in lo .. hi, x \notin T
             PROVE  FALSE
  OBVIOUS
<1> DEFINE Bad == {j \in lo .. hi : j \notin T}
<1>1. PICK y \in Bad : \A j \in Bad : y <= j
  <2>1. Bad \subseteq Nat /\ Bad # {}
    OBVIOUS
  <2> HIDE DEF Bad
  <2> QED
    BY <2>1, LeastElement
<1>2. y \in lo + 1 .. hi /\ y - 1 \in lo .. hi /\ ~(y <= y - 1)
  BY <1>1
<1>3. y - 1 \in T
  BY <1>1, <1>2
<1> QED
  BY <1>1, <1>2, <1>3

\* some function to S is defined by recursion along lo .. hi, from a by steps
RecursionExists(S, a, step, lo, hi) ==
  \E f \in [lo .. hi -> S] :
    f[lo] = a /\ \A j \in lo + 1 .. hi : f[j] = step[j][f[j - 1]]

\* A function that is defined by recursion along an interval exists.
LEMMA Recursion ==
  ASSUME NEW S, NEW a \in S, NEW step \in [Nat -> [S -> S]],
         NEW lo \in Nat, NEW hi \in Nat, lo <= hi
  PROVE  RecursionExists(S, a, step, lo, hi)
<1> DEFINE Rec(f, k) ==
             /\ f \in [lo .. k -> S]
             /\ f[lo] = a /\ \A j \in lo + 1 .. k : f[j] = step[j][f[j - 1]]
           T == {k \in lo .. hi : \E f : Rec(f, k)}
<1>1. lo \in T
  <2>1. Rec([j \in lo .. lo |-> a], lo) /\ lo \in lo .. hi
    OBVIOUS
  <2> HIDE DEF Rec
  <2> QED
    BY <2>1
<1>2. ASSUME NEW k \in lo + 1 .. hi, k - 1 \in T
      PROVE  k \in T
  <2>1. PICK f : Rec(f, k - 1)
    BY <1>2
  <2>2. k - 1 \in lo .. k - 1 /\ f[k - 1] \in S /\ step[k][f[k - 1]] \in S
    BY <2>1
  <2> DEFINE g == [j \in lo .. k |-> IF j = k THEN step[k][f[k - 1]] ELSE f[j]]
  <2>3. g \in [lo .. k -> S]
    <3>1. \A j \in lo .. k : j # k => j \in lo .. k - 1
      OBVIOUS
    <3> QED
      BY <2>1, <2>2, <3>1
  <2>4. g[lo] = a
    BY <2>1
  <2>5. ASSUME NEW j \in lo + 1 .. k
        PROVE  g[j] = step[j][g[j - 1]]
    <3>1. g[j - 1] = f[j - 1]
      BY <2>5
    <3>2. CASE j = k
      BY <3>1, <3>2
    <3>3. CASE j # k
      <4>1. j \in lo + 1 .. k - 1 /\ g[j] = f[j]
        BY <2>5, <3>3
      <4>2. f[j] = step[j][f[j - 1]]
        BY <2>1, <4>1
      <4> HIDE DEF g
      <4> QED
        BY <3>1, <4>1, <4>2
    <3> QED
      BY <3>2, <3>3
  <2> HIDE DEF g
  <2>6. Rec(g, k) /\ k \in lo .. hi
    BY <2>3, <2>4, <2>5
  <2> HIDE DEF Rec
  <2> QED
    BY <2>6
<1>3. hi \in T
  <2>1. hi \in lo .. hi
    OBVIOUS
  <2> HIDE DEF T
  <2>2. \A k \in lo .. hi : k \in T
    BY <1>1, <1>2, IntervalInduction
  <2> QED
    BY <2>1, <2>2
<1>4. PICK f : Rec(f, hi)
  <2> HIDE DEF Rec
  <2> QED
    BY <1>3
<1> QED
  BY <1>4 DEF RecursionExists
=============================================================================
