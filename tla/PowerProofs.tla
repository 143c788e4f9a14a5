----------------------------- MODULE PowerProofs -----------------------------
(***************************************************************************)
(* Lemmas about powers of two, quotients and remainders: the arithmetic    *)
(* the theorems about the golden models stand on.                          *)
(*                                                                         *)
(* Induction is over sets of natural numbers (SetInduction).               *)
(***************************************************************************)
EXTENDS Integers, FiniteSets, FiniteSetTheorems, TLAPS

-----------------------------------------------------------------------------
(* Powers of two, quotients and remainders. *)

\* Every set of natural numbers that is not empty has a least element.
LEMMA LeastNat ==
    ASSUME NEW S \in SUBSET Nat, S # {}
    PROVE  \E n \in S : \A m \in S : n <= m
<1>. DEFINE R == OpToRel(<, Nat)
<1>1. IsWellFoundedOn(R, Nat)
  BY NatLessThanWellFounded
<1>2. PICK n \in S : \A y \in S : ~(<<y, n>> \in R)
  <2>. HIDE DEF R
  <2>. QED
    BY <1>1, WFMin
<1>3. \A y \in S : ~(y < n)
  BY <1>2 DEF OpToRel
<1>. QED
  BY <1>3

\* Induction over a set of natural numbers instead of a formula.
LEMMA SetInduction ==
    ASSUME NEW S, 0 \in S, \A n \in Nat : n \in S => n + 1 \in S
    PROVE  Nat \subseteq S
<1>. DEFINE C == Nat \ S
<1>1. SUFFICES ASSUME C # {} PROVE FALSE
  OBVIOUS
<1>2. PICK k \in C : \A m \in C : k <= m
  BY <1>1, LeastNat
<1>3. k # 0 /\ k - 1 \in Nat /\ k - 1 \notin C
  BY <1>2
<1>4. (k - 1) + 1 \in S
  BY <1>3
<1>. QED
  BY <1>2, <1>4

\* Powers of two count the subsets of an interval.
LEMMA PowCard ==
    ASSUME NEW n \in Nat
    PROVE  IsFiniteSet(SUBSET (1..n)) /\ Cardinality(SUBSET (1..n)) = 2 ^ n
<1>1. IsFiniteSet(1..n) /\ Cardinality(1..n) = n
  BY FS_Interval
<1>. QED
  BY <1>1, FS_SUBSET

LEMMA PowNat == ASSUME NEW n \in Nat PROVE 2 ^ n \in Nat
  BY PowCard, FS_CardinalityType

\* The subsets of 1 .. n + 1 are those without n + 1 and as many with it.
LEMMA PowSucc == ASSUME NEW n \in Nat PROVE 2 ^ (n + 1) = 2 * 2 ^ n
<1>. DEFINE A == SUBSET (1..n)
            B == {T \cup {n + 1} : T \in A}
            f == [T \in A |-> T \cup {n + 1}]
<1>1. IsFiniteSet(A) /\ Cardinality(A) = 2 ^ n
  BY PowCard
<1>2. SUBSET (1 .. n + 1) = A \cup B
  <2>1. ASSUME NEW T \in SUBSET (1 .. n + 1) PROVE T \in A \cup B
    <3>1. CASE n + 1 \in T
      <4>1. T \ {n + 1} \in A /\ T = (T \ {n + 1}) \cup {n + 1}
        BY <3>1
      <4>. QED BY <4>1
    <3>2. CASE n + 1 \notin T
      BY <3>2
    <3>. QED BY <3>1, <3>2
  <2>2. ASSUME NEW T \in A \cup B PROVE T \in SUBSET (1 .. n + 1)
    OBVIOUS
  <2>. QED BY <2>1, <2>2
<1>3. A \cap B = {}
  <2>1. n + 1 \notin 1..n
    OBVIOUS
  <2>. QED BY <2>1
<1>4. f \in Bijection(A, B)
  <2>1. f \in [A -> B]
    OBVIOUS
  <2>2. \A T, U \in A : f[T] = f[U] => T = U
    <3>1. n + 1 \notin 1..n
      OBVIOUS
    <3>. QED BY <3>1
  <2>3. \A U \in B : \E T \in A : f[T] = U
    OBVIOUS
  <2>. HIDE DEF A, B, f
  <2>. QED BY <2>1, <2>2, <2>3 DEF Bijection, Injection, Surjection, IsInjective
<1>5. IsFiniteSet(B) /\ Cardinality(B) = Cardinality(A)
  <2>1. ExistsBijection(A, B)
    BY <1>4 DEF ExistsBijection
  <2>. HIDE DEF A, B
  <2>. QED BY <1>1, <2>1, FS_Bijection
<1>6. Cardinality(A \cup B) = Cardinality(A) + Cardinality(B)
  <2>1. Cardinality(A \cap B) = 0
    BY <1>3, FS_EmptySet
  <2>2. Cardinality(A) \in Nat /\ Cardinality(B) \in Nat
    BY <1>1, <1>5, FS_CardinalityType
  <2>3. Cardinality(A \cup B) = Cardinality(A) + Cardinality(B) - Cardinality(A \cap B)
    <3>. HIDE DEF A, B
    <3>. QED BY <1>1, <1>5, FS_Union
  <2>. QED BY <2>1, <2>2, <2>3
<1>7. Cardinality(SUBSET (1 .. n + 1)) = 2 ^ (n + 1)
  BY PowCard
<1>8. 2 ^ n \in Nat
  BY PowNat
<1>. HIDE DEF A, B, f
<1>9. Cardinality(A \cup B) = 2 ^ n + 2 ^ n
  BY <1>1, <1>5, <1>6
<1>10. Cardinality(A \cup B) = 2 ^ (n + 1)
  BY <1>2, <1>7, Zenon
<1>. QED
  BY <1>8, <1>9, <1>10

LEMMA PowPos == ASSUME NEW n \in Nat PROVE 2 ^ n \in Nat \ {0}
<1>. DEFINE S == {k \in Nat : 2 ^ k # 0}
<1>1. 0 \in S
  OBVIOUS
<1>2. \A k \in Nat : k \in S => k + 1 \in S
  BY PowNat, PowSucc
<1>. HIDE DEF S
<1>3. n \in S
  BY <1>1, <1>2, SetInduction
<1>. QED
  BY <1>3, PowNat DEF S

\* Powers of two turn sums into products, and keep the order.
LEMMA PowAdd == ASSUME NEW a \in Nat, NEW b \in Nat PROVE 2 ^ (a + b) = 2 ^ a * 2 ^ b
<1>. DEFINE S == {k \in Nat : 2 ^ (a + k) = 2 ^ a * 2 ^ k}
<1>1. 0 \in S
  BY PowNat
<1>2. ASSUME NEW k \in Nat, k \in S PROVE k + 1 \in S
  <2>1. 2 ^ (k + 1) = 2 * 2 ^ k /\ 2 ^ ((a + k) + 1) = 2 * 2 ^ (a + k)
    BY PowSucc
  <2>2. 2 ^ a \in Nat /\ 2 ^ k \in Nat
    BY PowNat
  <2>3. 2 * (2 ^ a * 2 ^ k) = 2 ^ a * (2 * 2 ^ k)
    BY <2>2
  <2>4. (a + k) + 1 = a + (k + 1)
    OBVIOUS
  <2>. QED
    BY <1>2, <2>1, <2>3, <2>4
<1>. HIDE DEF S
<1>3. b \in S
  BY <1>1, <1>2, SetInduction
<1>. QED
  BY <1>3 DEF S

LEMMA PowMono == ASSUME NEW a \in Nat, NEW b \in Nat, a <= b PROVE 2 ^ a <= 2 ^ b
<1>1. b - a \in Nat /\ a + (b - a) = b
  OBVIOUS
<1>2. 2 ^ b = 2 ^ a * 2 ^ (b - a)
  BY <1>1, PowAdd
<1>3. 2 ^ a \in Nat /\ 2 ^ (b - a) \in Nat \ {0}
  BY <1>1, PowPos
<1>4. \A x \in Nat, y \in Nat \ {0} : x <= x * y
  OBVIOUS
<1>. QED
  BY <1>2, <1>3, <1>4

\* Quotient and remainder, and that they are the only ones.
LEMMA DivMod ==
    ASSUME NEW a \in Nat, NEW b \in Nat \ {0}
    PROVE  a \div b \in Nat /\ a % b \in 0 .. b - 1 /\ a = b * (a \div b) + (a % b)
OBVIOUS

LEMMA DivUnique ==
    ASSUME NEW a \in Nat, NEW b \in Nat \ {0}, NEW q \in Nat, NEW r \in 0 .. b - 1, a = q * b + r
    PROVE  a \div b = q /\ a % b = r
<1>. DEFINE p == a \div b
            s == a % b
<1>1. p \in Nat /\ s \in 0 .. b - 1 /\ a = b * p + s
  BY DivMod
<1>. HIDE DEF p, s
<1>2. ~(p < q)
  <2>1. SUFFICES ASSUME p + 1 <= q PROVE FALSE
    BY <1>1
  <2>2. b * (p + 1) <= b * q
    BY <1>1, <2>1
  <2>3. b * p + b <= b * q
    BY <1>1, <2>2
  <2>. QED BY <1>1, <2>3
<1>3. ~(q < p)
  <2>1. SUFFICES ASSUME q + 1 <= p PROVE FALSE
    BY <1>1
  <2>2. b * (q + 1) <= b * p
    BY <1>1, <2>1
  <2>3. b * q + b <= b * p
    BY <1>1, <2>2
  <2>. QED BY <1>1, <2>3
<1>4. p = q
  BY <1>1, <1>2, <1>3
<1>. QED
  BY <1>1, <1>4 DEF p, s

LEMMA BelowPow == ASSUME NEW n \in Nat PROVE n < 2 ^ n
<1>. DEFINE S == {k \in Nat : k < 2 ^ k}
<1>1. 0 \in S
  OBVIOUS
<1>2. \A k \in Nat : k \in S => k + 1 \in S
  BY PowNat, PowSucc
<1>. HIDE DEF S
<1>3. n \in S
  BY <1>1, <1>2, SetInduction
<1>. QED
  BY <1>3 DEF S

\* What is a multiple of a times b and what is left, divided by b.
LEMMA DivOfMultiple ==
    ASSUME NEW a \in Nat, NEW b \in Nat \ {0}
    PROVE  (a * b) \div b = a /\ (a * b) % b = 0
BY DivUnique

LEMMA ProductMono ==
    ASSUME NEW a \in Nat, NEW b \in Nat, NEW c \in Nat, a <= b
    PROVE  a * c <= b * c
OBVIOUS

LEMMA StrictProduct ==
    ASSUME NEW a \in Nat, NEW b \in Nat, NEW c \in Nat \ {0}, a < b
    PROVE  a * c < b * c
<1>. DEFINE d == a + 1
<1>1. d \in Nat /\ d <= b
  OBVIOUS
<1>2. d * c = a * c + c
  OBVIOUS
<1>. HIDE DEF d
<1>3. d * c <= b * c
  BY <1>1, ProductMono
<1>4. a * c \in Nat
  OBVIOUS
<1>. QED
  BY <1>2, <1>3, <1>4

\* A quotient is below a bound exactly when the number is below the multiple.
LEMMA DivBelow ==
    ASSUME NEW a \in Nat, NEW b \in Nat \ {0}, NEW c \in Nat
    PROVE  a \div b < c <=> a < c * b
<1>. DEFINE q == a \div b
            r == a % b
<1>1. q \in Nat /\ r \in 0 .. b - 1 /\ a = b * q + r
  BY DivMod
<1>. HIDE DEF q, r
<1>2. CASE q < c
  <2>1. (q + 1) * b <= c * b
    BY <1>1, <1>2, ProductMono
  <2>2. (q + 1) * b = b * q + b
    BY <1>1
  <2>. QED
    BY <1>1, <1>2, <2>1, <2>2 DEF q
<1>3. CASE c <= q
  <2>1. c * b <= q * b
    BY <1>1, <1>3, ProductMono
  <2>. QED
    BY <1>1, <1>3, <2>1 DEF q
<1>. QED
  BY <1>1, <1>2, <1>3
==============================================================================
