------------------------------- MODULE FpProofs -------------------------------
(***************************************************************************)
(* Theorems about the golden models of floating-point arithmetic: what an  *)
(* answer is, for every format, every operand and every rounding mode.     *)
(***************************************************************************)
EXTENDS FpModels, PowerProofs

-----------------------------------------------------------------------------
(* The place of the highest bit. *)

\* The bit length of a positive number is the place of its highest bit.
LEMMA BitLengthIs ==
    ASSUME NEW n \in Nat \ {0}
    PROVE  /\ BitLength(n) \in Nat \ {0}
           /\ 2 ^ (BitLength(n) - 1) <= n
           /\ n < 2 ^ BitLength(n)
<1>. DEFINE S == {k \in Nat : n < 2 ^ k}
            bound == IF n \div 2 ^ 30 < 2 THEN 31 ELSE n
            OK(k) == 2 ^ (k - 1) <= n /\ n \div 2 ^ (k - 1) < 2
<1>1. n \in S
  BY BelowPow
<1>2. PICK k \in S : \A m \in S : k <= m
  BY <1>1, LeastNat
<1>3. k # 0
  <2>1. n < 2 ^ k
    BY <1>2
  <2>2. ASSUME k = 0 PROVE n < 2 ^ 0
    BY <2>1, <2>2, Zenon
  <2>. QED
    BY <2>2
<1>4. k - 1 \in Nat /\ 2 ^ (k - 1) \in Nat \ {0} /\ 2 ^ ((k - 1) + 1) = 2 * 2 ^ (k - 1)
  BY <1>2, <1>3, PowPos, PowSucc
<1>5. 2 ^ (k - 1) <= n
  <2>1. k - 1 \notin S
    BY <1>2, <1>4
  <2>. QED
    BY <1>4, <2>1
<1>6. OK(k)
  <2>1. n < 2 * 2 ^ (k - 1)
    BY <1>2, <1>4
  <2>. QED
    BY <1>4, <1>5, <2>1, DivBelow
<1>7. k \in 1 .. bound
  <2>1. k <= n
    BY <1>1, <1>2
  <2>2. n \div 2 ^ 30 < 2 => 31 \in S
    <3>1. 2 ^ 30 \in Nat \ {0} /\ 2 ^ 31 = 2 * 2 ^ 30
      OBVIOUS
    <3>. QED
      BY <3>1, DivBelow
  <2>3. k \in Nat
    BY <1>2
  <2>4. n \div 2 ^ 30 < 2 => k <= 31
    BY <1>2, <2>2
  <2>. QED
    BY <1>3, <2>1, <2>3, <2>4
<1>8. bound \in Nat
  OBVIOUS
<1>. DEFINE L == BitLength(n)
<1>9. L \in 1 .. bound /\ OK(L)
  <2>1. L = CHOOSE j \in 1 .. bound : OK(j)
    BY DEF BitLength
  <2>2. \E j \in 1 .. bound : OK(j)
    BY <1>6, <1>7
  <2>. HIDE DEF L, OK, bound
  <2>. QED
    BY <2>1, <2>2
<1>. HIDE DEF L, bound
<1>10. L \in Nat \ {0} /\ L - 1 \in Nat /\ 2 ^ (L - 1) \in Nat \ {0} /\ 2 ^ ((L - 1) + 1) = 2 * 2 ^ (L - 1)
  BY <1>8, <1>9, PowPos, PowSucc
<1>11. n < 2 * 2 ^ (L - 1)
  BY <1>9, <1>10, DivBelow
<1>. QED
  BY <1>9, <1>10, <1>11 DEF L

-----------------------------------------------------------------------------
(* Formats and their codes. *)

LEMMA FormatFacts ==
    ASSUME NEW fmt, IsFormat(fmt)
    PROVE  /\ fmt.EXP \in Nat /\ fmt.EXP >= 2 /\ fmt.MANT \in Nat /\ fmt.MANT >= 1
           /\ fmt.BIAS \in Nat /\ fmt.BIAS >= 1
           /\ fmt.EMAX_FIELD = 2 * fmt.BIAS + 1
           /\ fmt.MIN_SCALE = 1 - fmt.BIAS - fmt.MANT
           /\ fmt.WIDTH = fmt.EXP + fmt.MANT + 1
<1>1. /\ fmt.EXP \in Nat \ {0, 1} /\ fmt.MANT \in Nat \ {0}
      /\ fmt.BIAS = 2 ^ (fmt.EXP - 1) - 1 /\ fmt.EMAX_FIELD = 2 ^ fmt.EXP - 1
      /\ fmt.WIDTH = 1 + fmt.EXP + fmt.MANT
      /\ fmt.MIN_SCALE = 1 - (2 ^ (fmt.EXP - 1) - 1) - fmt.MANT
  BY DEF IsFormat, FpFormat
<1>2. fmt.EXP - 1 \in Nat /\ fmt.EXP - 2 \in Nat
  BY <1>1
<1>3. /\ 2 ^ (fmt.EXP - 2) \in Nat \ {0}
      /\ 2 ^ ((fmt.EXP - 2) + 1) = 2 * 2 ^ (fmt.EXP - 2)
      /\ 2 ^ ((fmt.EXP - 1) + 1) = 2 * 2 ^ (fmt.EXP - 1)
  BY <1>2, PowPos, PowSucc
<1>4. (fmt.EXP - 2) + 1 = fmt.EXP - 1 /\ (fmt.EXP - 1) + 1 = fmt.EXP
  BY <1>1
<1>5. 2 ^ (fmt.EXP - 1) \in Nat /\ 2 ^ (fmt.EXP - 1) >= 2 /\ 2 ^ fmt.EXP = 2 * 2 ^ (fmt.EXP - 1)
  BY <1>3, <1>4
<1>. QED
  BY <1>1, <1>5

LEMMA FormatPowers ==
    ASSUME NEW fmt, IsFormat(fmt)
    PROVE  /\ 2 ^ fmt.EXP = fmt.EMAX_FIELD + 1
           /\ 2 ^ fmt.MANT \in Nat /\ 2 ^ fmt.MANT >= 2
           /\ 2 ^ (fmt.MANT - 1) \in Nat \ {0} /\ 2 ^ fmt.MANT = 2 * 2 ^ (fmt.MANT - 1)
           /\ 2 ^ (fmt.MANT + 1) = 2 * 2 ^ fmt.MANT
           /\ 2 ^ (fmt.WIDTH - 1) = (fmt.EMAX_FIELD + 1) * 2 ^ fmt.MANT
           /\ 2 ^ fmt.WIDTH = 2 * 2 ^ (fmt.WIDTH - 1)
<1>1. fmt.EXP \in Nat /\ fmt.MANT \in Nat /\ fmt.MANT - 1 \in Nat /\ fmt.WIDTH - 1 = fmt.EXP + fmt.MANT
      /\ (fmt.MANT - 1) + 1 = fmt.MANT /\ fmt.WIDTH - 1 \in Nat /\ (fmt.WIDTH - 1) + 1 = fmt.WIDTH
  BY FormatFacts
<1>2. 2 ^ fmt.EXP = fmt.EMAX_FIELD + 1
  <2>1. fmt.EMAX_FIELD = 2 ^ fmt.EXP - 1
    BY DEF IsFormat, FpFormat
  <2>2. 2 ^ fmt.EXP \in Nat
    BY <1>1, PowNat
  <2>. QED
    BY <2>1, <2>2
<1>3. 2 ^ (fmt.MANT - 1) \in Nat \ {0} /\ 2 ^ ((fmt.MANT - 1) + 1) = 2 * 2 ^ (fmt.MANT - 1)
  BY <1>1, PowPos, PowSucc
<1>4. 2 ^ fmt.MANT = 2 * 2 ^ (fmt.MANT - 1)
  BY <1>1, <1>3
<1>5. 2 ^ (fmt.MANT + 1) = 2 * 2 ^ fmt.MANT
  BY <1>1, PowSucc
<1>6. 2 ^ (fmt.EXP + fmt.MANT) = 2 ^ fmt.EXP * 2 ^ fmt.MANT
  BY <1>1, PowAdd
<1>7. 2 ^ ((fmt.WIDTH - 1) + 1) = 2 * 2 ^ (fmt.WIDTH - 1)
  BY <1>1, PowSucc
<1>. QED
  BY <1>1, <1>2, <1>3, <1>4, <1>5, <1>6, <1>7

\* The fields of a code, and the code of fields.
IsField(fmt, s, e, f) == s \in 0..1 /\ e \in 0 .. fmt.EMAX_FIELD /\ f \in 0 .. 2 ^ fmt.MANT - 1

LEMMA CodeOfFields ==
    ASSUME NEW fmt, IsFormat(fmt), NEW s, NEW e, NEW f, IsField(fmt, s, e, f)
    PROVE  /\ Pack(fmt, s, e, f) \in Codes(fmt)
           /\ Sign(fmt, Pack(fmt, s, e, f)) = s
           /\ ExpField(fmt, Pack(fmt, s, e, f)) = e
           /\ Fraction(fmt, Pack(fmt, s, e, f)) = f
<1>. DEFINE m == 2 ^ fmt.MANT
            x == fmt.EMAX_FIELD + 1
            c == Pack(fmt, s, e, f)
<1>1. m \in Nat \ {0} /\ x \in Nat \ {0} /\ 2 ^ fmt.EXP = x /\ 2 ^ (fmt.WIDTH - 1) = x * m
      /\ 2 ^ fmt.WIDTH = 2 * (x * m)
  BY FormatFacts, FormatPowers
<1>2. s \in 0..1 /\ e \in 0 .. x - 1 /\ f \in 0 .. m - 1
  BY FormatFacts DEF IsField
<1>3. c = (s * x + e) * m + f
  BY <1>1 DEF Pack
<1>. HIDE DEF m, x, c
<1>4. s * x + e \in Nat /\ (s * x + e) * m = s * (x * m) + e * m
  BY <1>1, <1>2
<1>5. e * m \in Nat /\ (e + 1) * m <= x * m /\ (e + 1) * m = e * m + m
  BY <1>1, <1>2, ProductMono
<1>6. c = s * (x * m) + (e * m + f) /\ e * m + f \in 0 .. x * m - 1 /\ x * m \in Nat \ {0}
  BY <1>1, <1>2, <1>3, <1>4, <1>5
<1>7. c \in 0 .. 2 * (x * m) - 1
  BY <1>2, <1>6
<1>8. c \div (x * m) = s
  <2>1. c \in Nat
    BY <1>7, <1>6
  <2>. HIDE DEF Pack
  <2>. QED
    BY <1>2, <1>6, <2>1, DivUnique
<1>. DEFINE q == s * x + e
<1>9. q \in Nat /\ q % x = e
  <2>1. q \in Nat /\ q = s * x + e /\ s \in Nat
    BY <1>2, <1>4
  <2>. HIDE DEF q
  <2>. QED
    BY <1>1, <1>2, <2>1, DivUnique
<1>10. c \div m = q /\ c % m = f
  <2>1. c = q * m + f /\ c \in Nat
    BY <1>3, <1>6, <1>7
  <2>. HIDE DEF q
  <2>. QED
    BY <1>1, <1>2, <1>9, <2>1, DivUnique
<1>. QED
  BY <1>1, <1>7, <1>8, <1>9, <1>10 DEF Codes, Sign, ExpField, Fraction, m, x, c

LEMMA FieldsOfCode ==
    ASSUME NEW fmt, IsFormat(fmt), NEW c \in Codes(fmt)
    PROVE  /\ IsField(fmt, Sign(fmt, c), ExpField(fmt, c), Fraction(fmt, c))
           /\ c = Pack(fmt, Sign(fmt, c), ExpField(fmt, c), Fraction(fmt, c))
<1>. DEFINE m == 2 ^ fmt.MANT
            x == fmt.EMAX_FIELD + 1
            q == c \div m
            f == c % m
            s == q \div x
            e == q % x
<1>1. m \in Nat \ {0} /\ x \in Nat \ {0} /\ 2 ^ fmt.EXP = x /\ 2 ^ (fmt.WIDTH - 1) = x * m
      /\ 2 ^ fmt.WIDTH = 2 * (x * m)
  BY FormatFacts, FormatPowers
<1>. HIDE DEF m, x
<1>2. x * m \in Nat \ {0} /\ c \in 0 .. 2 * (x * m) - 1 /\ c \in Nat
  BY <1>1 DEF Codes
<1>3. q \in Nat /\ f \in 0 .. m - 1 /\ c = m * q + f
  BY <1>1, <1>2, DivMod
<1>4. s \in Nat /\ e \in 0 .. x - 1 /\ q = x * s + e
  <2>1. q \in Nat
    BY <1>3
  <2>. HIDE DEF q
  <2>. QED
    BY <1>1, <2>1, DivMod
<1>. HIDE DEF q, f, s, e
<1>5. c = s * (x * m) + (e * m + f)
  BY <1>1, <1>3, <1>4
<1>6. e * m \in Nat /\ (e + 1) * m <= x * m /\ (e + 1) * m = e * m + m
  BY <1>1, <1>4, ProductMono
<1>7. c \div (x * m) = s
  <2>1. e * m + f \in 0 .. x * m - 1
    BY <1>1, <1>3, <1>6
  <2>. QED
    BY <1>2, <1>4, <1>5, <2>1, DivUnique
<1>8. s \in 0..1
  BY <1>2, <1>4, <1>7, DivBelow
<1>9. Sign(fmt, c) = s /\ ExpField(fmt, c) = e /\ Fraction(fmt, c) = f
  BY <1>1, <1>7 DEF Sign, ExpField, Fraction, q, e, f, m
<1>10. c = (s * x + e) * m + f
  BY <1>1, <1>3, <1>4
<1>11. fmt.EMAX_FIELD = x - 1
  BY FormatFacts DEF x
<1>. QED
  BY <1>1, <1>3, <1>4, <1>8, <1>9, <1>10, <1>11 DEF IsField, Pack, m

-----------------------------------------------------------------------------
(* The numbers of a format in order.  The code of a number without its sign *)
(* is its index; the magnitude it stands for, in units of the last          *)
(* subnormal bit, is its weight.                                            *)

Weight(P, i) == IF i < P THEN i ELSE (P + (i % P)) * 2 ^ (i \div P - 1)

LEMMA PowZero == ASSUME NEW l, l = 0 PROVE 2 ^ l = 1
<1>1. 2 ^ l = 2 ^ 0
  BY Zenon
<1>. QED
  BY <1>1

\* A significand of up to P's bit length and one more, l places up.
LEMMA WeightAt ==
    ASSUME NEW P \in Nat \ {0}, NEW l \in Nat, NEW k \in 0 .. 2 * P, l = 0 \/ k >= P
    PROVE  l * P + k \in Nat /\ Weight(P, l * P + k) = k * 2 ^ l
<1>. DEFINE i == l * P + k
<1>1. l * P \in Nat /\ i \in Nat
  OBVIOUS
<1>2. 2 ^ l \in Nat \ {0} /\ 2 ^ (l + 1) = 2 * 2 ^ l
  BY PowPos, PowSucc
<1>3. CASE k < P
  <2>1. l = 0 /\ l * P = 0 /\ 2 ^ l = 1
    BY <1>3, PowZero
  <2>2. i = k
    BY <2>1
  <2>. QED
    BY <1>1, <1>3, <2>1, <2>2 DEF Weight
<1>4. CASE P <= k /\ k < 2 * P
  <2>1. i = (l + 1) * P + (k - P) /\ k - P \in 0 .. P - 1 /\ l + 1 \in Nat
    BY <1>4
  <2>2. i \div P = l + 1 /\ i % P = k - P
    <3>. HIDE DEF i
    <3>. QED
      BY <1>1, <2>1, DivUnique
  <2>3. i >= P
    BY <1>1, <1>4
  <2>4. (l + 1) - 1 = l /\ P + (k - P) = k
    OBVIOUS
  <2>5. Weight(P, i) = k * 2 ^ l
    <3>. HIDE DEF i
    <3>. QED
      BY <1>1, <2>2, <2>3, <2>4 DEF Weight
  <2>. QED
    BY <1>1, <2>5
<1>5. CASE k = 2 * P
  <2>1. i = (l + 2) * P + 0 /\ l + 2 \in Nat
    BY <1>5
  <2>2. i \div P = l + 2 /\ i % P = 0
    <3>. HIDE DEF i
    <3>. QED
      BY <1>1, <2>1, DivUnique
  <2>3. i >= P
    BY <1>1, <1>5
  <2>4. (l + 2) - 1 = l + 1 /\ P + 0 = P
    OBVIOUS
  <2>5. Weight(P, i) = P * 2 ^ (l + 1)
    <3>. HIDE DEF i
    <3>. QED
      BY <1>1, <2>2, <2>3, <2>4 DEF Weight
  <2>6. P * (2 * 2 ^ l) = (2 * P) * 2 ^ l
    BY <1>2
  <2>. QED
    BY <1>1, <1>2, <1>5, <2>5, <2>6
<1>. QED
  BY <1>3, <1>4, <1>5

\* Every index is of that form.
InBinade(P, i, l, k) ==
    /\ l \in Nat /\ k \in 0 .. 2 * P - 1
    /\ l = 0 \/ k >= P
    /\ i = l * P + k
    /\ Weight(P, i) = k * 2 ^ l

LEMMA IndexForm ==
    ASSUME NEW P \in Nat \ {0}, NEW i \in Nat
    PROVE  \E l, k : InBinade(P, i, l, k)
<1>1. CASE i < P
  <2>1. 0 \in Nat /\ i \in 0 .. 2 * P - 1 /\ i = 0 * P + i
    BY <1>1
  <2>2. Weight(P, i) = i * 2 ^ 0
    BY <1>1 DEF Weight
  <2>3. InBinade(P, i, 0, i)
    BY <2>1, <2>2 DEF InBinade
  <2>. QED
    BY <2>3
<1>2. CASE i >= P
  <2>. DEFINE q == i \div P
              r == i % P
  <2>1. q \in Nat /\ r \in 0 .. P - 1 /\ i = P * q + r
    BY DivMod
  <2>2. Weight(P, i) = (P + r) * 2 ^ (q - 1)
    BY <1>2 DEF Weight
  <2>. HIDE DEF q, r
  <2>3. q # 0
    BY <1>2, <2>1
  <2>4. q - 1 \in Nat /\ P + r \in 0 .. 2 * P - 1 /\ i = (q - 1) * P + (P + r) /\ P + r >= P
    BY <2>1, <2>3
  <2>5. InBinade(P, i, q - 1, P + r)
    BY <2>2, <2>4 DEF InBinade
  <2>. QED
    BY <2>5
<1>. QED
  BY <1>1, <1>2

LEMMA WeightMono ==
    ASSUME NEW P \in Nat \ {0}, NEW i \in Nat, NEW j \in Nat, i < j
    PROVE  Weight(P, i) \in Nat /\ Weight(P, j) \in Nat /\ Weight(P, i) < Weight(P, j)
<1>1. PICK l \in Nat, k \in 0 .. 2 * P - 1 : (l = 0 \/ k >= P) /\ i = l * P + k /\ Weight(P, i) = k * 2 ^ l
  <2>1. \E l, k : InBinade(P, i, l, k)
    BY IndexForm
  <2>. QED
    BY <2>1, Zenon DEF InBinade
<1>2. PICK m \in Nat, n \in 0 .. 2 * P - 1 : (m = 0 \/ n >= P) /\ j = m * P + n /\ Weight(P, j) = n * 2 ^ m
  <2>1. \E m, n : InBinade(P, j, m, n)
    BY IndexForm
  <2>. QED
    BY <2>1, Zenon DEF InBinade
<1>3. 2 ^ l \in Nat \ {0} /\ 2 ^ m \in Nat \ {0} /\ 2 ^ (l + 1) = 2 * 2 ^ l
  BY PowPos, PowSucc
<1>4. k * 2 ^ l \in Nat /\ n * 2 ^ m \in Nat
  BY <1>3
<1>5. CASE l = m
  <2>1. k < n
    BY <1>1, <1>2, <1>5
  <2>2. k * 2 ^ l < n * 2 ^ l
    BY <1>3, <2>1, StrictProduct
  <2>. QED
    BY <1>1, <1>2, <1>4, <1>5, <2>2
<1>6. CASE l < m
  <2>1. n >= P
    BY <1>2, <1>6
  <2>2. k * 2 ^ l < (2 * P) * 2 ^ l
    BY <1>3, StrictProduct
  <2>3. (2 * P) * 2 ^ l = P * 2 ^ (l + 1)
    BY <1>3
  <2>4. 2 ^ (l + 1) <= 2 ^ m
    BY <1>6, PowMono
  <2>5. 2 ^ (l + 1) * P <= 2 ^ m * P
    BY <1>3, <2>4, ProductMono
  <2>6. P * 2 ^ m <= n * 2 ^ m
    BY <1>3, <2>1, ProductMono
  <2>7. P * 2 ^ (l + 1) = 2 ^ (l + 1) * P /\ P * 2 ^ m = 2 ^ m * P
    BY <1>3
  <2>8. P * 2 ^ m \in Nat /\ P * 2 ^ (l + 1) \in Nat
    BY <1>3
  <2>. QED
    BY <1>1, <1>2, <1>4, <2>2, <2>3, <2>5, <2>6, <2>7, <2>8
<1>7. CASE m < l
  <2>1. k >= P
    BY <1>1, <1>7
  <2>2. (m + 1) * P <= l * P /\ (m + 1) * P = m * P + P
    BY <1>7, ProductMono
  <2>3. l * P \in Nat /\ m * P \in Nat
    OBVIOUS
  <2>. QED
    BY <1>1, <1>2, <2>1, <2>2, <2>3
<1>. QED
  BY <1>5, <1>6, <1>7

\* The sign of a code apart, its index, and the index of infinity.
Index(fmt, bits) == bits % 2 ^ (fmt.WIDTH - 1)
Top(fmt) == fmt.EMAX_FIELD * 2 ^ fmt.MANT

LEMMA IndexIs ==
    ASSUME NEW fmt, IsFormat(fmt), NEW c \in Codes(fmt)
    PROVE  /\ Index(fmt, c) = ExpField(fmt, c) * 2 ^ fmt.MANT + Fraction(fmt, c)
           /\ Index(fmt, c) \in 0 .. 2 ^ (fmt.WIDTH - 1) - 1
           /\ c = Sign(fmt, c) * 2 ^ (fmt.WIDTH - 1) + Index(fmt, c)
<1>. DEFINE m == 2 ^ fmt.MANT
            h == 2 ^ (fmt.WIDTH - 1)
            s == Sign(fmt, c)
            e == ExpField(fmt, c)
            f == Fraction(fmt, c)
            x == fmt.EMAX_FIELD + 1
            i == e * m + f
<1>1. m \in Nat \ {0} /\ h = x * m /\ 2 ^ fmt.EXP = x /\ x \in Nat \ {0}
  BY FormatFacts, FormatPowers
<1>2. s \in 0..1 /\ e \in 0 .. x - 1 /\ f \in 0 .. m - 1 /\ c = (s * x + e) * m + f
  BY <1>1, FieldsOfCode, FormatFacts DEF IsField, Pack
<1>3. c \in Nat
  BY FormatPowers, FormatFacts, PowNat DEF Codes
<1>4. c \div h = s
  BY DEF Sign
<1>. HIDE DEF m, h, s, e, f, x
<1>5. (s * x + e) * m + f = s * (x * m) + (e * m + f)
  BY <1>1, <1>2
<1>6. e * m \in Nat /\ (e + 1) * m <= x * m /\ (e + 1) * m = e * m + m
  BY <1>1, <1>2, ProductMono
<1>7. i \in 0 .. h - 1 /\ h \in Nat \ {0} /\ c = s * h + i /\ s \in Nat
  BY <1>1, <1>2, <1>5, <1>6
<1>. HIDE DEF i
<1>8. c % h = i
  BY <1>3, <1>7, DivUnique
<1>. QED
  BY <1>7, <1>8 DEF Index, i, h, s, e, f, m

\* A sign and an index make a code.
LEMMA CodeOfIndex ==
    ASSUME NEW fmt, IsFormat(fmt), NEW s \in 0..1, NEW i \in 0 .. 2 ^ (fmt.WIDTH - 1) - 1
    PROVE  /\ s * 2 ^ (fmt.WIDTH - 1) + i \in Codes(fmt)
           /\ Sign(fmt, s * 2 ^ (fmt.WIDTH - 1) + i) = s
           /\ Index(fmt, s * 2 ^ (fmt.WIDTH - 1) + i) = i
<1>. DEFINE h == 2 ^ (fmt.WIDTH - 1)
            c == s * h + i
<1>1. h \in Nat \ {0} /\ 2 ^ fmt.WIDTH = 2 * h
  <2>1. fmt.WIDTH - 1 \in Nat
    BY FormatFacts
  <2>. QED
    BY <2>1, FormatPowers, PowPos
<1>. HIDE DEF h
<1>2. i \in 0 .. h - 1 /\ s \in Nat
  BY DEF h
<1>3. c \in Nat /\ c <= 2 * h - 1
  BY <1>1, <1>2
<1>4. c \div h = s /\ c % h = i
  <2>1. c = s * h + i
    OBVIOUS
  <2>. HIDE DEF c
  <2>. QED
    BY <1>1, <1>2, <1>3, <2>1, DivUnique
<1>5. c \in 0 .. 2 ^ fmt.WIDTH - 1
  BY <1>1, <1>3
<1>. QED
  BY <1>4, <1>5 DEF Codes, Sign, Index, h

\* What a code stands for, by its index.
DecodesTo(fmt, d, sign, i) ==
    /\ d.sign = sign /\ sign \in 0..1 /\ i \in Nat
    /\ d.mant \in Nat /\ d.mant < 2 * 2 ^ fmt.MANT
    /\ d.scale \in Int /\ d.scale >= fmt.MIN_SCALE
    /\ d.mant * 2 ^ (d.scale - fmt.MIN_SCALE) = Weight(2 ^ fmt.MANT, i)
    /\ i = (d.scale - fmt.MIN_SCALE) * 2 ^ fmt.MANT + d.mant
    /\ d.kind \in {"zero", "fin", "inf", "nan", "snan"}
    /\ d.kind = "zero" <=> i = 0
    /\ d.kind = "fin" <=> 0 < i /\ i < Top(fmt)
    /\ d.kind = "inf" <=> i = Top(fmt)
    /\ d.kind \in {"nan", "snan"} <=> i > Top(fmt)
    /\ d.mant = 0 <=> i = 0

LEMMA DecodeIs ==
    ASSUME NEW fmt, IsFormat(fmt), NEW c \in Codes(fmt)
    PROVE  DecodesTo(fmt, Decode(fmt, c), Sign(fmt, c), Index(fmt, c))
<1>. DEFINE m == 2 ^ fmt.MANT
            e == ExpField(fmt, c)
            f == Fraction(fmt, c)
            i == Index(fmt, c)
            d == Decode(fmt, c)
            x == fmt.EMAX_FIELD
            u == fmt.MIN_SCALE
            half == 2 ^ (fmt.MANT - 1)
            kind == CASE e = x /\ f = 0 -> "inf"
                      [] e = x /\ f \in 1 .. half - 1 -> "snan"
                      [] e = x /\ f >= half -> "nan"
                      [] e = 0 /\ f = 0 -> "zero"
                      [] OTHER -> "fin"
            mant == IF e = 0 THEN f ELSE f + m
            scale == IF e = 0 THEN u ELSE e - fmt.BIAS - fmt.MANT
            sign == Sign(fmt, c)
<1>1. d = [kind |-> kind, sign |-> sign, mant |-> mant, scale |-> scale]
  BY DEF Decode
<1>1a. d.kind = kind /\ d.sign = sign /\ d.mant = mant /\ d.scale = scale
  BY <1>1
<1>2. sign \in 0..1 /\ e \in 0 .. x /\ f \in 0 .. m - 1 /\ i = e * m + f
  BY FieldsOfCode, IndexIs DEF IsField
<1>3. e # 0 => e - fmt.BIAS - fmt.MANT = u + (e - 1)
  <2>1. e \in Int
    BY FormatFacts, <1>2
  <2>. HIDE DEF e
  <2>. QED
    BY <2>1, FormatFacts
<1>3a. u \in Int /\ m \in Nat /\ m >= 2 /\ x \in Nat \ {0} /\ m = 2 * half /\ half \in Nat \ {0}
  BY FormatFacts, FormatPowers
<1>4. Top(fmt) = x * m
  BY DEF Top
<1>5. i \in Nat
  BY <1>2, <1>3a
<1>. HIDE DEF m, e, f, i, x, u, half, sign
<1>6. CASE e = 0
  <2>1. e * m = 0
    BY <1>6, <1>3a
  <2>2. mant = f /\ scale = u /\ i = f
    BY <1>2, <1>3a, <1>6, <2>1
  <2>3. (u - u) * m = 0 /\ 2 ^ (u - u) = 1
    BY <1>3a, PowZero
  <2>4. f * 1 = f /\ Weight(m, f) = f
    BY <1>2, <1>3a DEF Weight
  <2>5. x * m >= m
    BY <1>3a
  <2>6. kind = IF f = 0 THEN "zero" ELSE "fin"
    BY <1>2, <1>3a, <1>6
  <2>7. /\ kind \in {"zero", "fin", "inf", "nan", "snan"}
        /\ kind = "zero" <=> i = 0
        /\ kind = "fin" <=> 0 < i /\ i < x * m
        /\ kind = "inf" <=> i = x * m
        /\ kind \in {"nan", "snan"} <=> i > x * m
    <3>1. i < x * m /\ x * m \in Nat
      BY <1>2, <1>3a, <2>2, <2>5
    <3>2. CASE f = 0
      BY <1>5, <2>2, <2>6, <3>1, <3>2
    <3>3. CASE f # 0
      BY <1>2, <1>5, <2>2, <2>6, <3>1, <3>3
    <3>. HIDE DEF kind
    <3>. QED
      BY <3>2, <3>3
  <2>8. mant * 2 ^ (scale - u) = Weight(m, i) /\ i = (scale - u) * m + mant
    BY <1>2, <1>3a, <2>2, <2>3, <2>4
  <2>2a. mant \in Nat /\ mant < 2 * m /\ (mant = 0 <=> i = 0) /\ scale \in Int /\ scale >= u
    BY <1>2, <1>3a, <2>2
  <2>. HIDE DEF kind, mant, scale, d
  <2>. QED
    BY <1>1a, <1>2, <1>3a, <1>4, <1>5, <2>2, <2>2a, <2>7, <2>8 DEF DecodesTo, d, i, u, m, sign
<1>7. CASE e # 0
  <2>1. mant = f + m /\ scale = u + (e - 1)
    BY <1>3, <1>3a, <1>7, <1>2
  <2>2. i = (e - 1) * m + mant /\ e - 1 \in Nat /\ mant \in 0 .. 2 * m - 1 /\ mant >= m
    BY <1>2, <1>3a, <1>7, <2>1
  <2>3. scale - u = e - 1
    BY <1>2, <1>3a, <2>1
  <2>4. Weight(m, i) = mant * 2 ^ (e - 1)
    <3>. HIDE DEF mant
    <3>. QED
      BY <1>3a, <2>2, WeightAt
  <2>5. i >= m
    BY <1>3a, <2>2
  <2>6. e = x => i = x * m + f
    BY <1>2
  <2>7. e < x => i < x * m
    <3>1. e < x => (e + 1) * m <= x * m
      BY <1>2, <1>3a, ProductMono
    <3>2. (e + 1) * m = e * m + m /\ e * m \in Nat /\ x * m \in Nat
      BY <1>2, <1>3a
    <3>. QED
      BY <1>2, <1>3a, <3>1, <3>2
  <2>8. e < x => kind = "fin"
    BY <1>2, <1>3a, <1>7
  <2>9. e = x => kind = IF f = 0 THEN "inf" ELSE IF f < half THEN "snan" ELSE "nan"
    BY <1>2, <1>3a, <1>7
  <2>10. x * m \in Nat
    BY <1>3a
  <2>11. /\ kind \in {"zero", "fin", "inf", "nan", "snan"}
         /\ kind = "zero" <=> i = 0
         /\ kind = "fin" <=> 0 < i /\ i < x * m
         /\ kind = "inf" <=> i = x * m
         /\ kind \in {"nan", "snan"} <=> i > x * m
    <3>1. CASE e < x
      BY <1>3a, <1>5, <2>5, <2>7, <2>8, <2>10, <3>1
    <3>2. CASE e = x
      BY <1>2, <1>3a, <1>5, <2>5, <2>6, <2>9, <2>10, <3>2
    <3>. QED
      BY <1>2, <1>3a, <3>1, <3>2
  <2>12. scale >= u /\ scale \in Int
    BY <1>3a, <2>1, <2>2
  <2>13. mant # 0 /\ i # 0
    BY <1>3a, <2>2, <2>5
  <2>. HIDE DEF kind, mant, scale, d
  <2>. QED
    BY <1>1a, <1>2, <1>3a, <1>4, <1>5, <2>2, <2>3, <2>4, <2>11, <2>12, <2>13 DEF DecodesTo, d, i, u, m, sign
<1>. QED
  BY <1>6, <1>7 DEF d, i, sign

-----------------------------------------------------------------------------
(* Rounding, seen from the index of the result. *)

\* The outcome whose rounded magnitude has the index i, with or without a loss.
Coded(fmt, rm, s, i, lost) ==
    IF i >= Top(fmt) THEN Outcome(Overflowed(rm, s, fmt), {"overflow", "inexact"})
    ELSE Outcome(s * 2 ^ (fmt.WIDTH - 1) + i,
                 If("underflow", lost /\ i < 2 ^ fmt.MANT) \union If("inexact", lost))

LEMMA PackIs ==
    ASSUME NEW fmt, IsFormat(fmt), NEW s \in 0..1, NEW e \in Nat, NEW f \in Nat
    PROVE  Pack(fmt, s, e, f) = s * 2 ^ (fmt.WIDTH - 1) + (e * 2 ^ fmt.MANT + f)
<1>. DEFINE m == 2 ^ fmt.MANT
            x == 2 ^ fmt.EXP
<1>1. m \in Nat /\ x \in Nat /\ 2 ^ (fmt.WIDTH - 1) = x * m
  BY FormatFacts, FormatPowers
<1>2. Pack(fmt, s, e, f) = (s * x + e) * m + f
  BY DEF Pack
<1>. HIDE DEF m, x
<1>3. (s * x + e) * m + f = s * (x * m) + (e * m + f)
  BY <1>1
<1>. QED
  BY <1>1, <1>2, <1>3 DEF m

\* A rounded significand k of the binade l is packed into the code of its index.
PacksTo(fmt, rm, s, lost, l, k) ==
    PackRounded(s, k, fmt.MIN_SCALE + l, lost, rm, fmt) = Coded(fmt, rm, s, l * 2 ^ fmt.MANT + k, lost)

LEMMA PackRoundedIs ==
    ASSUME NEW fmt, IsFormat(fmt), NEW rm, NEW s \in 0..1, NEW lost \in BOOLEAN,
           NEW l \in Nat, NEW k \in 0 .. 2 * 2 ^ fmt.MANT, l = 0 \/ k >= 2 ^ fmt.MANT
    PROVE  PacksTo(fmt, rm, s, lost, l, k)
<1>. SUFFICES PackRounded(s, k, fmt.MIN_SCALE + l, lost, rm, fmt)
                = Coded(fmt, rm, s, l * 2 ^ fmt.MANT + k, lost)
  BY DEF PacksTo
<1>. DEFINE m == 2 ^ fmt.MANT
            h == 2 ^ (fmt.WIDTH - 1)
            x == fmt.EMAX_FIELD
            i == l * m + k
            carry == k >= 2 ^ (fmt.MANT + 1)
            kept == IF carry THEN k \div 2 ELSE k
            biased == fmt.MIN_SCALE + l + (IF carry THEN 1 ELSE 0) + fmt.MANT + fmt.BIAS
            R == PackRounded(s, k, fmt.MIN_SCALE + l, lost, rm, fmt)
<1>1. m \in Nat /\ m >= 2 /\ h \in Nat /\ x \in Nat /\ x >= 3 /\ 2 ^ (fmt.MANT + 1) = 2 * m
  BY FormatFacts, FormatPowers
<1>2. Top(fmt) = x * m
  BY DEF Top
<1>3. R = CASE kept = 0 -> Outcome(zero(fmt, s), If("underflow", lost) \union If("inexact", lost))
            [] kept >= m /\ biased >= x -> Outcome(Overflowed(rm, s, fmt), {"overflow", "inexact"})
            [] kept >= m /\ biased < x -> Outcome(Pack(fmt, s, biased, kept % m), If("inexact", lost))
            [] OTHER -> Outcome(Pack(fmt, s, 0, kept), If("underflow", lost) \union If("inexact", lost))
  BY DEF PackRounded
<1>4. Coded(fmt, rm, s, i, lost)
        = IF i >= x * m THEN Outcome(Overflowed(rm, s, fmt), {"overflow", "inexact"})
          ELSE Outcome(s * h + i, If("underflow", lost /\ i < m) \union If("inexact", lost))
  BY <1>2 DEF Coded
<1>5. biased = l + (IF carry THEN 1 ELSE 0) + 1
  BY FormatFacts
<1>6. carry <=> k = 2 * m
  BY <1>1
<1>7. zero(fmt, s) = s * h
  <2>1. zero(fmt, s) = s * h + (0 * m + 0)
    BY PackIs DEF zero
  <2>. QED
    BY <1>1, <2>1
<1>8. \A e, f \in Nat : Pack(fmt, s, e, f) = s * h + (e * m + f)
  BY PackIs
<1>. HIDE DEF m, h, x, R, carry, biased
<1>9. k \in Nat /\ k <= 2 * m /\ (l = 0 \/ k >= m)
  BY <1>1 DEF m
<1>10. CASE k < m
  <2>1. l = 0 /\ ~carry
    BY <1>1, <1>6, <1>9, <1>10
  <2>2. l * m = 0
    BY <1>1, <2>1
  <2>3. kept = k /\ i = k /\ k < x * m
    <3>1. 3 * m <= x * m
      BY <1>1, ProductMono
    <3>2. x * m \in Nat
      BY <1>1
    <3>. QED
      BY <1>1, <1>9, <1>10, <2>1, <2>2, <3>1, <3>2
  <2>4. Coded(fmt, rm, s, i, lost) = Outcome(s * h + k, If("underflow", lost) \union If("inexact", lost))
    <3>1. (lost /\ k < m) = lost
      BY <1>10
    <3>2. ~(k >= x * m)
      BY <1>1, <2>3
    <3>. QED
      BY <1>4, <2>3, <3>1, <3>2
  <2>5. CASE k = 0
    <3>1. s * h + k = s * h
      BY <1>1, <2>5
    <3>2. kept = 0
      BY <2>3, <2>5
    <3>. HIDE DEF kept
    <3>3. R = Outcome(zero(fmt, s), If("underflow", lost) \union If("inexact", lost))
      BY <1>1, <1>3, <3>2
    <3>. QED
      BY <1>7, <2>4, <3>1, <3>3 DEF R, i, m
  <2>6. CASE k # 0
    <3>1. ~(k >= m)
      BY <1>1, <1>9, <1>10
    <3>2. R = Outcome(Pack(fmt, s, 0, k), If("underflow", lost) \union If("inexact", lost))
      BY <1>3, <2>3, <2>6, <3>1
    <3>3. Pack(fmt, s, 0, k) = s * h + (0 * m + k) /\ 0 * m + k = k
      BY <1>1, <1>8, <1>9
    <3>. QED
      BY <2>4, <3>2, <3>3 DEF R, i, m
  <2>. QED
    BY <2>5, <2>6
<1>11. CASE k >= m
  <2>. DEFINE c == IF carry THEN 1 ELSE 0
  <2>1. kept \in Nat /\ kept >= m /\ kept < 2 * m /\ kept # 0
    BY <1>1, <1>6, <1>9, <1>11
  <2>2. c \in 0..1 /\ biased = l + c + 1 /\ biased \in Nat
    BY <1>5
  <2>3. i = biased * m + (kept - m)
    <3>1. CASE carry
      <4>1. kept = m /\ c = 1 /\ k = 2 * m
        BY <1>1, <1>6, <3>1
      <4>2. i = l * m + 2 * m /\ (l + 2) * m = l * m + 2 * m /\ biased = l + 2
        BY <1>1, <2>2, <4>1
      <4>. QED
        BY <1>1, <4>1, <4>2
    <3>2. CASE ~carry
      <4>1. kept = k /\ c = 0
        BY <3>2
      <4>2. (l + 1) * m = l * m + m /\ biased = l + 1
        BY <1>1, <2>2, <4>1
      <4>. QED
        BY <1>1, <1>9, <4>1, <4>2
    <3>. QED
      BY <3>1, <3>2
  <2>4. kept % m = kept - m
    BY <1>1, <2>1
  <2>. HIDE DEF c, kept
  <2>5. i \in Nat
    BY <1>1, <1>9
  <2>6. biased * m \in Nat /\ x * m \in Nat
    BY <1>1, <2>2
  <2>7. CASE biased >= x
    <3>1. x * m <= biased * m
      BY <1>1, <2>2, <2>7, ProductMono
    <3>2. i >= x * m
      BY <1>1, <2>1, <2>3, <2>5, <2>6, <3>1
    <3>3. R = Outcome(Overflowed(rm, s, fmt), {"overflow", "inexact"})
      BY <1>1, <1>3, <2>1, <2>2, <2>7
    <3>4. Coded(fmt, rm, s, i, lost) = Outcome(Overflowed(rm, s, fmt), {"overflow", "inexact"})
      BY <1>4, <3>2
    <3>. QED
      BY <3>3, <3>4 DEF R, i, m
  <2>8. CASE biased < x
    <3>1. (biased + 1) * m <= x * m /\ (biased + 1) * m = biased * m + m
      BY <1>1, <2>2, <2>8, ProductMono
    <3>2. i < x * m /\ i >= m
      <4>1. 1 * m <= biased * m
        BY <1>1, <2>2, ProductMono
      <4>. QED
        BY <1>1, <2>1, <2>3, <2>5, <2>6, <3>1, <4>1
    <3>3. R = Outcome(Pack(fmt, s, biased, kept - m), If("inexact", lost))
      <4>1. ~(biased >= x)
        BY <1>1, <2>2, <2>8
      <4>. QED
        BY <1>3, <2>1, <2>4, <2>8, <4>1
    <3>4. Pack(fmt, s, biased, kept - m) = s * h + i
      <4>1. kept - m \in Nat
        BY <1>1, <2>1
      <4>2. Pack(fmt, s, biased, kept - m) = s * h + (biased * m + (kept - m))
        BY <1>8, <2>2, <4>1
      <4>. QED
        BY <2>3, <4>2
    <3>5. Coded(fmt, rm, s, i, lost) = Outcome(s * h + i, If("inexact", lost))
      <4>1. ~(i >= x * m) /\ ~(i < m)
        BY <1>1, <2>5, <2>6, <3>2
      <4>2. If("underflow", lost /\ i < m) = {}
        BY <4>1 DEF If
      <4>. HIDE DEF i
      <4>. QED
        BY <1>4, <4>1, <4>2
    <3>. QED
      BY <3>3, <3>4, <3>5 DEF R, i, m
  <2>. QED
    BY <1>1, <2>2, <2>7, <2>8
<1>. QED
  BY <1>1, <1>9, <1>10, <1>11

\* What a shift keeps of a magnitude, the bit below, and whether anything is below that.
Kept(n, shift) == IF shift > 0 THEN n \div 2 ^ shift ELSE n * 2 ^ (-shift)
RoundBit(n, shift) == IF shift > 0 THEN (n \div 2 ^ (shift - 1)) % 2 ELSE 0
Sticky(n, shift) == shift > 0 /\ n % 2 ^ (shift - 1) # 0
Lsb(n, scale, fmt) == Max2(scale + BitLength(n) - 1 - fmt.MANT, fmt.MIN_SCALE)

\* The remainder of a shift, by the round bit and the sticky bit.
LEMMA SplitBits ==
    ASSUME NEW n \in Nat, NEW shift \in Nat \ {0}
    PROVE  /\ n \div 2 ^ shift \in Nat
           /\ n = (n \div 2 ^ shift) * 2 ^ shift + (n % 2 ^ shift)
           /\ n % 2 ^ shift \in 0 .. 2 ^ shift - 1
           /\ RoundBit(n, shift) \in 0..1
           /\ RoundBit(n, shift) = 1 <=> 2 * (n % 2 ^ shift) >= 2 ^ shift
           /\ RoundBit(n, shift) = 1 /\ Sticky(n, shift) <=> 2 * (n % 2 ^ shift) > 2 ^ shift
           /\ RoundBit(n, shift) = 1 \/ Sticky(n, shift) <=> n % 2 ^ shift # 0
<1>. DEFINE w == 2 ^ (shift - 1)
            h == n \div w
            t == n % w
            q == h \div 2
            b == h % 2
            d == 2 ^ shift
<1>1. w \in Nat \ {0} /\ d = 2 * w
  <2>1. shift - 1 \in Nat /\ (shift - 1) + 1 = shift
    OBVIOUS
  <2>. QED
    BY <2>1, PowPos, PowSucc
<1>2. RoundBit(n, shift) = b /\ (Sticky(n, shift) <=> t # 0)
  BY DEF RoundBit, Sticky
<1>. HIDE DEF w, d
<1>3. h \in Nat /\ t \in 0 .. w - 1 /\ n = w * h + t
  BY <1>1, DivMod
<1>. HIDE DEF h, t
<1>4. q \in Nat /\ b \in 0..1 /\ h = 2 * q + b
  BY <1>3, DivMod
<1>. HIDE DEF q, b
<1>. DEFINE r == b * w + t
<1>5. r \in 0 .. d - 1 /\ d \in Nat \ {0} /\ n = q * d + r
  <2>1. b * w = IF b = 0 THEN 0 ELSE w
    BY <1>1, <1>4
  <2>2. w * h = q * d + b * w
    BY <1>1, <1>3, <1>4
  <2>. QED
    BY <1>1, <1>3, <1>4, <2>1, <2>2
<1>6. b = 1 <=> 2 * r >= d
  BY <1>1, <1>3, <1>4
<1>7. b = 1 /\ t # 0 <=> 2 * r > d
  BY <1>1, <1>3, <1>4
<1>8. b = 1 \/ t # 0 <=> r # 0
  BY <1>1, <1>3, <1>4
<1>. HIDE DEF r
<1>9. n \div d = q /\ n % d = r
  BY <1>4, <1>5, DivUnique
<1>. QED
  BY <1>2, <1>4, <1>5, <1>6, <1>7, <1>8, <1>9 DEF d

\* A shift keeps the bits above it.
LEMMA KeptBelow ==
    ASSUME NEW n \in Nat \ {0}, NEW sh \in Int, NEW j \in Nat, BitLength(n) <= j + sh
    PROVE  Kept(n, sh) \in Nat /\ Kept(n, sh) < 2 ^ j
<1>. DEFINE L == BitLength(n)
<1>1. L \in Nat \ {0} /\ 2 ^ (L - 1) <= n /\ n < 2 ^ L /\ L <= j + sh
  BY BitLengthIs
<1>. HIDE DEF L
<1>2. CASE sh > 0
  <2>1. Kept(n, sh) = n \div 2 ^ sh /\ 2 ^ sh \in Nat \ {0} /\ sh \in Nat /\ L \in Nat /\ j + sh \in Nat
    BY <1>1, <1>2, PowPos DEF Kept
  <2>2. 2 ^ L <= 2 ^ (j + sh) /\ 2 ^ (j + sh) = 2 ^ j * 2 ^ sh /\ 2 ^ L \in Nat /\ 2 ^ j \in Nat
    BY <1>1, <2>1, PowMono, PowAdd, PowNat
  <2>3. n < 2 ^ j * 2 ^ sh /\ n \in Nat
    BY <1>1, <2>1, <2>2
  <2>4. n \div 2 ^ sh < 2 ^ j
    BY <2>1, <2>2, <2>3, DivBelow
  <2>5. n \div 2 ^ sh \in Nat
    BY <2>1, <2>3, DivMod
  <2>. QED
    BY <2>1, <2>4, <2>5
<1>3. CASE ~(sh > 0)
  <2>. DEFINE z == -sh
  <2>1. z \in Nat /\ Kept(n, sh) = n * 2 ^ z /\ L + z <= j /\ L + z \in Nat /\ L \in Nat
    BY <1>1, <1>3 DEF Kept
  <2>. HIDE DEF z
  <2>2. 2 ^ (L + z) <= 2 ^ j /\ 2 ^ (L + z) = 2 ^ L * 2 ^ z /\ 2 ^ L \in Nat /\ 2 ^ z \in Nat \ {0} /\ 2 ^ j \in Nat
    BY <2>1, PowMono, PowAdd, PowPos
  <2>3. n * 2 ^ z < 2 ^ L * 2 ^ z
    BY <1>1, <2>2, StrictProduct
  <2>4. n * 2 ^ z \in Nat
    BY <2>2
  <2>. QED
    BY <2>1, <2>2, <2>3, <2>4
<1>. QED
  BY <1>2, <1>3

LEMMA KeptAbove ==
    ASSUME NEW n \in Nat \ {0}, NEW sh \in Int, NEW j \in Nat, j + sh = BitLength(n) - 1
    PROVE  2 ^ j <= Kept(n, sh)
<1>. DEFINE L == BitLength(n)
<1>1. L - 1 \in Nat /\ 2 ^ (L - 1) <= n /\ 2 ^ (L - 1) \in Nat /\ j + sh = L - 1 /\ 2 ^ j \in Nat
  BY BitLengthIs, PowNat
<1>. HIDE DEF L
<1>2. CASE sh > 0
  <2>1. Kept(n, sh) = n \div 2 ^ sh /\ 2 ^ sh \in Nat \ {0} /\ sh \in Nat
    BY <1>2, PowPos DEF Kept
  <2>2. 2 ^ (L - 1) = 2 ^ j * 2 ^ sh
    BY <1>1, <2>1, PowAdd
  <2>3. ~(n \div 2 ^ sh < 2 ^ j)
    <3>1. ~(n < 2 ^ j * 2 ^ sh)
      BY <1>1, <2>2
    <3>. QED
      BY <1>1, <2>1, <3>1, DivBelow
  <2>4. n \div 2 ^ sh \in Nat
    BY <2>1, DivMod
  <2>. QED
    BY <1>1, <2>1, <2>3, <2>4
<1>3. CASE ~(sh > 0)
  <2>. DEFINE z == -sh
  <2>1. z \in Nat /\ Kept(n, sh) = n * 2 ^ z /\ (L - 1) + z = j
    BY <1>1, <1>3 DEF Kept
  <2>. HIDE DEF z
  <2>2. 2 ^ ((L - 1) + z) = 2 ^ (L - 1) * 2 ^ z /\ 2 ^ z \in Nat
    BY <1>1, <2>1, PowAdd, PowNat
  <2>3. 2 ^ (L - 1) * 2 ^ z <= n * 2 ^ z
    BY <1>1, <2>2, ProductMono
  <2>. QED
    BY <2>1, <2>2, <2>3
<1>. QED
  BY <1>2, <1>3

\* A significand has the format's precision, all of it above the subnormal numbers.
LEMMA KeptRange ==
    ASSUME NEW fmt, IsFormat(fmt), NEW n \in Nat \ {0}, NEW scale \in Int
    PROVE  LET lsb == Lsb(n, scale, fmt)
           IN  /\ lsb \in Int /\ lsb >= fmt.MIN_SCALE
               /\ Kept(n, lsb - scale) \in 0 .. 2 * 2 ^ fmt.MANT - 1
               /\ IF scale + BitLength(n) - 1 - fmt.MANT >= fmt.MIN_SCALE
                  THEN /\ lsb = scale + BitLength(n) - 1 - fmt.MANT
                       /\ Kept(n, lsb - scale) >= 2 ^ fmt.MANT
                  ELSE /\ lsb = fmt.MIN_SCALE
                       /\ Kept(n, lsb - scale) < 2 ^ fmt.MANT
<1>. DEFINE lsb == Lsb(n, scale, fmt)
            L == BitLength(n)
            M == fmt.MANT
            u == fmt.MIN_SCALE
            sh == lsb - scale
            k == Kept(n, sh)
<1>1. L \in Nat \ {0}
  BY BitLengthIs
<1>2. M \in Nat /\ u \in Int /\ 2 ^ (M + 1) = 2 * 2 ^ M /\ 2 ^ M \in Nat
  BY FormatFacts, FormatPowers
<1>3. lsb = Max2(scale + L - 1 - M, u)
  BY DEF Lsb
<1>. HIDE DEF lsb, M, u
<1>. HIDE DEF L
<1>4. /\ lsb \in Int /\ lsb >= u /\ sh \in Int /\ L <= (M + 1) + sh /\ M + 1 \in Nat
      /\ scale + L - 1 - M >= u => lsb = scale + L - 1 - M /\ M + sh = L - 1
      /\ ~(scale + L - 1 - M >= u) => lsb = u /\ L <= M + sh
  BY <1>1, <1>2, <1>3 DEF Max2
<1>5. k \in Nat /\ k < 2 * 2 ^ M
  <2>. HIDE DEF sh
  <2>. QED
    BY <1>2, <1>4, KeptBelow DEF L
<1>6. scale + L - 1 - M >= u => k >= 2 ^ M
  <2>. HIDE DEF sh
  <2>. QED
    BY <1>2, <1>4, KeptAbove DEF L
<1>7. ~(scale + L - 1 - M >= u) => k < 2 ^ M
  <2>. HIDE DEF sh
  <2>. QED
    BY <1>2, <1>4, KeptBelow DEF L
<1>. HIDE DEF k
<1>. QED
  BY <1>2, <1>4, <1>5, <1>6, <1>7 DEF k, lsb, M, u, sh, L

LEMMA RoundPackShape ==
    ASSUME NEW fmt, IsFormat(fmt), NEW s \in 0..1, NEW rm \in RoundingModes,
           NEW n \in Nat \ {0}, NEW scale \in Int
    PROVE  LET lsb == Lsb(n, scale, fmt)
               shift == lsb - scale
               lost == RoundBit(n, shift) = 1 \/ Sticky(n, shift)
               up == IF RoundsUp(rm, s, Kept(n, shift), RoundBit(n, shift), Sticky(n, shift)) THEN 1 ELSE 0
           IN  RoundPack(s, n, scale, rm, fmt)
                 = Coded(fmt, rm, s, (lsb - fmt.MIN_SCALE) * 2 ^ fmt.MANT + (Kept(n, shift) + up), lost)
<1>. DEFINE lsb == Lsb(n, scale, fmt)
            shift == lsb - scale
            k == Kept(n, shift)
            lost == RoundBit(n, shift) = 1 \/ Sticky(n, shift)
            up == IF RoundsUp(rm, s, Kept(n, shift), RoundBit(n, shift), Sticky(n, shift)) THEN 1 ELSE 0
            l == lsb - fmt.MIN_SCALE
<1>1. RoundPack(s, n, scale, rm, fmt) = PackRounded(s, k + up, lsb, lost, rm, fmt)
  BY DEF RoundPack, Kept, RoundBit, Sticky, Lsb
<1>2. lsb \in Int /\ lsb >= fmt.MIN_SCALE /\ k \in 0 .. 2 * 2 ^ fmt.MANT - 1
      /\ (lsb = fmt.MIN_SCALE \/ k >= 2 ^ fmt.MANT)
  BY KeptRange
<1>3. fmt.MIN_SCALE \in Int /\ 2 ^ fmt.MANT \in Nat
  BY FormatFacts, FormatPowers
<1>4. up \in 0..1 /\ lost \in BOOLEAN
  OBVIOUS
<1>. HIDE DEF lsb, k, lost, up
<1>. DEFINE k1 == k + up
<1>5. l \in Nat /\ k1 \in 0 .. 2 * 2 ^ fmt.MANT /\ (l = 0 \/ k1 >= 2 ^ fmt.MANT)
      /\ lsb = fmt.MIN_SCALE + l
  BY <1>2, <1>3, <1>4
<1>. HIDE DEF l, k1
<1>6. PackRounded(s, k1, fmt.MIN_SCALE + l, lost, rm, fmt) = Coded(fmt, rm, s, l * 2 ^ fmt.MANT + k1, lost)
  <2>1. k1 \in 0 .. 2 * 2 ^ fmt.MANT /\ l \in Nat /\ (l = 0 \/ k1 >= 2 ^ fmt.MANT) /\ lost \in BOOLEAN
    BY <1>4, <1>5
  <2>2. PacksTo(fmt, rm, s, lost, l, k1)
    BY <2>1, PackRoundedIs
  <2>. QED
    BY <2>2 DEF PacksTo
<1>. QED
  BY <1>1, <1>5, <1>6 DEF k1, l, lost, up, k, lsb

-----------------------------------------------------------------------------
(* Two multipliers, one rounding. *)

LEMMA RshiftIs ==
    ASSUME NEW n \in Nat \ {0}, NEW sh \in Int, NEW s
    PROVE  _rshift_rne(n, sh)
             = Kept(n, sh) + (IF RoundsUp(RM_RNE, s, Kept(n, sh), RoundBit(n, sh), Sticky(n, sh)) THEN 1 ELSE 0)
<1>. DEFINE up == RoundsUp(RM_RNE, s, Kept(n, sh), RoundBit(n, sh), Sticky(n, sh))
<1>1. up <=> RoundBit(n, sh) = 1 /\ (Sticky(n, sh) \/ Kept(n, sh) % 2 = 1)
  BY DEF RoundsUp, RM_RNE, RM_RTZ, RM_RDN, RM_RUP
<1>2. CASE sh > 0
  <2>. DEFINE q == n \div 2 ^ sh
              r == n % 2 ^ sh
              d == 2 ^ sh
              half == 2 ^ (sh - 1)
  <2>1. sh \in Nat \ {0} /\ sh - 1 \in Nat /\ (sh - 1) + 1 = sh /\ ~(sh <= 0)
    BY <1>2
  <2>2. half \in Nat /\ d = 2 * half
    BY <2>1, PowNat, PowSucc
  <2>3. /\ q \in Nat /\ r \in 0 .. d - 1 /\ RoundBit(n, sh) \in 0..1
        /\ RoundBit(n, sh) = 1 <=> 2 * r >= d
        /\ RoundBit(n, sh) = 1 /\ Sticky(n, sh) <=> 2 * r > d
    BY <2>1, SplitBits
  <2>4. Kept(n, sh) = q
    BY <1>2 DEF Kept
  <2>5. _rshift_rne(n, sh) = IF r > half \/ (r = half /\ q % 2 = 1) THEN q + 1 ELSE q
    BY <2>1 DEF _rshift_rne
  <2>. HIDE DEF q, r, d, half, up
  <2>6. up <=> r > half \/ (r = half /\ q % 2 = 1)
    BY <1>1, <2>2, <2>3, <2>4
  <2>. QED
    BY <2>3, <2>4, <2>5, <2>6 DEF up
<1>3. CASE ~(sh > 0)
  <2>1. sh <= 0
    BY <1>3
  <2>2. _rshift_rne(n, sh) = n * 2 ^ (-sh) /\ Kept(n, sh) = n * 2 ^ (-sh) /\ RoundBit(n, sh) = 0
    BY <1>3, <2>1 DEF _rshift_rne, Kept, RoundBit
  <2>3. -sh \in Nat /\ 2 ^ (-sh) \in Nat
    BY <2>1, PowNat
  <2>4. ~up
    BY <1>1, <2>2
  <2>. QED
    BY <2>2, <2>3, <2>4
<1>. QED
  BY <1>2, <1>3

Kinds == {"zero", "fin", "inf", "nan", "snan"}

LEMMA KindPairs ==
    ASSUME NEW x \in Kinds, NEW y \in Kinds
    PROVE  /\ {x, y} \intersect {"nan", "snan"} # {} <=> x \in {"nan", "snan"} \/ y \in {"nan", "snan"}
           /\ {x, y} = {"inf", "zero"} <=> (x = "inf" /\ y = "zero") \/ (x = "zero" /\ y = "inf")
           /\ {x, y} \in {{"inf"}, {"inf", "fin"}}
                <=> (x = "inf" /\ y \in {"inf", "fin"}) \/ (x = "fin" /\ y = "inf")
           /\ {x, y} \in {{"zero"}, {"zero", "fin"}}
                <=> (x = "zero" /\ y \in {"zero", "fin"}) \/ (x = "fin" /\ y = "zero")
           /\ {x, y} = {"fin"} <=> x = "fin" /\ y = "fin"
           /\ {x, y} = {"zero"} <=> x = "zero" /\ y = "zero"
<1>1. {x, y} = {"inf", "zero"} <=> (x = "inf" /\ y = "zero") \/ (x = "zero" /\ y = "inf")
  BY DEF Kinds
<1>2. \A z : {x, y} = {z} <=> x = z /\ y = z
  OBVIOUS
<1>3. \A z, w : {x, y} = {z, w} <=> (x = z /\ y = w) \/ (x = w /\ y = z)
  OBVIOUS
<1>4. {x, y} \in {{"inf"}, {"inf", "fin"}} <=> {x, y} = {"inf"} \/ {x, y} = {"inf", "fin"}
  OBVIOUS
<1>5. {x, y} \in {{"zero"}, {"zero", "fin"}} <=> {x, y} = {"zero"} \/ {x, y} = {"zero", "fin"}
  OBVIOUS
<1>6. {x, y} \intersect {"nan", "snan"} # {} <=> x \in {"nan", "snan"} \/ y \in {"nan", "snan"}
  OBVIOUS
<1>. QED
  BY <1>1, <1>2, <1>3, <1>4, <1>5, <1>6 DEF Kinds

\* The two forms of one rounding: by the place of the leading bit, and by the last kept bit.
LEMMA Fp16Rounding ==
    ASSUME NEW fmt, IsFormat(fmt), NEW s \in 0..1, NEW n \in Nat \ {0}, NEW ep \in Int
    PROVE  LET pos == BitLength(n) - 1 + ep
               mant == _rshift_rne(n, BitLength(n) - 1 - fmt.MANT)
               carry == mant >= 2 ^ (fmt.MANT + 1)
               e_field == pos + fmt.BIAS + (IF carry THEN 1 ELSE 0)
               k == _rshift_rne(n, fmt.MIN_SCALE - ep)
           IN  RoundPack(s, n, ep, RM_RNE, fmt).bits =
                  IF pos >= 1 - fmt.BIAS
                  THEN IF e_field >= fmt.EMAX_FIELD THEN inf(fmt, s)
                       ELSE Pack(fmt, s, e_field, (IF carry THEN mant \div 2 ELSE mant) % 2 ^ fmt.MANT)
                  ELSE IF k >= 2 ^ fmt.MANT THEN Pack(fmt, s, 1, k % 2 ^ fmt.MANT) ELSE Pack(fmt, s, 0, k)
<1>. DEFINE L == BitLength(n)
            M == fmt.MANT
            B == fmt.BIAS
            u == fmt.MIN_SCALE
            m == 2 ^ M
            lsb == Lsb(n, ep, fmt)
            sh == lsb - ep
            k1 == _rshift_rne(n, sh)
            lost == RoundBit(n, sh) = 1 \/ Sticky(n, sh)
            carry == k1 >= 2 ^ (M + 1)
            kept == IF carry THEN k1 \div 2 ELSE k1
            biased == lsb + (IF carry THEN 1 ELSE 0) + M + B
            x == fmt.EMAX_FIELD
            R == RoundPack(s, n, ep, RM_RNE, fmt)
<1>1. /\ L \in Nat \ {0} /\ M \in Nat /\ B \in Nat /\ u = 1 - B - M /\ m \in Nat /\ m >= 2
      /\ 2 ^ (M + 1) = 2 * m /\ x >= 3 /\ x \in Nat
  BY BitLengthIs, FormatFacts, FormatPowers
<1>2. /\ lsb \in Int
      /\ Kept(n, sh) \in 0 .. 2 * m - 1
      /\ ep + L - 1 - M >= u => lsb = ep + L - 1 - M /\ Kept(n, sh) >= m
      /\ ~(ep + L - 1 - M >= u) => lsb = u /\ Kept(n, sh) < m
  BY KeptRange
<1>. DEFINE up == IF RoundsUp(RM_RNE, s, Kept(n, sh), RoundBit(n, sh), Sticky(n, sh)) THEN 1 ELSE 0
<1>3. k1 = Kept(n, sh) + up /\ up \in 0..1
  <2>1. sh \in Int
    BY <1>2
  <2>. HIDE DEF sh
  <2>. QED
    BY <2>1, RshiftIs
<1>4. R = PackRounded(s, Kept(n, sh) + up, lsb, lost, RM_RNE, fmt)
  BY DEF RoundPack, Kept, RoundBit, Sticky, Lsb
<1>5. R = CASE kept = 0 -> Outcome(zero(fmt, s), If("underflow", lost) \union If("inexact", lost))
            [] kept >= m /\ biased >= x -> Outcome(Overflowed(RM_RNE, s, fmt), {"overflow", "inexact"})
            [] kept >= m /\ biased < x -> Outcome(Pack(fmt, s, biased, kept % m), If("inexact", lost))
            [] OTHER -> Outcome(Pack(fmt, s, 0, kept), If("underflow", lost) \union If("inexact", lost))
  BY <1>3, <1>4 DEF PackRounded
<1>6. \A bits, flags : Outcome(bits, flags).bits = bits
  BY DEF Outcome
<1>7. Overflowed(RM_RNE, s, fmt) = inf(fmt, s)
  BY DEF Overflowed
<1>8. zero(fmt, s) = Pack(fmt, s, 0, 0)
  BY DEF zero
<1>9. CASE L - 1 + ep >= 1 - B
  <2>1. lsb = ep + L - 1 - M /\ Kept(n, sh) >= m /\ sh = L - 1 - M
    <3>1. ep + L - 1 - M >= u
      BY <1>1, <1>9
    <3>. HIDE DEF lsb, L, M, u, m
    <3>. QED
      BY <1>1, <1>2, <3>1
  <2>2. k1 = _rshift_rne(n, L - 1 - M)
    BY <2>1
  <2>3. biased = (L - 1 + ep) + B + (IF carry THEN 1 ELSE 0)
    <3>. HIDE DEF lsb, L, M, B, k1
    <3>. QED
      BY <1>1, <2>1
  <2>. DEFINE K == Kept(n, sh)
  <2>4. k1 \in Nat /\ k1 >= m /\ k1 <= 2 * m
    <3>. HIDE DEF up, m, k1, K
    <3>. QED
      BY <1>1, <1>2, <1>3, <2>1 DEF K
  <2>. HIDE DEF k1, m, K
  <2>5. kept >= m /\ kept # 0 /\ kept \in Nat
    BY <1>1, <2>4
  <2>6. biased \in Int
    BY <1>1, <1>2
  <2>. HIDE DEF kept, biased, R, lost
  <2>7. CASE biased >= x
    <3>1. R = Outcome(Overflowed(RM_RNE, s, fmt), {"overflow", "inexact"})
      BY <1>1, <1>5, <2>5, <2>6, <2>7
    <3>2. R.bits = inf(fmt, s)
      BY <1>6, <1>7, <3>1
    <3>. QED
      BY <1>9, <2>2, <2>3, <2>7, <3>2 DEF R, L, M, B, x, biased
  <2>8. CASE biased < x
    <3>1. R = Outcome(Pack(fmt, s, biased, kept % m), If("inexact", lost))
      BY <1>1, <1>5, <2>5, <2>6, <2>8
    <3>2. R.bits = Pack(fmt, s, biased, kept % m) /\ ~(biased >= x)
      BY <1>1, <1>6, <2>6, <2>8, <3>1
    <3>. QED
      BY <1>9, <2>2, <2>3, <3>2 DEF R, L, M, B, x, m, biased, kept
  <2>. QED
    BY <1>1, <2>6, <2>7, <2>8
<1>10. CASE ~(L - 1 + ep >= 1 - B)
  <2>1. lsb = u /\ Kept(n, sh) < m /\ sh = u - ep
    <3>1. ~(ep + L - 1 - M >= u)
      BY <1>1, <1>10
    <3>. HIDE DEF lsb, L, M, u, m
    <3>. QED
      BY <1>1, <1>2, <3>1
  <2>2. k1 = _rshift_rne(n, u - ep)
    BY <2>1
  <2>. DEFINE K == Kept(n, sh)
  <2>3. k1 \in Nat /\ k1 <= m
    <3>. HIDE DEF up, m, k1, K
    <3>. QED
      BY <1>1, <1>2, <1>3, <2>1 DEF K
  <2>. HIDE DEF k1, m, K
  <2>4. ~carry /\ kept = k1 /\ biased = 1
    <3>1. ~carry
      BY <1>1, <2>3
    <3>. HIDE DEF carry, lsb, B, M, u
    <3>. QED
      BY <1>1, <2>1, <3>1
  <2>. HIDE DEF kept, biased, R, lost
  <2>5. CASE k1 >= m
    <3>1. R = Outcome(Pack(fmt, s, 1, k1 % m), If("inexact", lost))
      BY <1>1, <1>5, <2>3, <2>4, <2>5
    <3>2. R.bits = Pack(fmt, s, 1, k1 % m)
      BY <1>6, <3>1
    <3>. QED
      BY <1>10, <2>2, <2>5, <3>2 DEF R, L, M, B, m, u
  <2>6. CASE ~(k1 >= m)
    <3>1. R.bits = Pack(fmt, s, 0, k1)
      <4>1. CASE k1 = 0
        <5>1. R = Outcome(zero(fmt, s), If("underflow", lost) \union If("inexact", lost))
          BY <1>1, <1>5, <2>4, <4>1
        <5>. QED
          BY <1>6, <1>8, <4>1, <5>1
      <4>2. CASE k1 # 0
        <5>1. R = Outcome(Pack(fmt, s, 0, k1), If("underflow", lost) \union If("inexact", lost))
          BY <1>5, <2>4, <2>6, <4>2
        <5>. QED
          BY <1>6, <5>1
      <4>. QED
        BY <4>1, <4>2
    <3>. QED
      BY <1>10, <2>2, <2>6, <3>1 DEF R, L, M, B, m, u
  <2>. QED
    BY <2>5, <2>6
<1>. QED
  BY <1>9, <1>10

LEMMA Fp16MulIs ==
    ASSUME NEW fmt, IsFormat(fmt), NEW a \in Codes(fmt), NEW b \in Codes(fmt)
    PROVE  fp16_mul(fmt, a, b) = fp_mul(a, b, RM_RNE, fmt).bits
<1>. DEFINE da == Decode(fmt, a)
            db == Decode(fmt, b)
            kinds == {da.kind, db.kind}
            sr == (da.sign + db.sign) % 2
            n == da.mant * db.mant
            ep == da.scale + db.scale
            pos == BitLength(n) - 1 + ep
            mant == _rshift_rne(n, BitLength(n) - 1 - fmt.MANT)
            carry == mant >= 2 ^ (fmt.MANT + 1)
            e_field == pos + fmt.BIAS + (IF carry THEN 1 ELSE 0)
            k == _rshift_rne(n, fmt.MIN_SCALE - ep)
            normal == Pack(fmt, sr, e_field, (IF carry THEN mant \div 2 ELSE mant) % 2 ^ fmt.MANT)
            small == IF k >= 2 ^ fmt.MANT THEN Pack(fmt, sr, 1, k % 2 ^ fmt.MANT) ELSE Pack(fmt, sr, 0, k)
            Nans == kinds \intersect {"nan", "snan"} # {}
            Bad == kinds = {"inf", "zero"}
            Infs == kinds \in {{"inf"}, {"inf", "fin"}}
            Zeros == kinds \in {{"zero"}, {"zero", "fin"}}
            Fins == kinds = {"fin"}
            low == pos < 1 - fmt.BIAS
            high == pos >= 1 - fmt.BIAS
            R == RoundPack(sr, n, ep, RM_RNE, fmt)
<1>1. fp16_mul(fmt, a, b) =
        CASE Nans \/ Bad -> QNAN(fmt)
          [] Infs -> inf(fmt, sr)
          [] Zeros -> zero(fmt, sr)
          [] Fins /\ high -> IF e_field >= fmt.EMAX_FIELD THEN inf(fmt, sr) ELSE normal
          [] Fins /\ low -> small
  BY DEF fp16_mul
<1>2. fp_mul(a, b, RM_RNE, fmt) =
        CASE Nans -> Outcome(QNAN(fmt), If("invalid", "snan" \in kinds))
          [] Bad -> Outcome(QNAN(fmt), {"invalid"})
          [] Infs -> Outcome(inf(fmt, sr), {})
          [] Zeros -> Outcome(zero(fmt, sr), {})
          [] Fins -> R
  BY DEF fp_mul
<1>3. /\ DecodesTo(fmt, da, Sign(fmt, a), Index(fmt, a))
      /\ DecodesTo(fmt, db, Sign(fmt, b), Index(fmt, b))
  BY DecodeIs
<1>. HIDE DEF da, db
<1>4. /\ da.kind \in Kinds /\ db.kind \in Kinds /\ sr \in 0..1
      /\ da.mant \in Nat /\ db.mant \in Nat /\ ep \in Int
      /\ da.kind = "fin" => da.mant # 0
      /\ db.kind = "fin" => db.mant # 0
  BY <1>3 DEF DecodesTo, Kinds
<1>5. /\ Nans => ~Bad /\ ~Infs /\ ~Zeros /\ ~Fins
      /\ Bad => ~Infs /\ ~Zeros /\ ~Fins
      /\ Infs => ~Zeros /\ ~Fins
      /\ Zeros => ~Fins
      /\ Nans \/ Bad \/ Infs \/ Zeros \/ Fins
      /\ Fins => da.kind = "fin" /\ db.kind = "fin"
  <2>. DEFINE x == da.kind
              y == db.kind
  <2>1. x \in Kinds /\ y \in Kinds
    BY <1>4
  <2>2. /\ Nans <=> x \in {"nan", "snan"} \/ y \in {"nan", "snan"}
        /\ Bad <=> (x = "inf" /\ y = "zero") \/ (x = "zero" /\ y = "inf")
        /\ Infs <=> (x = "inf" /\ y \in {"inf", "fin"}) \/ (x = "fin" /\ y = "inf")
        /\ Zeros <=> (x = "zero" /\ y \in {"zero", "fin"}) \/ (x = "fin" /\ y = "zero")
        /\ Fins <=> x = "fin" /\ y = "fin"
    <3>. HIDE DEF x, y
    <3>1. kinds = {x, y}
      BY DEF x, y
    <3>. HIDE DEF kinds
    <3>. QED
      BY <2>1, <3>1, KindPairs
  <2>. HIDE DEF Nans, Bad, Infs, Zeros, Fins, x, y
  <2>3. /\ Nans => ~Bad /\ ~Infs /\ ~Zeros /\ ~Fins
        /\ Bad => ~Infs /\ ~Zeros /\ ~Fins
        /\ Infs => ~Zeros /\ ~Fins
        /\ Zeros => ~Fins
        /\ Nans \/ Bad \/ Infs \/ Zeros \/ Fins
        /\ Fins => x = "fin" /\ y = "fin"
    BY <2>1, <2>2 DEF Kinds
  <2>. QED
    BY <2>3 DEF x, y
<1>6. \A bits, flags : Outcome(bits, flags).bits = bits
  BY DEF Outcome
<1>7. ASSUME Fins
      PROVE  /\ R.bits = IF high THEN IF e_field >= fmt.EMAX_FIELD THEN inf(fmt, sr) ELSE normal ELSE small
             /\ low <=> ~high
  <2>1. da.mant \in Nat \ {0} /\ db.mant \in Nat \ {0}
    BY <1>4, <1>5, <1>7
  <2>2. n \in Nat \ {0}
    BY <2>1
  <2>3. BitLength(n) \in Nat /\ fmt.BIAS \in Int
    BY <2>2, BitLengthIs, FormatFacts
  <2>. HIDE DEF n, sr, ep
  <2>4. low <=> ~high
    BY <1>4, <2>3
  <2>. QED
    BY <1>4, <2>2, <2>4, Fp16Rounding
<1>. HIDE DEF Nans, Bad, Infs, Zeros, Fins, low, high, e_field, normal, small, sr, R, kinds
<1>8. CASE Nans
  BY <1>1, <1>2, <1>5, <1>6, <1>8
<1>9. CASE Bad
  BY <1>1, <1>2, <1>5, <1>6, <1>9
<1>10. CASE Infs
  BY <1>1, <1>2, <1>5, <1>6, <1>10
<1>11. CASE Zeros
  BY <1>1, <1>2, <1>5, <1>6, <1>11
<1>12. CASE Fins
  <2>1. fp_mul(a, b, RM_RNE, fmt) = R
    BY <1>2, <1>5, <1>12
  <2>2. fp16_mul(fmt, a, b)
          = IF high THEN IF e_field >= fmt.EMAX_FIELD THEN inf(fmt, sr) ELSE normal ELSE small
    BY <1>1, <1>5, <1>7, <1>12
  <2>. QED
    BY <1>7, <1>12, <2>1, <2>2
<1>. QED
  BY <1>5, <1>8, <1>9, <1>10, <1>11, <1>12

-----------------------------------------------------------------------------
(* The machine that is asked: its query never changes, and its answer is   *)
(* the model's.                                                            *)

Answered ==
    \/ answer = <<>>
    \/ query.k = "add" /\ answer = <<fp_add(query.a, query.b, query.rm, query.fmt)>>
    \/ query.k = "mul" /\ answer = <<fp_mul(query.a, query.b, query.rm, query.fmt)>>
    \/ query.k = "fma" /\ answer = <<fp_fma(query.a, query.b, query.c, query.rm, query.fmt)>>
    \/ query.k = "fp16" /\ answer = <<fp16_mul(query.fmt, query.a, query.b)>>
    \/ query.k = "fp8" /\ answer = <<fp8_mul_to_fp32(query.a, query.b, query.fmt)>>
    \/ query.k = "fp8round" /\ answer = <<float_to_fp8(query.x)>>
    \/ query.k = "acc" /\ answer = <<fp32_add(query.a, query.b)>>

\* The answer is the model's, to a call the models take.
THEOREM FpAnswered == FpSpec => [](Callable(query) /\ Answered)
<1>1. Asking => Callable(query) /\ Answered
  BY QueriesAssumption DEF Asking, Answered
<1>2. Callable(query) /\ Answered /\ [FpNext]_<<query, answer>> => (Callable(query) /\ Answered)'
  <2>1. ASSUME Callable(query), Answered, [FpNext]_<<query, answer>> PROVE query' = query
    BY <2>1 DEF FpNext, FpAdd, FpMul, FpFma, Fp16Mul, Fp8Mul, Fp8Round, AccumulatorAdd, Ask
  <2>2. ASSUME Callable(query), query' = query PROVE Callable(query)'
    BY <2>2 DEF Callable
  <2>3. ASSUME Answered, FpNext, query' = query PROVE Answered'
    BY <2>3 DEF Answered, FpNext, FpAdd, FpMul, FpFma, Fp16Mul, Fp8Mul, Fp8Round, AccumulatorAdd, Ask
  <2>4. ASSUME Answered, UNCHANGED <<query, answer>> PROVE Answered'
    BY <2>4 DEF Answered
  <2>. QED
    BY <2>1, <2>2, <2>3, <2>4
<1>. QED
  BY <1>1, <1>2, PTL DEF FpSpec

\* tensor_ref.py's multiply and fp_ref.py's give the same bits, in every format and for
\* every pair of operands, subnormals, infinities and NaNs included.
THEOREM MultipliersAlwaysAgree == FpSpec => []MultipliersAgree
<1>1. Callable(query) /\ Answered => MultipliersAgree
  <2>1. SUFFICES ASSUME Callable(query), Answered, Asked({"fp16"})
                 PROVE  Got = fp_mul(query.a, query.b, RM_RNE, query.fmt).bits
    BY DEF MultipliersAgree
  <2>2. query.k = "fp16" /\ answer = <<fp16_mul(query.fmt, query.a, query.b)>>
    BY <2>1 DEF Answered, Asked
  <2>3. IsFormat(query.fmt) /\ query.a \in Codes(query.fmt) /\ query.b \in Codes(query.fmt)
    BY <2>1, <2>2 DEF Callable
  <2>4. Got = fp16_mul(query.fmt, query.a, query.b)
    BY <2>2 DEF Got
  <2>. QED
    BY <2>3, <2>4, Fp16MulIs
<1>. QED
  BY <1>1, FpAnswered, PTL

-----------------------------------------------------------------------------
(* The reference model against IEEE-754, in units of 2^(2 * MIN_SCALE).     *)

Units == 2 ^ (-REF.MIN_SCALE)
Mag(i) == Weight(2 ^ REF.MANT, i) * Units
Infinity == 2 ^ (2 * (REF.MANT + REF.EMAX_FIELD))

LEMMA UnitsFacts ==
    /\ IsFormat(REF) /\ REF.MIN_SCALE \in Int /\ -REF.MIN_SCALE \in Nat /\ REF.MIN_SCALE < 0
    /\ Units \in Nat \ {0} /\ 2 ^ REF.MANT \in Nat /\ 2 ^ REF.MANT >= 2
    /\ Top(REF) \in Nat /\ Top(REF) >= 3 * 2 ^ REF.MANT
    /\ Top(REF) = REF.EMAX_FIELD * 2 ^ REF.MANT
    /\ 2 ^ (REF.WIDTH - 1) = Top(REF) + 2 ^ REF.MANT
<1>1. IsFormat(REF)
  BY RefAssumption
<1>2. REF.MIN_SCALE \in Int /\ -REF.MIN_SCALE \in Nat /\ REF.MIN_SCALE < 0
  BY <1>1, FormatFacts
<1>3. Units \in Nat \ {0}
  BY <1>2, PowPos DEF Units
<1>4. 2 ^ REF.MANT \in Nat /\ 2 ^ REF.MANT >= 2 /\ REF.EMAX_FIELD \in Nat /\ REF.EMAX_FIELD >= 3
      /\ 2 ^ (REF.WIDTH - 1) = (REF.EMAX_FIELD + 1) * 2 ^ REF.MANT
  BY <1>1, FormatFacts, FormatPowers
<1>5. Top(REF) = REF.EMAX_FIELD * 2 ^ REF.MANT
  BY DEF Top
<1>. DEFINE m == 2 ^ REF.MANT
            e == REF.EMAX_FIELD
<1>6. m \in Nat /\ e \in Nat /\ e >= 3 => e * m \in Nat /\ e * m >= 3 * m /\ (e + 1) * m = e * m + m
  <2>. HIDE DEF m, e
  <2>. QED
    BY ProductMono
<1>. QED
  BY <1>1, <1>2, <1>3, <1>4, <1>5, <1>6

LEMMA MagMono ==
    ASSUME NEW i \in Nat, NEW j \in Nat
    PROVE  /\ Mag(i) \in Nat /\ Mag(j) \in Nat
           /\ i < j => Mag(i) < Mag(j)
           /\ i = j => Mag(i) = Mag(j)
           /\ i = 0 => Mag(i) = 0
<1>. DEFINE P == 2 ^ REF.MANT
            U == Units
<1>1. P \in Nat \ {0} /\ U \in Nat \ {0}
  BY UnitsFacts
<1>2. \A n \in Nat : Weight(P, n) \in Nat
  <2>1. TAKE n \in Nat
  <2>2. n < n + 1 /\ n + 1 \in Nat
    OBVIOUS
  <2>. HIDE DEF P
  <2>. QED
    BY <1>1, <2>2, WeightMono
<1>3. i < j => Weight(P, i) < Weight(P, j)
  <2>. HIDE DEF P
  <2>. QED
    BY <1>1, WeightMono
<1>4. i = 0 => Weight(P, i) = 0
  BY <1>1 DEF Weight
<1>. HIDE DEF P, U
<1>5. Mag(i) = Weight(P, i) * U /\ Mag(j) = Weight(P, j) * U
  BY DEF Mag, P, U
<1>6. Weight(P, i) * U \in Nat /\ Weight(P, j) * U \in Nat
  BY <1>1, <1>2
<1>7. i < j => Weight(P, i) * U < Weight(P, j) * U
  BY <1>1, <1>2, <1>3, StrictProduct
<1>8. i = 0 => Weight(P, i) * U = 0
  BY <1>1, <1>4
<1>. QED
  BY <1>5, <1>6, <1>7, <1>8

LEMMA PowSum ==
    ASSUME NEW x \in Int, NEW y \in Int, NEW z \in Int, x >= 0, y >= 0, z = x + y
    PROVE  2 ^ z = 2 ^ x * 2 ^ y /\ 2 ^ x \in Nat \ {0} /\ 2 ^ y \in Nat \ {0} /\ 2 ^ z \in Nat \ {0}
<1>1. x \in Nat /\ y \in Nat /\ z \in Nat
  OBVIOUS
<1>. QED
  BY <1>1, PowAdd, PowPos

\* The value of a code, by its index.
LEMMA FpValueIs ==
    ASSUME NEW c \in Codes(REF)
    PROVE  FpValue(REF, c) = Signed(Sign(REF, c), Mag(Index(REF, c)))
<1>. DEFINE d == Decode(REF, c)
            u == REF.MIN_SCALE
            i == Index(REF, c)
<1>1. DecodesTo(REF, d, Sign(REF, c), i)
  BY UnitsFacts, DecodeIs
<1>. HIDE DEF d
<1>2. /\ d.sign = Sign(REF, c) /\ d.mant \in Nat /\ d.scale \in Int /\ d.scale - u >= 0 /\ u \in Int /\ -u >= 0
      /\ d.mant * 2 ^ (d.scale - u) = Weight(2 ^ REF.MANT, i)
  BY <1>1, UnitsFacts DEF DecodesTo
<1>3. /\ 2 ^ (d.scale - 2 * u) = 2 ^ (d.scale - u) * 2 ^ (-u)
      /\ 2 ^ (d.scale - u) \in Nat /\ 2 ^ (-u) \in Nat
  <2>1. d.scale - 2 * u = (d.scale - u) + (-u) /\ d.scale - u \in Int /\ -u \in Int /\ d.scale - 2 * u \in Int
    BY <1>2
  <2>. QED
    BY <1>2, <2>1, PowSum
<1>4. d.mant * 2 ^ (d.scale - 2 * u) = Mag(i)
  <2>. DEFINE p == 2 ^ (d.scale - u)
              q == 2 ^ (-u)
              w == d.mant
  <2>1. w * (p * q) = (w * p) * q
    <3>1. w \in Nat /\ p \in Nat /\ q \in Nat
      BY <1>2, <1>3
    <3>. HIDE DEF p, q, w
    <3>. QED
      BY <3>1
  <2>. QED
    BY <1>2, <1>3, <2>1 DEF Mag, Units
<1>5. FpValue(REF, c) = Signed(d.sign, d.mant * 2 ^ (d.scale - 2 * u))
  BY DEF FpValue, d
<1>. QED
  BY <1>2, <1>4, <1>5

LEMMA InfIs ==
    ASSUME NEW s \in 0..1
    PROVE  /\ inf(REF, s) = s * 2 ^ (REF.WIDTH - 1) + Top(REF)
           /\ max_finite(REF, s) = s * 2 ^ (REF.WIDTH - 1) + (Top(REF) - 1)
           /\ zero(REF, s) = s * 2 ^ (REF.WIDTH - 1) + 0
<1>. DEFINE e == REF.EMAX_FIELD
            m == 2 ^ REF.MANT
            h == 2 ^ (REF.WIDTH - 1)
<1>1. e \in Nat /\ e - 1 \in Nat /\ m \in Nat /\ m - 1 \in Nat /\ Top(REF) = e * m
  BY UnitsFacts, FormatFacts
<1>2. \A x, f \in Nat : Pack(REF, s, x, f) = s * h + (x * m + f)
  BY UnitsFacts, PackIs
<1>3. /\ inf(REF, s) = s * h + (e * m + 0)
      /\ max_finite(REF, s) = s * h + ((e - 1) * m + (m - 1))
      /\ zero(REF, s) = s * h + (0 * m + 0)
  BY <1>1, <1>2 DEF inf, max_finite, zero
<1>. HIDE DEF e, m, h
<1>4. e * m + 0 = e * m /\ (e - 1) * m + (m - 1) = e * m - 1 /\ 0 * m + 0 = 0
  BY <1>1
<1>. QED
  BY <1>1, <1>3, <1>4 DEF h

LEMMA ExtremesAre ==
    /\ MaxPlus = Mag(Top(REF)) /\ Largest = Mag(Top(REF) - 1)
    /\ MaxPlus \in Nat /\ Largest \in Nat /\ Largest < MaxPlus /\ Largest > 0
<1>. DEFINE t == Top(REF)
            h == 2 ^ (REF.WIDTH - 1)
<1>1. t \in Nat /\ t - 1 \in Nat /\ t - 1 > 0 /\ h \in Nat /\ t < h
  BY UnitsFacts
<1>2. inf(REF, 0) = 0 * h + t /\ max_finite(REF, 0) = 0 * h + (t - 1)
  BY InfIs
<1>3. /\ inf(REF, 0) \in Codes(REF) /\ Sign(REF, inf(REF, 0)) = 0 /\ Index(REF, inf(REF, 0)) = t
      /\ max_finite(REF, 0) \in Codes(REF) /\ Sign(REF, max_finite(REF, 0)) = 0
      /\ Index(REF, max_finite(REF, 0)) = t - 1
  <2>1. t \in 0 .. h - 1 /\ t - 1 \in 0 .. h - 1
    BY <1>1
  <2>. HIDE DEF t, h
  <2>2. \A i \in 0 .. h - 1 : 0 * h + i \in Codes(REF) /\ Sign(REF, 0 * h + i) = 0 /\ Index(REF, 0 * h + i) = i
    BY UnitsFacts, CodeOfIndex DEF h
  <2>. QED
    BY <1>2, <2>1, <2>2
<1>4. inf(REF, 0) \in Candidates /\ max_finite(REF, 0) \in Candidates
  <2>1. \A c \in Codes(REF) : Index(REF, c) <= t => c \in Candidates
    <3>1. TAKE c \in Codes(REF)
    <3>2. DecodesTo(REF, Decode(REF, c), Sign(REF, c), Index(REF, c))
      BY UnitsFacts, DecodeIs
    <3>. QED
      BY <1>1, <3>2 DEF Candidates, DecodesTo, IsNan
  <2>. QED
    BY <1>1, <1>3, <2>1
<1>5. MaxPlus = FpValue(REF, inf(REF, 0)) /\ Largest = FpValue(REF, max_finite(REF, 0))
  BY <1>4 DEF MaxPlus, Largest, Place
<1>6. \A n : Signed(0, n) = n
  BY DEF Signed
<1>7. MaxPlus = Mag(t) /\ Largest = Mag(t - 1)
  BY <1>3, <1>5, <1>6, FpValueIs
<1>8. Mag(t) \in Nat /\ Mag(t - 1) \in Nat /\ Mag(t - 1) < Mag(t)
  <2>. HIDE DEF t
  <2>. QED
    BY <1>1, MagMono
<1>9. Mag(0) = 0 /\ Mag(0) < Mag(t - 1)
  <2>. HIDE DEF t
  <2>. QED
    BY <1>1, MagMono
<1>. QED
  BY <1>7, <1>8, <1>9

\* The magnitude at which the rule for infinity places a code.
FarMag(i) == IF i = Top(REF) THEN Infinity ELSE Mag(i)

LEMMA CandidateIs ==
    ASSUME NEW c \in Codes(REF)
    PROVE  /\ c \in Candidates <=> Index(REF, c) <= Top(REF)
           /\ Index(REF, c) \in Nat /\ Sign(REF, c) \in 0..1
           /\ c \in Candidates =>
                /\ Place[c] = Signed(Sign(REF, c), Mag(Index(REF, c)))
                /\ Far[c] = Signed(Sign(REF, c), FarMag(Index(REF, c)))
           /\ Fraction(REF, c) % 2 = Index(REF, c) % 2
           /\ ExpField(REF, c) = 0 <=> Index(REF, c) < 2 ^ REF.MANT
<1>. DEFINE s == Sign(REF, c)
            i == Index(REF, c)
            e == ExpField(REF, c)
            f == Fraction(REF, c)
            m == 2 ^ REF.MANT
            half == 2 ^ (REF.MANT - 1)
<1>1. DecodesTo(REF, Decode(REF, c), s, i)
  BY UnitsFacts, DecodeIs
<1>2. i \in Nat /\ s \in 0..1 /\ (IsNan(Decode(REF, c)) <=> i > Top(REF)) /\ (Decode(REF, c).kind = "inf" <=> i = Top(REF))
  <2>. HIDE DEF s, i
  <2>. QED
    BY <1>1 DEF DecodesTo, IsNan
<1>3. c \in Candidates <=> i <= Top(REF)
  <2>. HIDE DEF s, i
  <2>. QED
    BY <1>2, UnitsFacts DEF Candidates
<1>4. ASSUME c \in Candidates
      PROVE  Place[c] = Signed(s, Mag(i)) /\ Far[c] = Signed(s, FarMag(i))
  <2>1. Place[c] = FpValue(REF, c)
    BY <1>4 DEF Place
  <2>2. FpValue(REF, c) = Signed(s, Mag(i))
    BY FpValueIs
  <2>3. Far[c] = IF Decode(REF, c).kind = "inf" THEN Signed(s, Infinity) ELSE Place[c]
    BY <1>4 DEF Far, Infinity
  <2>. HIDE DEF s, i
  <2>. QED
    BY <1>2, <2>1, <2>2, <2>3 DEF FarMag
<1>5. i = e * m + f /\ e \in Nat /\ f \in 0 .. m - 1 /\ half \in Nat /\ m = 2 * half
  BY UnitsFacts, IndexIs, FieldsOfCode, FormatFacts, FormatPowers DEF IsField
<1>. HIDE DEF s, i, e, f, m, half
<1>6. f % 2 = i % 2
  <2>1. e * m = 2 * (e * half) /\ e * half \in Nat
    BY <1>5
  <2>. DEFINE z == e * half
  <2>2. i = 2 * z + f /\ z \in Nat /\ f \in Nat
    BY <1>5, <2>1
  <2>. HIDE DEF z
  <2>. QED
    BY <2>2
<1>7. e = 0 <=> i < m
  <2>1. CASE e = 0
    BY <1>5, <2>1
  <2>2. CASE e # 0
    <3>1. 1 * m <= e * m /\ e * m \in Nat
      BY <1>5, <2>2, ProductMono
    <3>. QED
      BY <1>5, <2>2, <3>1
  <2>. QED
    BY <2>1, <2>2
<1>. QED
  BY <1>2, <1>3, <1>4, <1>6, <1>7 DEF s, i, e, f, m

\* A rounded result: the number of the index, or what stands for an overflow.
CodeFor(rm, s, i) == IF i >= Top(REF) THEN Overflowed(rm, s, REF) ELSE s * 2 ^ (REF.WIDTH - 1) + i

LEMMA CodeForIs ==
    ASSUME NEW rm \in RoundingModes, NEW s \in 0..1, NEW i \in Nat
    PROVE  LET b == CodeFor(rm, s, i)
               away == rm = RM_RNE \/ (rm = RM_RDN /\ s = 1) \/ (rm = RM_RUP /\ s = 0)
               j == IF i < Top(REF) THEN i ELSE IF away THEN Top(REF) ELSE Top(REF) - 1
           IN  b \in Codes(REF) /\ b \in Candidates /\ Sign(REF, b) = s /\ Index(REF, b) = j
<1>. DEFINE b == CodeFor(rm, s, i)
            away == rm = RM_RNE \/ (rm = RM_RDN /\ s = 1) \/ (rm = RM_RUP /\ s = 0)
            t == Top(REF)
            h == 2 ^ (REF.WIDTH - 1)
            j == IF i < t THEN i ELSE IF away THEN t ELSE t - 1
<1>1. t \in Nat /\ t > 0 /\ h \in Nat /\ t < h
  BY UnitsFacts
<1>2. b = IF i >= t THEN Overflowed(rm, s, REF) ELSE s * h + i
  BY DEF CodeFor
<1>3. Overflowed(rm, s, REF) = IF away THEN s * h + t ELSE s * h + (t - 1)
  BY InfIs DEF Overflowed
<1>4. \A x \in 0 .. h - 1 : s * h + x \in Codes(REF) /\ Sign(REF, s * h + x) = s /\ Index(REF, s * h + x) = x
  BY UnitsFacts, CodeOfIndex
<1>. HIDE DEF t, h, b, away
<1>5. b = s * h + j
  <2>1. i >= t <=> ~(i < t)
    BY <1>1
  <2>. QED
    BY <1>2, <1>3, <2>1
<1>6. j \in 0 .. h - 1 /\ j <= t
  BY <1>1
<1>. HIDE DEF j
<1>7. b \in Codes(REF) /\ Sign(REF, b) = s /\ Index(REF, b) = j
  BY <1>4, <1>5, <1>6
<1>8. b \in Candidates
  BY <1>6, <1>7, CandidateIs DEF t
<1>. QED
  BY <1>7, <1>8 DEF j, t, b, away

\* What is kept and what is lost of a magnitude, in a common unit.
LEMMA KeptValue ==
    ASSUME NEW n \in Nat \ {0}, NEW scale \in Int, NEW lsb \in Int, NEW u \in Int, u <= scale, u <= lsb
    PROVE  LET k == Kept(n, lsb - scale)
               b == RoundBit(n, lsb - scale)
               t == Sticky(n, lsb - scale)
               a == n * 2 ^ (scale - u)
               g == 2 ^ (lsb - u)
           IN  \E r \in Nat :
                  /\ g \in Nat \ {0} /\ a \in Nat /\ k \in Nat
                  /\ a = k * g + r /\ r < g
                  /\ b = 1 <=> 2 * r >= g
                  /\ b = 1 /\ t <=> 2 * r > g
                  /\ b = 1 \/ t <=> r # 0
<1>. DEFINE sh == lsb - scale
            k == Kept(n, sh)
            b == RoundBit(n, sh)
            t == Sticky(n, sh)
            w == 2 ^ (scale - u)
            g == 2 ^ (lsb - u)
<1>1. sh \in Int /\ w \in Nat \ {0} /\ g \in Nat \ {0}
  <2>1. scale - u \in Nat /\ lsb - u \in Nat
    OBVIOUS
  <2>. QED
    BY <2>1, PowPos
<1>2. CASE sh > 0
  <2>. DEFINE d == 2 ^ sh
              q == n \div d
              x == n % d
  <2>1. sh \in Nat \ {0}
    BY <1>1, <1>2
  <2>2. g = d * w /\ d \in Nat \ {0}
    <3>1. lsb - u = sh + (scale - u) /\ scale - u \in Int /\ lsb - u \in Int /\ scale - u >= 0 /\ sh >= 0
      BY <1>1, <2>1
    <3>. HIDE DEF sh
    <3>. QED
      BY <1>1, <3>1, PowSum
  <2>3. /\ q \in Nat /\ n = q * d + x /\ x \in 0 .. d - 1 /\ b \in 0..1
        /\ b = 1 <=> 2 * x >= d
        /\ b = 1 /\ t <=> 2 * x > d
        /\ b = 1 \/ t <=> x # 0
    <3>. HIDE DEF sh
    <3>. QED
      BY <2>1, SplitBits
  <2>4. k = q
    BY <1>2 DEF Kept
  <2>. HIDE DEF d, q, x, sh, k, b, t, w, g
  <2>. DEFINE r == x * w
  <2>5. n * w = k * g + r
    BY <1>1, <2>2, <2>3, <2>4
  <2>6. r \in Nat /\ x * w < d * w
    BY <1>1, <2>2, <2>3, StrictProduct
  <2>7. 2 * x >= d <=> 2 * r >= g
    <3>1. 2 * r = (2 * x) * w
      BY <1>1, <2>3
    <3>2. CASE 2 * x >= d
      <4>1. d * w <= (2 * x) * w
        BY <1>1, <2>2, <2>3, <3>2, ProductMono
      <4>. QED
        BY <1>1, <2>2, <2>6, <3>1, <3>2, <4>1
    <3>3. CASE ~(2 * x >= d)
      <4>1. (2 * x) * w < d * w
        BY <1>1, <2>2, <2>3, <3>3, StrictProduct
      <4>. QED
        BY <1>1, <2>2, <2>6, <3>1, <3>3, <4>1
    <3>. QED
      BY <3>2, <3>3
  <2>8. 2 * x > d <=> 2 * r > g
    <3>1. 2 * r = (2 * x) * w
      BY <1>1, <2>3
    <3>2. CASE 2 * x > d
      <4>1. d * w < (2 * x) * w
        BY <1>1, <2>2, <2>3, <3>2, StrictProduct
      <4>. QED
        BY <1>1, <2>2, <2>6, <3>1, <3>2, <4>1
    <3>3. CASE ~(2 * x > d)
      <4>1. (2 * x) * w <= d * w
        BY <1>1, <2>2, <2>3, <3>3, ProductMono
      <4>. QED
        BY <1>1, <2>2, <2>6, <3>1, <3>3, <4>1
    <3>. QED
      BY <3>2, <3>3
  <2>9. x # 0 <=> r # 0
    BY <1>1, <2>3
  <2>10. n * w \in Nat /\ k \in Nat
    BY <1>1, <2>3, <2>4
  <2>. HIDE DEF r
  <2>11. /\ r \in Nat /\ g \in Nat \ {0} /\ n * w \in Nat /\ k \in Nat
         /\ n * w = k * g + r /\ r < g
         /\ b = 1 <=> 2 * r >= g
         /\ b = 1 /\ t <=> 2 * r > g
         /\ b = 1 \/ t <=> r # 0
    BY <1>1, <2>2, <2>3, <2>5, <2>6, <2>7, <2>8, <2>9, <2>10 DEF r
  <2>. QED
    BY <2>11 DEF sh, k, b, t, w, g
<1>3. CASE ~(sh > 0)
  <2>. DEFINE z == -sh
              y == 2 ^ z
  <2>1. z \in Nat /\ k = n * y /\ b = 0 /\ ~t
    BY <1>1, <1>3 DEF Kept, RoundBit, Sticky
  <2>2. w = y * g /\ y \in Nat
    <3>1. scale - u = z + (lsb - u) /\ lsb - u \in Int /\ scale - u \in Int /\ lsb - u >= 0 /\ z >= 0 /\ z \in Int
      BY <1>1, <2>1
    <3>. HIDE DEF z
    <3>. QED
      BY <3>1, PowSum
  <2>. HIDE DEF z, y, sh, k, b, t, w, g
  <2>3. n * w = k * g + 0 /\ n * w \in Nat /\ k \in Nat
    BY <1>1, <2>1, <2>2
  <2>4. /\ 0 \in Nat /\ g \in Nat \ {0} /\ n * w \in Nat /\ k \in Nat
        /\ n * w = k * g + 0 /\ 0 < g
        /\ b = 1 <=> 2 * 0 >= g
        /\ b = 1 /\ t <=> 2 * 0 > g
        /\ b = 1 \/ t <=> 0 # 0
    BY <1>1, <2>1, <2>3
  <2>. QED
    BY <2>4 DEF sh, k, b, t, w, g
<1>. QED
  BY <1>2, <1>3

\* Whether a magnitude between the numbers of two consecutive indices rounds to the second.
RoundsAway(rm, s, i, a) ==
    CASE rm = RM_RNE -> 2 * a > Mag(i) + Mag(i + 1) \/ (2 * a = Mag(i) + Mag(i + 1) /\ i % 2 = 1)
      [] rm = RM_RTZ -> FALSE
      [] rm = RM_RDN -> s = 1 /\ a # Mag(i)
      [] rm = RM_RUP -> s = 0 /\ a # Mag(i)

\* A magnitude is rounded to one of the two numbers it lies between.
LEMMA RoundsBetween ==
    ASSUME NEW rm \in RoundingModes, NEW s \in 0..1, NEW n \in Nat \ {0}, NEW scale \in Int,
           scale >= 2 * REF.MIN_SCALE
    PROVE  LET a == n * 2 ^ (scale - 2 * REF.MIN_SCALE)
           IN  \E i \in Nat :
                  /\ a \in Nat /\ Mag(i) \in Nat /\ Mag(i + 1) \in Nat
                  /\ Mag(i) <= a /\ a < Mag(i + 1)
                  /\ RoundPack(s, n, scale, rm, REF)
                       = Coded(REF, rm, s, i + (IF RoundsAway(rm, s, i, a) THEN 1 ELSE 0), a # Mag(i))
<1>. DEFINE u == 2 * REF.MIN_SCALE
            a == n * 2 ^ (scale - u)
            lsb == Lsb(n, scale, REF)
            l == lsb - REF.MIN_SCALE
            P == 2 ^ REF.MANT
            sh == lsb - scale
            k == Kept(n, sh)
            b == RoundBit(n, sh)
            t == Sticky(n, sh)
            g == 2 ^ (lsb - u)
            i == l * P + k
            up == RoundsUp(rm, s, k, b, t)
            lost == b = 1 \/ t
<1>1. P \in Nat /\ P >= 2 /\ REF.MIN_SCALE \in Int /\ REF.MIN_SCALE < 0 /\ IsFormat(REF)
  BY UnitsFacts
<1>2. lsb \in Int /\ lsb >= REF.MIN_SCALE /\ k \in 0 .. 2 * P - 1 /\ (lsb = REF.MIN_SCALE \/ k >= P)
  BY <1>1, KeptRange
<1>3. RoundPack(s, n, scale, rm, REF) = Coded(REF, rm, s, l * P + (k + (IF up THEN 1 ELSE 0)), lost)
  BY <1>1, RoundPackShape
<1>4. PICK r \in Nat :
        /\ g \in Nat \ {0} /\ a \in Nat /\ k \in Nat
        /\ a = k * g + r /\ r < g
        /\ b = 1 <=> 2 * r >= g
        /\ b = 1 /\ t <=> 2 * r > g
        /\ b = 1 \/ t <=> r # 0
  <2>1. u \in Int /\ u <= scale /\ u <= lsb
    BY <1>1, <1>2
  <2>. HIDE DEF u, lsb
  <2>. QED
    BY <1>2, <2>1, KeptValue
<1>5. l \in Nat /\ (l = 0 \/ k >= P) /\ i \in Nat
  <2>1. l \in Nat /\ (l = 0 \/ k >= P) /\ k \in Nat
    <3>. HIDE DEF lsb, k, P
    <3>. QED
      BY <1>1, <1>2
  <2>. HIDE DEF l, k, P
  <2>. QED
    BY <1>1, <2>1
<1>6. g = 2 ^ l * Units /\ 2 ^ l \in Nat /\ Units \in Nat
  <2>1. lsb - u = l + (-REF.MIN_SCALE) /\ l \in Int /\ -REF.MIN_SCALE \in Int /\ lsb - u \in Int
        /\ l >= 0 /\ -REF.MIN_SCALE >= 0
    <3>. HIDE DEF lsb
    <3>. QED
      BY <1>1, <1>2
  <2>. HIDE DEF l, u, lsb
  <2>. QED
    BY <2>1, PowSum DEF Units
<1>7. Mag(i) = k * g /\ Mag(i + 1) = (k + 1) * g
  <2>. DEFINE k1 == k + 1
  <2>1. i + 1 = l * P + k1 /\ k1 \in 0 .. 2 * P /\ k \in 0 .. 2 * P /\ (l = 0 \/ k1 >= P)
    <3>. HIDE DEF l, k, P
    <3>. QED
      BY <1>1, <1>2, <1>5
  <2>2. Weight(P, i) = k * 2 ^ l
    <3>. HIDE DEF l, k, P
    <3>. QED
      BY <1>1, <1>5, <2>1, WeightAt
  <2>3. Weight(P, i + 1) = k1 * 2 ^ l
    <3>. HIDE DEF l, P, k1
    <3>. QED
      BY <1>1, <1>5, <2>1, WeightAt
  <2>4. (k * 2 ^ l) * Units = k * (2 ^ l * Units) /\ (k1 * 2 ^ l) * Units = k1 * (2 ^ l * Units)
    <3>1. k \in Nat /\ k1 \in Nat
      BY <1>4
    <3>. HIDE DEF l, k, k1
    <3>. QED
      BY <1>6, <3>1
  <2>. HIDE DEF l, k, P
  <2>. QED
    BY <1>6, <2>2, <2>3, <2>4 DEF Mag, P
<1>8. i % 2 = k % 2
  <2>. DEFINE half == 2 ^ (REF.MANT - 1)
  <2>1. P = 2 * half /\ half \in Nat
    BY <1>1, FormatPowers
  <2>. DEFINE z == l * half
  <2>2. z \in Nat /\ i = 2 * z + k
    <3>. HIDE DEF l, k, P, half
    <3>. QED
      BY <1>2, <1>4, <1>5, <2>1
  <2>. HIDE DEF z, i, k
  <2>. QED
    BY <1>4, <2>2
<1>9. /\ Mag(i) \in Nat /\ Mag(i + 1) \in Nat /\ Mag(i + 1) = Mag(i) + g
      /\ a = Mag(i) + r
  <2>. HIDE DEF i, k, g, a
  <2>. QED
    BY <1>4, <1>7
<1>10. up <=> RoundsAway(rm, s, i, a)
  <2>0. b \in 0..1
    <3>1. sh \in Int
      BY <1>2
    <3>. HIDE DEF sh
    <3>2. sh > 0 => n \div 2 ^ (sh - 1) \in Nat
      <4>1. sh > 0 => sh - 1 \in Nat
        BY <3>1
      <4>. QED
        BY <4>1, PowPos, DivMod
    <3>3. \A x \in Nat : x % 2 \in 0..1
      OBVIOUS
    <3>. QED
      BY <3>2, <3>3 DEF RoundBit
  <2>1. RoundsAway(rm, s, i, a)
          <=> CASE rm = RM_RNE -> 2 * r > g \/ (2 * r = g /\ k % 2 = 1)
                [] rm = RM_RTZ -> FALSE
                [] rm = RM_RDN -> s = 1 /\ r # 0
                [] rm = RM_RUP -> s = 0 /\ r # 0
    <3>1. 2 * a > Mag(i) + Mag(i + 1) <=> 2 * r > g
      <4>. HIDE DEF a, i, g
      <4>. QED
        BY <1>4, <1>9
    <3>2. 2 * a = Mag(i) + Mag(i + 1) <=> 2 * r = g
      <4>. HIDE DEF a, i, g
      <4>. QED
        BY <1>4, <1>9
    <3>3. a # Mag(i) <=> r # 0
      <4>. HIDE DEF a, i, g
      <4>. QED
        BY <1>4, <1>9
    <3>. HIDE DEF a, i, g, k
    <3>. QED
      BY <1>8, <3>1, <3>2, <3>3 DEF RoundsAway, RoundingModes, RM_RNE, RM_RTZ, RM_RDN, RM_RUP
  <2>2. up <=> CASE rm = RM_RNE -> b = 1 /\ (t \/ k % 2 = 1)
                 [] rm = RM_RTZ -> FALSE
                 [] rm = RM_RDN -> s = 1 /\ (b = 1 \/ t)
                 [] rm = RM_RUP -> s = 0 /\ (b = 1 \/ t)
    BY DEF RoundsUp, RoundingModes, RM_RNE, RM_RTZ, RM_RDN, RM_RUP
  <2>3. b = 1 /\ (t \/ k % 2 = 1) <=> 2 * r > g \/ (2 * r = g /\ k % 2 = 1)
    <3>. HIDE DEF b, t, k, g
    <3>. QED
      BY <1>4, <2>0
  <2>. HIDE DEF b, t, k, g, up, a, i
  <2>. QED
    BY <1>4, <2>1, <2>2, <2>3 DEF RoundingModes, RM_RNE, RM_RTZ, RM_RDN, RM_RUP
<1>11. lost <=> a # Mag(i)
  <2>. HIDE DEF a, i, b, t, g
  <2>. QED
    BY <1>4, <1>9
<1>12. l * P + (k + (IF up THEN 1 ELSE 0)) = i + (IF RoundsAway(rm, s, i, a) THEN 1 ELSE 0)
  <2>1. l * P \in Nat /\ k \in Nat
    <3>. HIDE DEF l, P, k
    <3>. QED
      BY <1>1, <1>4, <1>5
  <2>. HIDE DEF up, a
  <2>. DEFINE z == l * P
  <2>2. i = z + k
    OBVIOUS
  <2>. HIDE DEF l, P, k, z, i
  <2>. QED
    BY <1>10, <2>1, <2>2 DEF z
<1>13. Mag(i) <= a /\ a < Mag(i + 1)
  <2>. HIDE DEF a, i, g
  <2>. QED
    BY <1>4, <1>9
<1>14. lost \in BOOLEAN /\ (a # Mag(i)) \in BOOLEAN /\ lost = (a # Mag(i))
  BY <1>11
<1>. HIDE DEF i, lost, up, l, P, k, b, t, g
<1>15. RoundPack(s, n, scale, rm, REF)
        = Coded(REF, rm, s, i + (IF RoundsAway(rm, s, i, a) THEN 1 ELSE 0), a # Mag(i))
  BY <1>3, <1>12, <1>14
<1>. QED
  BY <1>4, <1>5, <1>9, <1>13, <1>15

LEMMA InfinityIsPast ==
    /\ Infinity \in Nat /\ MaxPlus < Infinity
    /\ Infinity = 2 ^ (REF.MANT + REF.EMAX_FIELD) * 2 ^ (REF.MANT + REF.EMAX_FIELD)
    /\ 2 * MaxPlus <= Infinity
    /\ \E x \in Nat : /\ Mag(Top(REF)) = x * Units
                      /\ 2 * (x * x) <= Infinity
                      /\ Units <= x
<1>. DEFINE M == REF.MANT
            e == REF.EMAX_FIELD
            P == 2 ^ M
            p == 2 ^ (M + e)
            x == P * 2 ^ (e - 1)
            U == Units
            q == 2 ^ (M + (e - 1))
<1>1. M \in Nat /\ M >= 1 /\ e \in Nat /\ e >= 3 /\ -REF.MIN_SCALE = M + REF.BIAS - 1
      /\ e = 2 * REF.BIAS + 1 /\ REF.BIAS \in Nat /\ REF.BIAS >= 1
  BY RefAssumption, FormatFacts
<1>2. M + e \in Nat /\ e - 1 \in Nat /\ M + (e - 1) \in Nat /\ (M + (e - 1)) + 1 = M + e
  BY <1>1
<1>3. P \in Nat \ {0} /\ p \in Nat \ {0} /\ q \in Nat \ {0} /\ p = 2 * q /\ x = q
  BY <1>1, <1>2, PowPos, PowSucc, PowAdd
<1>4. Infinity = p * p
  <2>1. 2 * (M + e) = (M + e) + (M + e)
    BY <1>2
  <2>. DEFINE z == M + e
  <2>2. 2 ^ (z + z) = 2 ^ z * 2 ^ z
    <3>1. z \in Nat
      BY <1>2
    <3>. HIDE DEF z
    <3>. QED
      BY <3>1, PowAdd
  <2>. QED
    BY <2>1, <2>2 DEF Infinity
<1>5. Mag(Top(REF)) = x * U
  <2>1. Top(REF) = (e - 1) * P + P /\ P \in 0 .. 2 * P
    <3>1. Top(REF) = e * P
      BY DEF Top
    <3>. HIDE DEF P, e
    <3>. QED
      BY <1>1, <1>3, <3>1
  <2>2. Weight(P, Top(REF)) = P * 2 ^ (e - 1)
    <3>. DEFINE l == e - 1
    <3>1. l \in Nat /\ Top(REF) = l * P + P
      BY <1>2, <2>1
    <3>2. Weight(P, l * P + P) = P * 2 ^ l
      <4>. HIDE DEF l, P
      <4>. QED
        BY <1>3, <2>1, <3>1, WeightAt
    <3>. QED
      BY <3>1, <3>2
  <2>. QED
    BY <2>2 DEF Mag
<1>6. U \in Nat \ {0} /\ U <= q
  <2>1. -REF.MIN_SCALE \in Nat /\ -REF.MIN_SCALE <= M + (e - 1)
    BY <1>1
  <2>. DEFINE y == -REF.MIN_SCALE
              z == M + (e - 1)
  <2>2. 2 ^ y <= 2 ^ z
    <3>1. y \in Nat /\ z \in Nat /\ y <= z
      BY <1>2, <2>1
    <3>. HIDE DEF y, z
    <3>. QED
      BY <3>1, PowMono
  <2>. QED
    BY <2>2, UnitsFacts DEF Units
<1>7. MaxPlus = x * U
  BY <1>5, ExtremesAre
<1>. HIDE DEF p, q, x, U, P, M, e
<1>8. U * q <= q * q
  BY <1>3, <1>6, ProductMono
<1>9. p * p = 4 * (q * q) /\ q * q \in Nat /\ x * U = U * q /\ U * q \in Nat /\ q * q > 0 /\ p * p \in Nat
  BY <1>3, <1>6
<1>10. Infinity \in Nat /\ MaxPlus < Infinity /\ 2 * MaxPlus <= Infinity /\ 2 * (x * x) <= Infinity
  BY <1>3, <1>4, <1>7, <1>8, <1>9
<1>. QED
  BY <1>3, <1>4, <1>5, <1>6, <1>10 DEF U, p, M, e

\* The numbers and the infinity around the interval of one index.
LEMMA Around ==
    ASSUME NEW i \in Nat, NEW j \in Nat, j <= Top(REF)
    PROVE  /\ Mag(i) \in Nat /\ Mag(i + 1) \in Nat /\ Mag(i) < Mag(i + 1)
           /\ Mag(j) \in Nat /\ FarMag(j) \in Nat
           /\ j <= i => Mag(j) <= Mag(i)
           /\ j < i => Mag(j) < Mag(i)
           /\ j > i => Mag(j) >= Mag(i + 1)
           /\ j = i + 1 => Mag(j) = Mag(i + 1)
           /\ j > i + 1 => Mag(j) > Mag(i + 1)
           /\ Mag(j) <= MaxPlus
           /\ j # Top(REF) => Mag(j) <= Largest /\ FarMag(j) = Mag(j)
           /\ j = Top(REF) => Mag(j) = MaxPlus /\ FarMag(j) = Infinity
           /\ i < Top(REF) => Mag(i + 1) <= MaxPlus
           /\ i + 1 < Top(REF) => Mag(i + 1) <= Largest
           /\ i + 1 = Top(REF) => Mag(i) = Largest /\ Mag(i + 1) = MaxPlus
           /\ i >= Top(REF) => Mag(i) >= MaxPlus
<1>. DEFINE t == Top(REF)
<1>1. t \in Nat /\ t - 1 \in Nat /\ t > 1
  BY UnitsFacts
<1>2. \A x, y \in Nat : /\ Mag(x) \in Nat
                        /\ x < y => Mag(x) < Mag(y)
                        /\ x = y => Mag(x) = Mag(y)
  BY MagMono
<1>3. MaxPlus = Mag(t) /\ Largest = Mag(t - 1) /\ Infinity \in Nat
  BY ExtremesAre, InfinityIsPast
<1>4. FarMag(j) = IF j = t THEN Infinity ELSE Mag(j)
  BY DEF FarMag
<1>. HIDE DEF t
<1>5. /\ Mag(i) \in Nat /\ Mag(i + 1) \in Nat /\ Mag(i) < Mag(i + 1)
      /\ Mag(j) \in Nat /\ FarMag(j) \in Nat
      /\ j <= i => Mag(j) <= Mag(i)
      /\ j < i => Mag(j) < Mag(i)
      /\ j > i => Mag(j) >= Mag(i + 1)
      /\ j = i + 1 => Mag(j) = Mag(i + 1)
      /\ j > i + 1 => Mag(j) > Mag(i + 1)
  <2>1. i + 1 \in Nat /\ i < i + 1
    OBVIOUS
  <2>2. j > i => j = i + 1 \/ j > i + 1
    OBVIOUS
  <2>3. Mag(i) \in Nat /\ Mag(i + 1) \in Nat /\ Mag(i) < Mag(i + 1) /\ Mag(j) \in Nat /\ FarMag(j) \in Nat
    BY <1>2, <1>3, <1>4, <2>1
  <2>4. j = i \/ j < i => Mag(j) <= Mag(i)
    BY <1>2, <2>3
  <2>5. j = i + 1 \/ i + 1 < j => Mag(j) >= Mag(i + 1)
    BY <1>2, <2>1, <2>3
  <2>6. j < i => Mag(j) < Mag(i)
    BY <1>2
  <2>7. i + 1 < j => Mag(i + 1) < Mag(j)
    BY <1>2, <2>1
  <2>. QED
    BY <2>2, <2>3, <2>4, <2>5, <2>6, <2>7
<1>6. j <= t
  BY DEF t
<1>7. /\ Mag(j) <= MaxPlus
      /\ j # t => Mag(j) <= Largest /\ FarMag(j) = Mag(j)
      /\ j = t => Mag(j) = MaxPlus /\ FarMag(j) = Infinity
  <2>1. j = t \/ (j # t /\ j < t)
    BY <1>1, <1>6
  <2>2. j < t => j = t - 1 \/ j < t - 1
    BY <1>1
  <2>3. Mag(t) \in Nat /\ Mag(t - 1) \in Nat
    BY <1>1, <1>2
  <2>4. j < t => Mag(j) < Mag(t)
    BY <1>1, <1>2
  <2>5. j < t - 1 => Mag(j) < Mag(t - 1)
    BY <1>1, <1>2
  <2>. QED
    BY <1>3, <1>4, <1>5, <2>1, <2>2, <2>3, <2>4, <2>5
<1>8. /\ i < t => Mag(i + 1) <= MaxPlus
      /\ i + 1 < t => Mag(i + 1) <= Largest
      /\ i + 1 = t => Mag(i) = Largest /\ Mag(i + 1) = MaxPlus
      /\ i >= t => Mag(i) >= MaxPlus
  <2>1. i + 1 \in Nat /\ (i + 1 = t => i = t - 1) /\ (i < t => i + 1 = t \/ i + 1 < t)
        /\ (i + 1 < t => i + 1 = t - 1 \/ i + 1 < t - 1) /\ (i >= t => i = t \/ t < i)
    BY <1>1
  <2>2. Mag(t) \in Nat /\ Mag(t - 1) \in Nat /\ Mag(i) \in Nat /\ Mag(i + 1) \in Nat
    BY <1>1, <1>2, <2>1
  <2>3. (i + 1 < t => Mag(i + 1) < Mag(t)) /\ (i + 1 = t => Mag(i + 1) = Mag(t))
    BY <1>1, <1>2, <2>1
  <2>4. (i + 1 < t - 1 => Mag(i + 1) < Mag(t - 1)) /\ (i + 1 = t - 1 => Mag(i + 1) = Mag(t - 1))
    BY <1>1, <1>2, <2>1
  <2>5. (i = t => Mag(i) = Mag(t)) /\ (t < i => Mag(t) < Mag(i)) /\ (i = t - 1 => Mag(i) = Mag(t - 1))
    BY <1>1, <1>2
  <2>. QED
    BY <1>3, <2>1, <2>2, <2>3, <2>4, <2>5
<1>. QED
  BY <1>5, <1>7, <1>8 DEF t

\* The index a magnitude a in [Mag(i), Mag(i + 1)) is rounded to: upwards and past the
\* largest number to infinity, or downwards and no further than the largest number.
UpIndex(i, a) ==
    LET j == i + (IF a # Mag(i) THEN 1 ELSE 0) IN IF j < Top(REF) THEN j ELSE Top(REF)
DownIndex(i) == IF i < Top(REF) THEN i ELSE Top(REF) - 1
NearIndex(i, a) ==
    LET j == i + (IF RoundsAway(RM_RNE, 0, i, a) THEN 1 ELSE 0) IN IF j < Top(REF) THEN j ELSE Top(REF)

LEMMA UpIsLeast ==
    ASSUME NEW i \in Nat, NEW a \in Nat, Mag(i) <= a, a < Mag(i + 1), a < Infinity,
           NEW x \in Nat, x <= Top(REF)
    PROVE  /\ UpIndex(i, a) \in Nat /\ UpIndex(i, a) <= Top(REF)
           /\ FarMag(UpIndex(i, a)) >= a
           /\ FarMag(x) >= a => FarMag(x) >= FarMag(UpIndex(i, a))
<1>. DEFINE t == Top(REF)
            j == UpIndex(i, a)
<1>1. t \in Nat /\ t > 1 /\ x <= t
  BY UnitsFacts
<1>2. j = IF i + (IF a # Mag(i) THEN 1 ELSE 0) < t THEN i + (IF a # Mag(i) THEN 1 ELSE 0) ELSE t
  BY DEF UpIndex
<1>. HIDE DEF j, t
<1>3. j \in Nat /\ j <= t
  BY <1>1, <1>2
<1>4. MaxPlus \in Nat /\ Largest \in Nat /\ Largest < MaxPlus /\ Infinity \in Nat /\ MaxPlus < Infinity
  BY ExtremesAre, InfinityIsPast
<1>5. FarMag(j) >= a
  <2>1. j = t => FarMag(j) = Infinity
    BY <1>3, Around DEF t
  <2>2. j # t => FarMag(j) = Mag(j) /\ (j = i \/ j = i + 1) /\ (j = i => a = Mag(i))
    BY <1>1, <1>2, <1>3, Around DEF t
  <2>3. Mag(i) \in Nat /\ Mag(i + 1) \in Nat
    BY MagMono
  <2>. QED
    BY <1>4, <2>1, <2>2, <2>3
<1>6. ASSUME FarMag(x) >= a PROVE FarMag(x) >= FarMag(j)
  <2>1. CASE x = t
    <3>1. FarMag(x) = Infinity /\ Mag(j) <= MaxPlus /\ Mag(j) \in Nat /\ (FarMag(j) = Infinity \/ FarMag(j) = Mag(j))
      BY <1>1, <1>3, <2>1, Around DEF t
    <3>. QED
      BY <1>4, <3>1
  <2>2. CASE x # t
    <3>1. FarMag(x) = Mag(x) /\ Mag(x) \in Nat /\ Mag(x) >= a /\ Mag(i) \in Nat /\ Mag(i + 1) \in Nat /\ Mag(x) <= Largest
      BY <1>1, <1>6, <2>2, Around DEF t
    <3>2. (x <= i => Mag(x) <= Mag(i)) /\ (x > i => Mag(x) >= Mag(i + 1)) /\ (x < i => Mag(x) < Mag(i))
      BY <1>1, Around DEF t
    <3>3. x < t
      BY <1>1, <2>2
    <3>4. CASE a = Mag(i)
      <4>1. x >= i
        BY <3>1, <3>2, <3>4
      <4>2. i < t /\ j = i
        BY <1>1, <1>2, <3>3, <3>4, <4>1
      <4>3. FarMag(j) = Mag(j)
        BY <1>1, <1>3, <4>2, Around DEF t
      <4>. QED
        BY <3>1, <3>4, <4>2, <4>3
    <3>5. CASE a # Mag(i)
      <4>1. x > i
        BY <3>1, <3>2, <3>5
      <4>2. i + 1 < t /\ j = i + 1
        BY <1>1, <1>2, <3>3, <3>5, <4>1
      <4>3. FarMag(j) = Mag(i + 1)
        BY <1>1, <1>3, <4>2, Around DEF t
      <4>. QED
        BY <3>1, <3>2, <4>1, <4>3
    <3>. QED
      BY <3>4, <3>5
  <2>. QED
    BY <2>1, <2>2
<1>. QED
  BY <1>3, <1>5, <1>6 DEF j, t

LEMMA DownIsGreatest ==
    ASSUME NEW i \in Nat, NEW a \in Nat, Mag(i) <= a, a < Mag(i + 1), a < Infinity,
           NEW x \in Nat, x <= Top(REF)
    PROVE  /\ DownIndex(i) \in Nat /\ DownIndex(i) <= Top(REF)
           /\ FarMag(DownIndex(i)) <= a
           /\ FarMag(x) <= a => FarMag(x) <= FarMag(DownIndex(i))
<1>. DEFINE t == Top(REF)
            j == DownIndex(i)
<1>1. t \in Nat /\ t > 1 /\ x <= t
  BY UnitsFacts
<1>2. j = IF i < t THEN i ELSE t - 1
  BY DEF DownIndex
<1>. HIDE DEF j, t
<1>3. j \in Nat /\ j < t /\ j <= i
  BY <1>1, <1>2
<1>4. FarMag(j) = Mag(j) /\ Mag(j) <= Mag(i) /\ Mag(j) \in Nat /\ Mag(i) \in Nat /\ Mag(i + 1) \in Nat
  BY <1>1, <1>3, Around, SMTT(60) DEF t
<1>5. ASSUME FarMag(x) <= a PROVE FarMag(x) <= FarMag(j)
  <2>1. x # t
    <3>1. x = t => FarMag(x) = Infinity /\ Infinity \in Nat
      BY <1>1, Around, InfinityIsPast DEF t
    <3>. QED
      BY <1>5, <3>1
  <2>2. FarMag(x) = Mag(x) /\ Mag(x) \in Nat /\ (x > i => Mag(x) >= Mag(i + 1))
    BY <1>1, <2>1, Around DEF t
  <2>3. x <= i
    BY <1>5, <1>4, <2>2
  <2>4. x <= j
    BY <1>1, <1>2, <2>1, <2>3
  <2>5. Mag(x) <= Mag(j)
    BY <1>1, <1>3, <2>4, Around DEF t
  <2>. QED
    BY <1>4, <2>2, <2>5
<1>6. j <= t /\ FarMag(j) <= a
  BY <1>1, <1>3, <1>4
<1>. QED
  BY <1>3, <1>5, <1>6 DEF j, t

LEMMA NearIsNearest ==
    ASSUME NEW i \in Nat, NEW a \in Nat, Mag(i) <= a, a < Mag(i + 1), NEW x \in Nat, x <= Top(REF)
    PROVE  LET j == NearIndex(i, a)
               y == IF a > MaxPlus THEN MaxPlus ELSE a
           IN  /\ j \in Nat /\ j <= Top(REF)
               /\ AbsVal(y - Mag(j)) <= AbsVal(y - Mag(x))
               /\ AbsVal(y - Mag(j)) = AbsVal(y - Mag(x)) => j % 2 = 0 \/ Mag(x) = Mag(j)
               /\ AbsVal(y - Mag(j)) <= y
<1>. DEFINE t == Top(REF)
            j == NearIndex(i, a)
            y == IF a > MaxPlus THEN MaxPlus ELSE a
            lo == Mag(i)
            hi == Mag(i + 1)
            up == 2 * a > lo + hi \/ (2 * a = lo + hi /\ i % 2 = 1)
<1>1. t \in Nat /\ t > 1 /\ x <= t /\ t % 2 = 0
  <2>1. t = REF.EMAX_FIELD * 2 ^ REF.MANT /\ REF.EMAX_FIELD \in Nat /\ 2 ^ REF.MANT = 2 * 2 ^ (REF.MANT - 1)
        /\ 2 ^ (REF.MANT - 1) \in Nat
    BY UnitsFacts, FormatFacts, FormatPowers
  <2>. DEFINE e == REF.EMAX_FIELD
              half == 2 ^ (REF.MANT - 1)
              z == e * half
  <2>2. t = 2 * z /\ z \in Nat
    <3>1. t = e * (2 * half) /\ e \in Nat /\ half \in Nat
      BY <2>1
    <3>. HIDE DEF e, half, t
    <3>. QED
      BY <3>1
  <2>3. t \in Nat /\ t > 1
    BY UnitsFacts
  <2>. HIDE DEF z, t
  <2>4. t % 2 = 0
    BY <2>2
  <2>. QED
    BY <2>3, <2>4 DEF t
<1>2. RoundsAway(RM_RNE, 0, i, a) <=> up
  BY DEF RoundsAway, RM_RNE, RM_RTZ, RM_RDN, RM_RUP
<1>3. j = IF i + (IF up THEN 1 ELSE 0) < t THEN i + (IF up THEN 1 ELSE 0) ELSE t
  BY <1>2 DEF NearIndex
<1>4. /\ MaxPlus \in Nat /\ lo \in Nat /\ hi \in Nat /\ lo < hi /\ lo <= a /\ a < hi
      /\ Mag(x) \in Nat /\ (x <= i => Mag(x) <= lo) /\ (x > i => Mag(x) >= hi)
      /\ Mag(x) <= MaxPlus
      /\ i < t => hi <= MaxPlus
      /\ i + 1 = t => hi = MaxPlus
      /\ i >= t => lo >= MaxPlus
  BY ExtremesAre, Around
<1>. HIDE DEF t, j, lo, hi
<1>5. j \in Nat /\ j <= t
  BY <1>1, <1>3
<1>6. j = t => Mag(j) = MaxPlus
  BY <1>1, Around DEF t
<1>7. (j = i => Mag(j) = lo) /\ (j = i + 1 => Mag(j) = hi)
  BY DEF lo, hi
<1>8. CASE i >= t
  <2>1. j = t
    BY <1>1, <1>3, <1>8
  <2>2. y = MaxPlus /\ Mag(j) = MaxPlus
    BY <1>4, <1>6, <1>8, <2>1
  <2>. HIDE DEF y
  <2>. QED
    BY <1>1, <1>4, <1>5, <2>1, <2>2 DEF AbsVal, t, j, y
<1>9. CASE i < t
  <2>1. y = a
    BY <1>4, <1>9
  <2>2. j = i + (IF up THEN 1 ELSE 0)
    BY <1>1, <1>3, <1>9
  <2>3. Mag(j) = IF up THEN hi ELSE lo
    BY <1>7, <2>2
  <2>4. j % 2 = 0 \/ 2 * a # lo + hi
    <3>1. CASE i % 2 = 1
      BY <1>4, <2>2, <3>1
    <3>2. CASE i % 2 # 1
      <4>1. i % 2 = 0
        BY <3>2
      <4>. QED
        BY <1>4, <2>2, <4>1
    <3>. QED
      BY <3>1, <3>2
  <2>5. Mag(x) <= lo \/ Mag(x) >= hi
    BY <1>4
  <2>. HIDE DEF y, j
  <2>. DEFINE w == Mag(x)
              r == Mag(j)
  <2>6. w \in Nat /\ (w <= lo \/ w >= hi) /\ (r = IF up THEN hi ELSE lo)
    BY <1>4, <2>3, <2>5
  <2>. HIDE DEF w, r
  <2>7. /\ AbsVal(a - r) <= AbsVal(a - w)
        /\ AbsVal(a - r) = AbsVal(a - w) => 2 * a = lo + hi \/ w = r
        /\ AbsVal(a - r) <= a
    BY <1>4, <2>6 DEF AbsVal
  <2>. QED
    BY <1>5, <2>1, <2>4, <2>7 DEF t, j, y, w, r
<1>. QED
  BY <1>1, <1>8, <1>9

LEMMA DownRounds ==
    ASSUME NEW i \in Nat, NEW a \in Nat, Mag(i) <= a, a < Mag(i + 1), a < Infinity,
           NEW s \in 0..1, NEW b \in Codes(REF), b \in Candidates, Sign(REF, b) = s, Index(REF, b) = DownIndex(i)
    PROVE  IF s = 0 THEN IsGreatestBelow(a, b) ELSE IsLeastAbove(-a, b)
<1>. DEFINE j == DownIndex(i)
            m == FarMag(j)
<1>1. /\ \A x \in Nat : x <= Top(REF) => FarMag(x) \in Nat /\ (FarMag(x) <= a => FarMag(x) <= m)
      /\ m <= a /\ m \in Nat
  <2>1. j \in Nat /\ j <= Top(REF) /\ m <= a
    <3>1. 0 \in Nat /\ 0 <= Top(REF)
      BY UnitsFacts
    <3>. QED
      BY <3>1, DownIsGreatest
  <2>2. \A x \in Nat : x <= Top(REF) => FarMag(x) \in Nat
    BY Around
  <2>3. \A x \in Nat : x <= Top(REF) => (FarMag(x) <= a => FarMag(x) <= m)
    BY DownIsGreatest
  <2>. QED
    BY <2>1, <2>2, <2>3
<1>2. Far[b] = Signed(s, m)
  BY CandidateIs
<1>3. \A c \in Candidates : /\ Far[c] = Signed(Sign(REF, c), FarMag(Index(REF, c)))
                            /\ Sign(REF, c) \in 0..1 /\ Index(REF, c) \in Nat /\ Index(REF, c) <= Top(REF)
  <2>1. \A c \in Candidates : c \in Codes(REF)
    BY DEF Candidates
  <2>. QED
    BY <2>1, CandidateIs
<1>. HIDE DEF m, j
<1>4. ASSUME NEW c \in Candidates
      PROVE  /\ s = 0 => (Far[c] <= a => Far[c] <= Far[b])
             /\ s = 1 => (Far[c] >= -a => Far[c] >= Far[b])
  <2>. DEFINE w == FarMag(Index(REF, c))
  <2>1. w \in Nat /\ (w <= a => w <= m) /\ Far[c] = Signed(Sign(REF, c), w) /\ Sign(REF, c) \in 0..1
    BY <1>1, <1>3
  <2>. HIDE DEF w
  <2>. QED
    BY <1>1, <1>2, <2>1 DEF Signed
<1>5. (s = 0 => Far[b] <= a) /\ (s = 1 => Far[b] >= -a)
  BY <1>1, <1>2 DEF Signed
<1>. QED
  BY <1>4, <1>5 DEF IsGreatestBelow, IsLeastAbove

LEMMA UpRounds ==
    ASSUME NEW i \in Nat, NEW a \in Nat, Mag(i) <= a, a < Mag(i + 1), a < Infinity, a > 0,
           NEW s \in 0..1, NEW b \in Codes(REF), b \in Candidates, Sign(REF, b) = s, Index(REF, b) = UpIndex(i, a)
    PROVE  IF s = 0 THEN IsLeastAbove(a, b) ELSE IsGreatestBelow(-a, b)
<1>. DEFINE j == UpIndex(i, a)
            m == FarMag(j)
<1>1. /\ \A x \in Nat : x <= Top(REF) => FarMag(x) \in Nat /\ (FarMag(x) >= a => FarMag(x) >= m)
      /\ m >= a /\ m \in Nat
  <2>1. j \in Nat /\ j <= Top(REF) /\ m >= a
    <3>1. 0 \in Nat /\ 0 <= Top(REF)
      BY UnitsFacts
    <3>. QED
      BY <3>1, UpIsLeast
  <2>2. \A x \in Nat : x <= Top(REF) => FarMag(x) \in Nat
    BY Around
  <2>3. \A x \in Nat : x <= Top(REF) => (FarMag(x) >= a => FarMag(x) >= m)
    BY UpIsLeast
  <2>. QED
    BY <2>1, <2>2, <2>3
<1>2. Far[b] = Signed(s, m)
  BY CandidateIs
<1>3. \A c \in Candidates : /\ Far[c] = Signed(Sign(REF, c), FarMag(Index(REF, c)))
                            /\ Sign(REF, c) \in 0..1 /\ Index(REF, c) \in Nat /\ Index(REF, c) <= Top(REF)
  <2>1. \A c \in Candidates : c \in Codes(REF)
    BY DEF Candidates
  <2>. QED
    BY <2>1, CandidateIs
<1>. HIDE DEF m, j
<1>4. ASSUME NEW c \in Candidates
      PROVE  /\ s = 0 => (Far[c] >= a => Far[c] >= Far[b])
             /\ s = 1 => (Far[c] <= -a => Far[c] <= Far[b])
  <2>. DEFINE w == FarMag(Index(REF, c))
  <2>1. w \in Nat /\ (w >= a => w >= m) /\ Far[c] = Signed(Sign(REF, c), w) /\ Sign(REF, c) \in 0..1
    BY <1>1, <1>3
  <2>. HIDE DEF w
  <2>. QED
    BY <1>1, <1>2, <2>1 DEF Signed
<1>5. (s = 0 => Far[b] >= a) /\ (s = 1 => Far[b] <= -a)
  BY <1>1, <1>2 DEF Signed
<1>. QED
  BY <1>4, <1>5 DEF IsGreatestBelow, IsLeastAbove

LEMMA NearRounds ==
    ASSUME NEW i \in Nat, NEW a \in Nat, Mag(i) <= a, a < Mag(i + 1), a > 0,
           NEW s \in 0..1, NEW b \in Codes(REF), b \in Candidates, Sign(REF, b) = s, Index(REF, b) = NearIndex(i, a)
    PROVE  IsNearest(Signed(s, a), b)
<1>. DEFINE j == NearIndex(i, a)
            y == IF a > MaxPlus THEN MaxPlus ELSE a
            v == Signed(s, a)
            m == Mag(j)
            even == Fraction(REF, b) % 2 = 0
            X == IF AbsVal(v) > MaxPlus THEN Signed(SignOf(v), MaxPlus) ELSE v
<1>1. \A x \in Nat : x <= Top(REF) =>
        /\ AbsVal(y - m) <= AbsVal(y - Mag(x))
        /\ AbsVal(y - m) = AbsVal(y - Mag(x)) => even \/ Mag(x) = m
  <2>1. even <=> j % 2 = 0
    BY CandidateIs
  <2>. HIDE DEF even, m, y
  <2>2. ASSUME NEW x \in Nat, x <= Top(REF)
        PROVE  /\ AbsVal(y - m) <= AbsVal(y - Mag(x))
               /\ AbsVal(y - m) = AbsVal(y - Mag(x)) => j % 2 = 0 \/ Mag(x) = m
    BY <2>2, NearIsNearest DEF y, m
  <2>. QED
    BY <2>1, <2>2
<1>2. AbsVal(y - m) <= y /\ j \in Nat /\ j <= Top(REF)
  <2>1. 0 \in Nat /\ 0 <= Top(REF)
    BY UnitsFacts
  <2>. QED
    BY <2>1, NearIsNearest
<1>3. m \in Nat /\ MaxPlus \in Nat /\ y \in Nat
  BY <1>2, MagMono, ExtremesAre
<1>4. X = Signed(s, y)
  BY <1>3 DEF AbsVal, Signed, SignOf
<1>5. Place[b] = Signed(s, m)
  BY CandidateIs
<1>6. \A c \in Candidates : /\ Place[c] = Signed(Sign(REF, c), Mag(Index(REF, c)))
                            /\ Sign(REF, c) \in 0..1 /\ Index(REF, c) \in Nat /\ Index(REF, c) <= Top(REF)
  <2>1. \A c \in Candidates : c \in Codes(REF)
    BY DEF Candidates
  <2>. QED
    BY <2>1, CandidateIs
<1>. DEFINE Gap(c) == AbsVal(X - Place[c])
<1>. HIDE DEF j, y, m, even, X
<1>7. ASSUME NEW c \in Candidates
      PROVE  Gap(b) < Gap(c) \/ Place[c] = Place[b] \/ (Gap(b) = Gap(c) /\ even)
  <2>. DEFINE x == Index(REF, c)
              w == Mag(x)
              z == Sign(REF, c)
  <2>1. x \in Nat /\ x <= Top(REF) /\ z \in 0..1 /\ Place[c] = Signed(z, w)
    BY <1>6
  <2>2. w \in Nat /\ AbsVal(y - m) <= AbsVal(y - w) /\ (AbsVal(y - m) = AbsVal(y - w) => even \/ w = m)
    BY <1>1, <2>1, MagMono
  <2>3. Gap(b) = AbsVal(y - m)
    BY <1>3, <1>4, <1>5 DEF AbsVal, Signed
  <2>. HIDE DEF x, w, z, Gap
  <2>4. CASE z = s
    <3>1. Gap(c) = AbsVal(y - w)
      BY <1>3, <1>4, <2>1, <2>2, <2>4 DEF AbsVal, Signed, Gap
    <3>2. AbsVal(y - w) \in Int /\ AbsVal(y - m) \in Int
      BY <1>3, <2>2 DEF AbsVal
    <3>3. w = m => Place[c] = Place[b]
      BY <1>5, <2>1, <2>4
    <3>. QED
      BY <2>2, <2>3, <3>1, <3>2, <3>3
  <2>5. CASE z # s
    <3>1. Gap(c) = y + w
      BY <1>3, <1>4, <2>1, <2>2, <2>5 DEF AbsVal, Signed, Gap
    <3>2. AbsVal(y - m) \in Int
      BY <1>3 DEF AbsVal
    <3>3. CASE w = 0
      <4>1. AbsVal(y - w) = y /\ Gap(c) = y
        BY <1>3, <3>1, <3>3 DEF AbsVal
      <4>2. m = 0 => Place[c] = Place[b]
        BY <1>5, <2>1, <3>3 DEF Signed
      <4>. QED
        BY <1>3, <2>2, <2>3, <3>2, <3>3, <4>1, <4>2
    <3>4. CASE w # 0
      BY <1>2, <1>3, <2>2, <2>3, <3>1, <3>2, <3>4
    <3>. QED
      BY <3>3, <3>4
  <2>. QED
    BY <2>4, <2>5
<1>. QED
  BY <1>7 DEF IsNearest, X, even

\* Only an overflow leaves the indices of the numbers.
LEMMA OverflowIs ==
    ASSUME NEW rm \in RoundingModes, NEW s \in 0..1, NEW i \in Nat, NEW a \in Nat,
           Mag(i) <= a, a < Mag(i + 1), a > 0
    PROVE  Overflows(Signed(s, a), rm) <=> i + (IF RoundsAway(rm, s, i, a) THEN 1 ELSE 0) >= Top(REF)
<1>. DEFINE t == Top(REF)
            lo == Mag(i)
            hi == Mag(i + 1)
            v == Signed(s, a)
            up == RoundsAway(rm, s, i, a)
<1>1. t \in Nat /\ t > 1 /\ t % 2 = 0
  <2>1. t = REF.EMAX_FIELD * 2 ^ REF.MANT /\ REF.EMAX_FIELD \in Nat /\ 2 ^ REF.MANT = 2 * 2 ^ (REF.MANT - 1)
        /\ 2 ^ (REF.MANT - 1) \in Nat
    BY UnitsFacts, FormatFacts, FormatPowers
  <2>. DEFINE e == REF.EMAX_FIELD
              half == 2 ^ (REF.MANT - 1)
              z == e * half
  <2>2. t = 2 * z /\ z \in Nat
    <3>1. t = e * (2 * half) /\ e \in Nat /\ half \in Nat
      BY <2>1
    <3>. HIDE DEF e, half, t
    <3>. QED
      BY <3>1
  <2>3. t \in Nat /\ t > 1
    BY UnitsFacts
  <2>. HIDE DEF z, t
  <2>4. t % 2 = 0
    BY <2>2
  <2>. QED
    BY <2>3, <2>4 DEF t
<1>2. /\ MaxPlus \in Nat /\ Largest \in Nat /\ Largest < MaxPlus /\ lo \in Nat /\ hi \in Nat /\ lo < hi
      /\ i < t => hi <= MaxPlus
      /\ i + 1 < t => hi <= Largest
      /\ i + 1 = t => lo = Largest /\ hi = MaxPlus
      /\ i >= t => lo >= MaxPlus
  <2>1. 0 \in Nat /\ 0 <= t
    BY <1>1
  <2>. QED
    BY <2>1, ExtremesAre, Around
<1>3. v \in Int /\ AbsVal(v) = a /\ (v > 0 <=> s = 0)
  BY DEF Signed, AbsVal
<1>4. up <=> CASE rm = RM_RNE -> 2 * a > lo + hi \/ (2 * a = lo + hi /\ i % 2 = 1)
               [] rm = RM_RTZ -> FALSE
               [] rm = RM_RDN -> s = 1 /\ a # lo
               [] rm = RM_RUP -> s = 0 /\ a # lo
  BY DEF RoundsAway, RoundingModes, RM_RNE, RM_RTZ, RM_RDN, RM_RUP
<1>5. Overflows(v, rm)
        <=> CASE rm = RM_RNE -> 2 * a >= MaxPlus + Largest
              [] rm = RM_RTZ -> a >= MaxPlus
              [] rm \in {RM_RDN, RM_RUP} ->
                    IF (rm = RM_RUP) = (s = 0) THEN a > Largest ELSE a >= MaxPlus
  <2>. HIDE DEF v
  <2>1. (v > 0) = (s = 0)
    BY <1>3
  <2>. QED
    BY <1>3, <2>1 DEF Overflows, RoundingModes, RM_RNE, RM_RTZ, RM_RDN, RM_RUP
<1>6. i >= t \/ i + 1 = t \/ i + 1 < t
  <2>. HIDE DEF t
  <2>. QED
    BY <1>1
<1>7. i + 1 = t => i % 2 = 1
  <2>. HIDE DEF t
  <2>. QED
    BY <1>1
<1>. HIDE DEF t, lo, hi, v, up
<1>8. lo <= a /\ a < hi
  BY DEF lo, hi
<1>9. CASE rm = RM_RNE
  <2>1. up <=> 2 * a > lo + hi \/ (2 * a = lo + hi /\ i % 2 = 1)
    BY <1>4, <1>9 DEF RM_RNE, RM_RTZ, RM_RDN, RM_RUP
  <2>2. Overflows(v, rm) <=> 2 * a >= MaxPlus + Largest
    BY <1>5, <1>9 DEF RM_RNE, RM_RTZ, RM_RDN, RM_RUP
  <2>3. CASE i >= t
    BY <1>1, <1>2, <1>8, <2>1, <2>2, <2>3 DEF t, up, v
  <2>4. CASE i + 1 = t
    BY <1>1, <1>2, <1>7, <1>8, <2>1, <2>2, <2>4 DEF t, up, v
  <2>5. CASE i + 1 < t
    BY <1>1, <1>2, <1>8, <2>1, <2>2, <2>5 DEF t, up, v
  <2>. QED
    BY <1>6, <2>3, <2>4, <2>5
<1>10. CASE rm # RM_RNE
  <2>. DEFINE away == (rm = RM_RDN /\ s = 1) \/ (rm = RM_RUP /\ s = 0)
  <2>1. up <=> away /\ a # lo
    <3>1. CASE rm = RM_RTZ
      BY <1>4, <3>1 DEF RM_RNE, RM_RTZ, RM_RDN, RM_RUP
    <3>2. CASE rm = RM_RDN
      BY <1>4, <3>2 DEF RM_RNE, RM_RTZ, RM_RDN, RM_RUP
    <3>3. CASE rm = RM_RUP
      BY <1>4, <3>3 DEF RM_RNE, RM_RTZ, RM_RDN, RM_RUP
    <3>. QED
      BY <1>10, <3>1, <3>2, <3>3 DEF RoundingModes
  <2>2. Overflows(v, rm) <=> IF away THEN a > Largest ELSE a >= MaxPlus
    <3>1. CASE rm = RM_RTZ
      BY <1>5, <3>1 DEF RM_RNE, RM_RTZ, RM_RDN, RM_RUP
    <3>2. CASE rm = RM_RDN
      BY <1>5, <3>2 DEF RM_RNE, RM_RTZ, RM_RDN, RM_RUP
    <3>3. CASE rm = RM_RUP
      BY <1>5, <3>3 DEF RM_RNE, RM_RTZ, RM_RDN, RM_RUP
    <3>. QED
      BY <1>10, <3>1, <3>2, <3>3 DEF RoundingModes
  <2>. HIDE DEF away
  <2>3. CASE away /\ a # lo
    BY <1>1, <1>2, <1>6, <1>8, <2>1, <2>2, <2>3 DEF t, up, v
  <2>4. CASE away /\ a = lo
    BY <1>1, <1>2, <1>6, <1>8, <2>1, <2>2, <2>4 DEF t, up, v
  <2>5. CASE ~away
    BY <1>1, <1>2, <1>6, <1>8, <2>1, <2>2, <2>5 DEF t, up, v
  <2>. QED
    BY <2>3, <2>4, <2>5
<1>. QED
  BY <1>9, <1>10

\* What IEEE-754 asks of the outcome of rounding the value v.
RoundsTo(v, rm, r) ==
    /\ IsRounded(v, rm, r.bits)
    /\ v # 0 => Sign(REF, r.bits) = SignOf(v)
    /\ r.flags = FlagsOf(v, rm, r.bits)

LEMMA RoundPackRounds ==
    ASSUME NEW rm \in RoundingModes, NEW s \in 0..1, NEW n \in Nat \ {0}, NEW scale \in Int,
           scale >= 2 * REF.MIN_SCALE, n * 2 ^ (scale - 2 * REF.MIN_SCALE) < Infinity
    PROVE  RoundsTo(Signed(s, n * 2 ^ (scale - 2 * REF.MIN_SCALE)), rm, RoundPack(s, n, scale, rm, REF))
<1>. DEFINE w == 2 ^ (scale - 2 * REF.MIN_SCALE)
            a == n * w
            v == Signed(s, a)
            r == RoundPack(s, n, scale, rm, REF)
            t == Top(REF)
<1>1. PICK i \in Nat :
        /\ a \in Nat /\ Mag(i) \in Nat /\ Mag(i + 1) \in Nat
        /\ Mag(i) <= a /\ a < Mag(i + 1)
        /\ r = Coded(REF, rm, s, i + (IF RoundsAway(rm, s, i, a) THEN 1 ELSE 0), a # Mag(i))
  BY RoundsBetween
<1>2. a > 0
  <2>1. w \in Nat \ {0}
    <3>1. scale - 2 * REF.MIN_SCALE \in Nat
      BY UnitsFacts
    <3>. QED
      BY <3>1, PowPos
  <2>. HIDE DEF w
  <2>. QED
    BY <2>1
<1>3. a < Infinity
  OBVIOUS
<1>. HIDE DEF w, a, r
<1>. DEFINE up == RoundsAway(rm, s, i, a)
            j == i + (IF up THEN 1 ELSE 0)
            lost == a # Mag(i)
            away == rm = RM_RNE \/ (rm = RM_RDN /\ s = 1) \/ (rm = RM_RUP /\ s = 0)
            x == IF j < t THEN j ELSE IF away THEN t ELSE t - 1
<1>4. t \in Nat /\ t > 1 /\ j \in Nat /\ t - 1 \in Nat
  BY UnitsFacts
<1>5. /\ r.bits \in Codes(REF) /\ r.bits \in Candidates /\ Sign(REF, r.bits) = s /\ Index(REF, r.bits) = x
      /\ r.flags = IF j < t THEN If("underflow", lost /\ j < 2 ^ REF.MANT) \union If("inexact", lost)
                   ELSE {"overflow", "inexact"}
  <2>1. r.bits = CodeFor(rm, s, j) /\ r.flags = IF j >= t THEN {"overflow", "inexact"}
                                       ELSE If("underflow", lost /\ j < 2 ^ REF.MANT) \union If("inexact", lost)
    <3>. HIDE DEF j, lost
    <3>1. r = Coded(REF, rm, s, j, lost)
      BY <1>1 DEF j, lost
    <3>. QED
      BY <3>1 DEF Coded, CodeFor, Outcome
  <2>2. j >= t <=> ~(j < t)
    <3>. HIDE DEF j, t
    <3>. QED
      BY <1>4
  <2>. HIDE DEF j, lost
  <2>3. r.bits \in Codes(REF) /\ r.bits \in Candidates /\ Sign(REF, r.bits) = s /\ Index(REF, r.bits) = x
    BY <1>4, <2>1, CodeForIs
  <2>4. r.flags = IF j < t THEN If("underflow", lost /\ j < 2 ^ REF.MANT) \union If("inexact", lost)
                  ELSE {"overflow", "inexact"}
    <3>. HIDE DEF t
    <3>. QED
      BY <2>1, <2>2
  <2>. QED
    BY <2>3, <2>4
<1>6. /\ rm = RM_RNE => x = NearIndex(i, a)
      /\ rm = RM_RTZ => x = DownIndex(i)
      /\ rm = RM_RDN => x = IF s = 0 THEN DownIndex(i) ELSE UpIndex(i, a)
      /\ rm = RM_RUP => x = IF s = 0 THEN UpIndex(i, a) ELSE DownIndex(i)
  <2>1. rm = RM_RNE => x = NearIndex(i, a)
    <3>1. SUFFICES ASSUME rm = RM_RNE PROVE x = NearIndex(i, a)
      OBVIOUS
    <3>2. up <=> RoundsAway(RM_RNE, 0, i, a)
      BY <3>1 DEF RoundsAway, RM_RNE, RM_RTZ, RM_RDN, RM_RUP
    <3>. HIDE DEF up
    <3>. QED
      BY <3>1, <3>2 DEF NearIndex
  <2>2. rm = RM_RTZ => ~up /\ ~away
    BY DEF RoundsAway, RM_RNE, RM_RTZ, RM_RDN, RM_RUP
  <2>3. rm = RM_RDN => (up <=> s = 1 /\ a # Mag(i)) /\ (away <=> s = 1)
    BY DEF RoundsAway, RM_RNE, RM_RTZ, RM_RDN, RM_RUP
  <2>4. rm = RM_RUP => (up <=> s = 0 /\ a # Mag(i)) /\ (away <=> s = 0)
    BY DEF RoundsAway, RM_RNE, RM_RTZ, RM_RDN, RM_RUP
  <2>. HIDE DEF up, away
  <2>5. ~up => j = i
    OBVIOUS
  <2>6. ~up /\ ~away => x = DownIndex(i)
    BY <2>5 DEF DownIndex
  <2>7. (up <=> a # Mag(i)) /\ away => x = UpIndex(i, a)
    BY DEF UpIndex
  <2>. QED
    BY <2>1, <2>2, <2>3, <2>4, <2>6, <2>7
<1>7. v = (IF s = 0 THEN a ELSE -a) /\ (v > 0 <=> s = 0) /\ v # 0 /\ v \in Int /\ SignOf(v) = s
  BY <1>1, <1>2 DEF Signed, SignOf
<1>8. x = DownIndex(i) => IF s = 0 THEN IsGreatestBelow(v, r.bits) ELSE IsLeastAbove(v, r.bits)
  <2>. HIDE DEF x, v
  <2>. QED
    BY <1>1, <1>3, <1>5, <1>7, DownRounds
<1>9. x = UpIndex(i, a) => IF s = 0 THEN IsLeastAbove(v, r.bits) ELSE IsGreatestBelow(v, r.bits)
  <2>. HIDE DEF x, v
  <2>. QED
    BY <1>1, <1>2, <1>3, <1>5, <1>7, UpRounds
<1>10. x = NearIndex(i, a) => IsNearest(v, r.bits)
  <2>. HIDE DEF x
  <2>. QED
    BY <1>1, <1>2, <1>5, NearRounds
<1>11. IsRounded(v, rm, r.bits)
  <2>. HIDE DEF x, v, r
  <2>1. IsRounded(v, rm, r.bits)
          <=> CASE rm = RM_RNE -> IsNearest(v, r.bits)
                [] rm = RM_RTZ -> IF v > 0 THEN IsGreatestBelow(v, r.bits) ELSE IsLeastAbove(v, r.bits)
                [] rm = RM_RDN -> IsGreatestBelow(v, r.bits)
                [] rm = RM_RUP -> IsLeastAbove(v, r.bits)
    BY DEF IsRounded, RoundingModes, RM_RNE, RM_RTZ, RM_RDN, RM_RUP
  <2>2. CASE rm = RM_RNE
    BY <1>6, <1>10, <2>1, <2>2 DEF RM_RNE, RM_RTZ, RM_RDN, RM_RUP
  <2>3. CASE rm = RM_RTZ
    BY <1>6, <1>7, <1>8, <2>1, <2>3 DEF RM_RNE, RM_RTZ, RM_RDN, RM_RUP
  <2>4. CASE rm = RM_RDN
    BY <1>6, <1>8, <1>9, <2>1, <2>4 DEF RM_RNE, RM_RTZ, RM_RDN, RM_RUP
  <2>5. CASE rm = RM_RUP
    BY <1>6, <1>8, <1>9, <2>1, <2>5 DEF RM_RNE, RM_RTZ, RM_RDN, RM_RUP
  <2>. QED
    BY <2>2, <2>3, <2>4, <2>5 DEF RoundingModes
<1>12. r.flags = FlagsOf(v, rm, r.bits)
  <2>. DEFINE over == Overflows(v, rm)
              off == Place[r.bits] # v
              tiny == ExpField(REF, r.bits) = 0
  <2>1. FlagsOf(v, rm, r.bits) = If("overflow", over) \union If("inexact", over \/ off)
                                   \union If("underflow", (over \/ off) /\ tiny)
    BY DEF FlagsOf
  <2>2. over <=> j >= t
    BY <1>1, <1>2, OverflowIs
  <2>3. tiny <=> x < 2 ^ REF.MANT
    <3>. HIDE DEF x
    <3>. QED
      BY <1>5, CandidateIs
  <2>4. Place[r.bits] = Signed(s, Mag(x))
    <3>. HIDE DEF x
    <3>. QED
      BY <1>5, CandidateIs
  <2>5. CASE j >= t
    <3>1. ~(j < t)
      BY <1>4, <2>5
    <3>2. x >= t - 1 /\ t - 1 >= 2 ^ REF.MANT /\ 2 ^ REF.MANT \in Nat /\ x \in Nat
      <4>1. t >= 3 * 2 ^ REF.MANT /\ 2 ^ REF.MANT \in Nat /\ 2 ^ REF.MANT >= 2
        BY UnitsFacts
      <4>. HIDE DEF t, away, j
      <4>. QED
        BY <1>4, <3>1, <4>1
    <3>3. ~tiny /\ over
      <4>1. ~(x < 2 ^ REF.MANT)
        <5>. HIDE DEF x, t
        <5>. QED
          BY <1>4, <3>2
      <4>. HIDE DEF tiny, over, x
      <4>. QED
        BY <2>2, <2>3, <2>5, <4>1
    <3>4. r.flags = {"overflow", "inexact"}
      BY <1>5, <3>1
    <3>. HIDE DEF over, off, tiny
    <3>. QED
      BY <2>1, <3>3, <3>4 DEF If
  <2>6. CASE j < t
    <3>1. ~over /\ x = j
      BY <1>4, <2>2, <2>6
    <3>2. off <=> lost
      <4>1. Place[r.bits] = Signed(s, Mag(j))
        BY <2>4, <3>1
      <4>2. up => lost
        <5>1. CASE rm = RM_RNE
          <6>1. up <=> 2 * a > Mag(i) + Mag(i + 1) \/ (2 * a = Mag(i) + Mag(i + 1) /\ i % 2 = 1)
            BY <5>1 DEF RoundsAway, RM_RNE, RM_RTZ, RM_RDN, RM_RUP
          <6>2. Mag(i) < Mag(i + 1)
            BY MagMono
          <6>. HIDE DEF up
          <6>. QED
            BY <1>1, <6>1, <6>2
        <5>2. CASE rm # RM_RNE
          BY <5>2 DEF RoundsAway, RoundingModes, RM_RNE, RM_RTZ, RM_RDN, RM_RUP
        <5>. QED
          BY <5>1, <5>2
      <4>3. Mag(j) = IF up THEN Mag(i + 1) ELSE Mag(i)
        <5>1. CASE up
          BY <5>1
        <5>2. CASE ~up
          <6>1. j = i
            BY <5>2
          <6>. QED
            BY <5>2, <6>1
        <5>. QED
          BY <5>1, <5>2
      <4>. HIDE DEF up, j
      <4>. QED
        BY <1>1, <1>7, <4>1, <4>2, <4>3 DEF Signed
    <3>3. r.flags = If("underflow", lost /\ j < 2 ^ REF.MANT) \union If("inexact", lost)
      BY <1>5, <2>6
    <3>4. tiny <=> j < 2 ^ REF.MANT
      <4>. HIDE DEF tiny, x, j
      <4>. QED
        BY <2>3, <3>1
    <3>5. FlagsOf(v, rm, r.bits) = If("inexact", off) \union If("underflow", off /\ tiny)
      <4>. HIDE DEF over, off, tiny
      <4>. QED
        BY <2>1, <3>1 DEF If
    <3>6. If("inexact", off) = If("inexact", lost)
          /\ If("underflow", off /\ tiny) = If("underflow", lost /\ j < 2 ^ REF.MANT)
      <4>. HIDE DEF off, lost, tiny, j
      <4>. QED
        BY <3>2, <3>4 DEF If
    <3>. HIDE DEF off, lost, tiny, j, v
    <3>. QED
      BY <3>3, <3>5, <3>6
  <2>. QED
    BY <1>4, <2>5, <2>6
<1>. QED
  BY <1>5, <1>7, <1>11, <1>12 DEF RoundsTo, v, a, w, r

LEMMA ZeroRounds ==
    ASSUME NEW rm \in RoundingModes, NEW s \in 0..1
    PROVE  RoundsTo(0, rm, Outcome(zero(REF, s), {}))
<1>. DEFINE b == zero(REF, s)
            h == 2 ^ (REF.WIDTH - 1)
<1>1. b \in Codes(REF) /\ Sign(REF, b) = s /\ Index(REF, b) = 0
  <2>1. b = s * h + 0 /\ 0 \in 0 .. h - 1
    <3>1. h \in Nat /\ h > 0
      BY UnitsFacts
    <3>2. b = s * h + 0
      BY InfIs
    <3>. HIDE DEF h
    <3>. QED
      BY <3>1, <3>2
  <2>. HIDE DEF b
  <2>. QED
    BY <2>1, UnitsFacts, CodeOfIndex
<1>. HIDE DEF b
<1>2. Mag(0) = 0 /\ FarMag(0) = 0 /\ 0 <= Top(REF)
  BY MagMono, UnitsFacts DEF FarMag
<1>3. b \in Candidates /\ Place[b] = 0 /\ Far[b] = 0
  BY <1>1, <1>2, CandidateIs DEF Signed
<1>4. \A c \in Candidates : Place[c] \in Int
  <2>1. \A c \in Candidates : c \in Codes(REF)
    BY DEF Candidates
  <2>2. \A c \in Candidates : Place[c] = Signed(Sign(REF, c), Mag(Index(REF, c))) /\ Mag(Index(REF, c)) \in Nat
    BY <2>1, CandidateIs, MagMono
  <2>. QED
    BY <2>2 DEF Signed
<1>5. MaxPlus \in Nat /\ Largest \in Nat /\ MaxPlus > 0
  BY ExtremesAre
<1>6. IsNearest(0, b)
  <2>. DEFINE X == IF AbsVal(0) > MaxPlus THEN Signed(SignOf(0), MaxPlus) ELSE 0
  <2>1. X = 0
    BY <1>5 DEF AbsVal
  <2>. HIDE DEF X
  <2>2. ASSUME NEW c \in Candidates
        PROVE  AbsVal(X - Place[b]) < AbsVal(X - Place[c]) \/ Place[c] = Place[b]
    BY <1>3, <1>4, <2>1 DEF AbsVal
  <2>. QED
    BY <2>2 DEF IsNearest, X
<1>7. IsLeastAbove(0, b) /\ IsGreatestBelow(0, b)
  BY <1>3 DEF IsLeastAbove, IsGreatestBelow
<1>8. IsRounded(0, rm, b)
  <2>1. ~(0 > 0)
    OBVIOUS
  <2>2. CASE rm = RM_RNE
    BY <1>6, <2>2 DEF IsRounded, RM_RNE, RM_RTZ, RM_RDN, RM_RUP
  <2>3. CASE rm = RM_RTZ
    BY <1>7, <2>3 DEF IsRounded, RM_RNE, RM_RTZ, RM_RDN, RM_RUP
  <2>4. CASE rm = RM_RDN
    BY <1>7, <2>4 DEF IsRounded, RM_RNE, RM_RTZ, RM_RDN, RM_RUP
  <2>5. CASE rm = RM_RUP
    BY <1>7, <2>5 DEF IsRounded, RM_RNE, RM_RTZ, RM_RDN, RM_RUP
  <2>. QED
    BY <2>2, <2>3, <2>4, <2>5 DEF RoundingModes
<1>9. ~Overflows(0, rm)
  <2>1. AbsVal(0) = 0 /\ ~(0 > Largest) /\ ~(0 >= MaxPlus) /\ ~(2 * 0 >= MaxPlus + Largest)
    BY <1>5 DEF AbsVal
  <2>2. CASE rm = RM_RNE
    BY <2>1, <2>2 DEF Overflows, RM_RNE, RM_RTZ, RM_RDN, RM_RUP
  <2>3. CASE rm = RM_RTZ
    BY <2>1, <2>3 DEF Overflows, RM_RNE, RM_RTZ, RM_RDN, RM_RUP
  <2>4. CASE rm \in {RM_RDN, RM_RUP}
    BY <2>1, <2>4 DEF Overflows, RM_RNE, RM_RTZ, RM_RDN, RM_RUP
  <2>. QED
    BY <2>2, <2>3, <2>4 DEF RoundingModes
<1>10. FlagsOf(0, rm, b) = {}
  BY <1>3, <1>9 DEF FlagsOf, If
<1>11. \A x, f : Outcome(x, f).bits = x /\ Outcome(x, f).flags = f
  BY DEF Outcome
<1>. QED
  BY <1>8, <1>10, <1>11 DEF RoundsTo, b

LEMMA SumRounds ==
    ASSUME NEW rm \in RoundingModes, NEW s1 \in 0..1, NEW s2 \in 0..1, NEW m1 \in Nat, NEW m2 \in Nat,
           NEW c1 \in Int, NEW c2 \in Int, c1 >= 2 * REF.MIN_SCALE, c2 >= 2 * REF.MIN_SCALE,
           NEW v, v = Signed(s1, m1 * 2 ^ (c1 - 2 * REF.MIN_SCALE)) + Signed(s2, m2 * 2 ^ (c2 - 2 * REF.MIN_SCALE)),
           AbsVal(v) < Infinity
    PROVE  RoundsTo(v, rm, RoundedSum(s1, m1, c1, s2, m2, c2, rm, REF))
<1>. DEFINE u == 2 * REF.MIN_SCALE
            scale == Min2(c1, c2)
            p1 == 2 ^ (c1 - scale)
            p2 == 2 ^ (c2 - scale)
            w == 2 ^ (scale - u)
            x1 == m1 * p1
            x2 == m2 * p2
            s == Signed(s1, x1) + Signed(s2, x2)
            n == IF s < 0 THEN -s ELSE s
            R == RoundedSum(s1, m1, c1, s2, m2, c2, rm, REF)
<1>1. u \in Int /\ u = 2 * REF.MIN_SCALE
  BY UnitsFacts
<1>. HIDE DEF u
<1>2. scale \in Int /\ c1 - scale >= 0 /\ c2 - scale >= 0 /\ scale - u >= 0
  BY <1>1 DEF Min2
<1>3. /\ 2 ^ (c1 - u) = p1 * w /\ 2 ^ (c2 - u) = p2 * w
      /\ p1 \in Nat /\ p2 \in Nat /\ w \in Nat \ {0}
  <2>1. c1 - u = (c1 - scale) + (scale - u) /\ c2 - u = (c2 - scale) + (scale - u)
        /\ c1 - u \in Int /\ c2 - u \in Int /\ c1 - scale \in Int /\ c2 - scale \in Int /\ scale - u \in Int
    <3>. HIDE DEF scale
    <3>. QED
      BY <1>1, <1>2
  <2>. HIDE DEF scale
  <2>2. 2 ^ (c1 - u) = p1 * w /\ p1 \in Nat \ {0} /\ w \in Nat \ {0}
    BY <1>2, <2>1, PowSum
  <2>3. 2 ^ (c2 - u) = p2 * w /\ p2 \in Nat \ {0}
    BY <1>2, <2>1, PowSum
  <2>. QED
    BY <2>2, <2>3
<1>4. R = IF s = 0 THEN ZeroSum(rm, REF) ELSE RoundPack(SignOf(s), n, scale, rm, REF)
  BY DEF RoundedSum
<1>. HIDE DEF scale, p1, p2, w
<1>5. x1 \in Nat /\ x2 \in Nat /\ m1 * (p1 * w) = x1 * w /\ m2 * (p2 * w) = x2 * w
  BY <1>3
<1>6. v = Signed(s1, x1 * w) + Signed(s2, x2 * w)
  BY <1>1, <1>3, <1>5
<1>. HIDE DEF x1, x2
<1>7. s \in Int /\ v = s * w
  <2>1. \A x \in Nat : (-x) * w = -(x * w)
    BY <1>3
  <2>2. Signed(s1, x1 * w) = Signed(s1, x1) * w /\ Signed(s2, x2 * w) = Signed(s2, x2) * w
    BY <1>5, <2>1 DEF Signed
  <2>3. Signed(s1, x1) \in Int /\ Signed(s2, x2) \in Int
    BY <1>5 DEF Signed
  <2>. DEFINE y == Signed(s1, x1)
              z == Signed(s2, x2)
  <2>4. v = y * w + z * w /\ y \in Int /\ z \in Int
    BY <1>6, <2>2, <2>3
  <2>. HIDE DEF y, z
  <2>5. y * w + z * w = (y + z) * w /\ y + z \in Int
    BY <1>3, <2>4
  <2>. QED
    BY <2>4, <2>5 DEF y, z
<1>. HIDE DEF s
<1>8. CASE s = 0
  <2>1. v = 0
    BY <1>3, <1>7, <1>8
  <2>2. R = Outcome(zero(REF, IF rm = RM_RDN THEN 1 ELSE 0), {})
    BY <1>4, <1>8 DEF ZeroSum
  <2>. HIDE DEF R
  <2>3. (IF rm = RM_RDN THEN 1 ELSE 0) \in 0..1
    OBVIOUS
  <2>. QED
    BY <2>1, <2>2, <2>3, ZeroRounds DEF R
<1>9. CASE s # 0
  <2>1. n \in Nat \ {0} /\ SignOf(s) \in 0..1 /\ s = Signed(SignOf(s), n)
    BY <1>7, <1>9 DEF SignOf, Signed
  <2>2. v = Signed(SignOf(s), n * w)
    <3>. DEFINE z == SignOf(s)
    <3>1. z \in 0..1 /\ s = Signed(z, n)
      BY <2>1
    <3>. HIDE DEF n, z
    <3>2. (-n) * w = -(n * w)
      BY <1>3, <2>1
    <3>. QED
      BY <1>7, <3>1, <3>2 DEF Signed, z
  <2>3. n * w \in Nat /\ n * w < Infinity
    <3>. DEFINE y == n * w
    <3>1. y \in Nat
      <4>. HIDE DEF n
      <4>. QED
        BY <1>3, <2>1
    <3>2. AbsVal(v) = y
      <4>. HIDE DEF y, n
      <4>. QED
        BY <2>1, <2>2, <3>1 DEF AbsVal, Signed, y
    <3>. QED
      BY <3>1, <3>2
  <2>4. scale >= 2 * REF.MIN_SCALE /\ w = 2 ^ (scale - 2 * REF.MIN_SCALE)
    BY <1>1, <1>2 DEF w
  <2>5. RoundsTo(Signed(SignOf(s), n * w), rm, RoundPack(SignOf(s), n, scale, rm, REF))
    <3>. DEFINE z == SignOf(s)
    <3>. HIDE DEF n, z
    <3>. QED
      BY <1>2, <2>1, <2>3, <2>4, RoundPackRounds DEF z
  <2>. QED
    BY <1>4, <1>9, <2>2, <2>5
<1>. QED
  BY <1>8, <1>9

IsNumber(c) == Decode(REF, c).kind \in {"zero", "fin"}

\* The magnitude of a number in units of its format's last subnormal bit.
Digits(c) == Weight(2 ^ REF.MANT, Index(REF, c))

LEMMA NumberIs ==
    ASSUME NEW c \in Codes(REF), IsNumber(c)
    PROVE  LET d == Decode(REF, c)
           IN  /\ d.mant \in Nat /\ d.scale \in Int /\ d.scale >= REF.MIN_SCALE /\ d.sign \in 0..1
               /\ Digits(c) \in Nat
               /\ d.mant * 2 ^ (d.scale - REF.MIN_SCALE) = Digits(c)
               /\ d.mant * 2 ^ (d.scale - 2 * REF.MIN_SCALE) = Digits(c) * Units
               /\ Digits(c) * Units < MaxPlus
               /\ Digits(c) < Weight(2 ^ REF.MANT, Top(REF))
               /\ d.mant = 0 <=> d.kind = "zero"
               /\ d.kind = "fin" => d.mant # 0
               /\ d.kind = "zero" => Digits(c) = 0
               /\ FpValue(REF, c) = Signed(d.sign, Digits(c) * Units)
               /\ FpValue(REF, c) = Signed(d.sign, d.mant * 2 ^ (d.scale - 2 * REF.MIN_SCALE))
<1>. DEFINE d == Decode(REF, c)
            i == Index(REF, c)
            t == Top(REF)
            P == 2 ^ REF.MANT
            u == REF.MIN_SCALE
<1>1. DecodesTo(REF, d, Sign(REF, c), i)
  BY UnitsFacts, DecodeIs
<1>2. d.kind \in {"zero", "fin"}
  BY DEF IsNumber
<1>. HIDE DEF d
<1>3. /\ d.mant \in Nat /\ d.scale \in Int /\ d.scale >= u /\ d.sign \in 0..1 /\ d.sign = Sign(REF, c)
      /\ d.mant * 2 ^ (d.scale - u) = Weight(P, i)
      /\ i \in Nat
      /\ d.kind = "zero" <=> i = 0
      /\ d.kind = "fin" <=> 0 < i /\ i < t
      /\ d.mant = 0 <=> i = 0
  BY <1>1 DEF DecodesTo
<1>4. t \in Nat /\ t > 0 /\ P \in Nat \ {0} /\ u \in Int /\ -u \in Nat
  BY UnitsFacts
<1>. HIDE DEF i, t, P, u
<1>5. i < t /\ i \in Nat
  BY <1>2, <1>3, <1>4
<1>6. Weight(P, i) \in Nat /\ Weight(P, i) < Weight(P, t)
  BY <1>4, <1>5, WeightMono
<1>7. Weight(P, i) * Units = Mag(i) /\ Mag(i) < MaxPlus /\ (i = 0 => Weight(P, i) = 0)
  <2>1. Mag(i) < Mag(t) /\ MaxPlus = Mag(t)
    BY <1>4, <1>5, MagMono, ExtremesAre DEF t
  <2>2. i = 0 => Weight(P, i) = 0
    BY <1>4 DEF Weight
  <2>. QED
    BY <2>1, <2>2 DEF Mag, P
<1>8. FpValue(REF, c) = Signed(d.sign, d.mant * 2 ^ (d.scale - 2 * u))
  BY DEF FpValue, d, u
<1>9. FpValue(REF, c) = Signed(d.sign, Mag(i))
  BY <1>3, FpValueIs DEF i
<1>10. d.mant * 2 ^ (d.scale - 2 * u) = Weight(P, i) * Units
  <2>1. d.scale - 2 * u = (d.scale - u) + (-u) /\ d.scale - u \in Int /\ -u \in Int /\ d.scale - 2 * u \in Int
        /\ d.scale - u >= 0 /\ -u >= 0
    BY <1>3, <1>4
  <2>. DEFINE x == d.scale - u
              y == -u
              z == d.scale - 2 * u
              w == d.mant
  <2>2. 2 ^ z = 2 ^ x * 2 ^ y /\ 2 ^ x \in Nat /\ 2 ^ y \in Nat
    <3>1. x \in Int /\ y \in Int /\ z \in Int /\ z = x + y /\ x >= 0 /\ y >= 0
      BY <2>1
    <3>. HIDE DEF x, y, z
    <3>. QED
      BY <3>1, PowSum
  <2>3. w * (2 ^ x * 2 ^ y) = (w * 2 ^ x) * 2 ^ y
    <3>1. w \in Nat
      BY <1>3
    <3>. DEFINE p == 2 ^ x
                q == 2 ^ y
    <3>2. p \in Nat /\ q \in Nat
      BY <2>2
    <3>. HIDE DEF p, q, w
    <3>3. w * (p * q) = (w * p) * q
      BY <3>1, <3>2
    <3>. QED
      BY <3>3 DEF p, q
  <2>. QED
    BY <1>3, <2>2, <2>3 DEF Units, u
<1>. QED
  BY <1>2, <1>3, <1>6, <1>7, <1>8, <1>9, <1>10 DEF Digits, d, i, t, P, u

\* The exact product of two numbers.
ProductOf(a, b) == (FpValue(REF, a) \div 2 ^ (-REF.MIN_SCALE)) * (FpValue(REF, b) \div 2 ^ (-REF.MIN_SCALE))

LEMMA SignedDiv ==
    ASSUME NEW s \in 0..1, NEW n \in Nat, NEW w \in Nat \ {0}
    PROVE  Signed(s, n * w) \div w = Signed(s, n)
<1>1. (n * w) \div w = n
  BY DivOfMultiple
<1>2. (-(n * w)) \div w = -n
  <2>. DEFINE z == -n
              q == (z * w) \div w
              r == (z * w) % w
  <2>1. z \in Int /\ z * w \in Int /\ -(n * w) = z * w
    OBVIOUS
  <2>. HIDE DEF z
  <2>2. q \in Int /\ r \in 0 .. w - 1 /\ z * w = w * q + r
    BY <2>1
  <2>. HIDE DEF q, r
  <2>3. ~(q < z)
    <3>1. q + 1 <= z => w * (q + 1) <= w * z
      BY <2>1, <2>2
    <3>2. w * (q + 1) = w * q + w /\ w * z = z * w
      BY <2>1, <2>2
    <3>. QED
      BY <2>1, <2>2, <3>1, <3>2
  <2>4. ~(q > z)
    <3>1. q >= z + 1 => w * q >= w * (z + 1)
      BY <2>1, <2>2
    <3>2. w * (z + 1) = w * z + w /\ w * z = z * w
      BY <2>1, <2>2
    <3>. QED
      BY <2>1, <2>2, <3>1, <3>2
  <2>5. q = z
    BY <2>1, <2>2, <2>3, <2>4
  <2>. QED
    BY <2>1, <2>5 DEF q, z
<1>. QED
  BY <1>1, <1>2 DEF Signed

LEMMA ProductIs ==
    ASSUME NEW a \in Codes(REF), NEW b \in Codes(REF), IsNumber(a), IsNumber(b)
    PROVE  LET da == Decode(REF, a)
               db == Decode(REF, b)
               sr == (da.sign + db.sign) % 2
               n == da.mant * db.mant
               scale == da.scale + db.scale
           IN  /\ sr \in 0..1 /\ n \in Nat /\ scale \in Int /\ scale >= 2 * REF.MIN_SCALE
               /\ n * 2 ^ (scale - 2 * REF.MIN_SCALE) = Digits(a) * Digits(b)
               /\ ProductOf(a, b) = Signed(sr, Digits(a) * Digits(b))
               /\ Digits(a) * Digits(b) \in Nat
               /\ 2 * (Digits(a) * Digits(b)) <= Infinity
               /\ Digits(a) * Digits(b) < Infinity
               /\ ("zero" \in {da.kind, db.kind}) <=> n = 0
<1>. DEFINE da == Decode(REF, a)
            db == Decode(REF, b)
            u == REF.MIN_SCALE
            A == Digits(a)
            B == Digits(b)
            W == Units
            sr == (da.sign + db.sign) % 2
            n == da.mant * db.mant
            scale == da.scale + db.scale
            T == Weight(2 ^ REF.MANT, Top(REF))
<1>1. /\ da.mant \in Nat /\ da.scale \in Int /\ da.scale >= u /\ da.sign \in 0..1 /\ A \in Nat /\ A < T
      /\ da.mant * 2 ^ (da.scale - u) = A
      /\ (da.mant = 0 <=> da.kind = "zero")
      /\ FpValue(REF, a) = Signed(da.sign, A * W)
  BY NumberIs
<1>2. /\ db.mant \in Nat /\ db.scale \in Int /\ db.scale >= u /\ db.sign \in 0..1 /\ B \in Nat /\ B < T
      /\ db.mant * 2 ^ (db.scale - u) = B
      /\ (db.mant = 0 <=> db.kind = "zero")
      /\ FpValue(REF, b) = Signed(db.sign, B * W)
  BY NumberIs
<1>3. u \in Int /\ W \in Nat \ {0} /\ 2 ^ (-u) = W
  BY UnitsFacts DEF Units
<1>4. ProductOf(a, b) = (FpValue(REF, a) \div W) * (FpValue(REF, b) \div W)
  BY DEF ProductOf, Units
<1>. HIDE DEF da, db, u, A, B, W
<1>5. FpValue(REF, a) \div W = Signed(da.sign, A) /\ FpValue(REF, b) \div W = Signed(db.sign, B)
  <2>. DEFINE f == da.sign
              g == db.sign
  <2>1. f \in 0..1 /\ g \in 0..1 /\ FpValue(REF, a) = Signed(f, A * W) /\ FpValue(REF, b) = Signed(g, B * W)
    BY <1>1, <1>2
  <2>2. A \in Nat /\ B \in Nat
    BY <1>1, <1>2
  <2>. HIDE DEF f, g
  <2>3. Signed(f, A * W) \div W = Signed(f, A)
    BY <1>3, <2>1, <2>2, SignedDiv
  <2>4. Signed(g, B * W) \div W = Signed(g, B)
    BY <1>3, <2>1, <2>2, SignedDiv
  <2>. QED
    BY <2>1, <2>3, <2>4 DEF f, g
<1>6. sr \in 0..1 /\ A * B \in Nat
  BY <1>1, <1>2
<1>7. ProductOf(a, b) = Signed(sr, A * B)
  <2>1. (-A) * B = -(A * B) /\ A * (-B) = -(A * B) /\ (-A) * (-B) = A * B
    BY <1>1, <1>2
  <2>2. sr = IF da.sign = db.sign THEN 0 ELSE 1
    BY <1>1, <1>2
  <2>. HIDE DEF sr
  <2>. QED
    BY <1>1, <1>2, <1>4, <1>5, <2>1, <2>2 DEF Signed
<1>8. n \in Nat /\ scale \in Int /\ scale >= 2 * u /\ (n = 0 <=> da.kind = "zero" \/ db.kind = "zero")
  BY <1>1, <1>2, <1>3
<1>9. n * 2 ^ (scale - 2 * u) = A * B
  <2>. DEFINE x == da.scale - u
              y == db.scale - u
              p == 2 ^ x
              q == 2 ^ y
  <2>1. 2 ^ (scale - 2 * u) = p * q /\ p \in Nat /\ q \in Nat
    <3>1. x \in Int /\ y \in Int /\ x >= 0 /\ y >= 0 /\ scale - 2 * u = x + y /\ scale - 2 * u \in Int
      BY <1>1, <1>2, <1>3
    <3>. HIDE DEF x, y, scale
    <3>. QED
      BY <3>1, PowSum
  <2>2. A = da.mant * p /\ B = db.mant * q
    BY <1>1, <1>2
  <2>. HIDE DEF p, q
  <2>. DEFINE f == da.mant
              g == db.mant
  <2>3. f \in Nat /\ g \in Nat
    BY <1>1, <1>2
  <2>. HIDE DEF f, g
  <2>4. (f * g) * (p * q) = (f * p) * (g * q)
    BY <2>1, <2>3
  <2>. QED
    BY <2>1, <2>2, <2>4 DEF f, g
<1>10. 2 * (A * B) <= Infinity /\ A * B < Infinity
  <2>1. PICK x \in Nat : Mag(Top(REF)) = x * Units /\ 2 * (x * x) <= Infinity
    BY InfinityIsPast
  <2>2. T \in Nat
    <3>1. Top(REF) \in Nat /\ Top(REF) < Top(REF) + 1 /\ Top(REF) + 1 \in Nat /\ 2 ^ REF.MANT \in Nat \ {0}
      BY UnitsFacts
    <3>. QED
      BY <3>1, WeightMono
  <2>3. T * W = x * W
    BY <2>1 DEF Mag, W
  <2>. HIDE DEF T
  <2>4. T = x
    <3>1. T < x => T * W < x * W
      BY <1>3, <2>2, StrictProduct
    <3>2. x < T => x * W < T * W
      BY <1>3, <2>2, StrictProduct
    <3>3. T * W \in Nat
      BY <1>3, <2>2
    <3>. QED
      BY <2>2, <2>3, <3>1, <3>2, <3>3
  <2>5. A * B <= T * B /\ T * B = B * T /\ B * T <= T * T /\ A * B \in Nat /\ T * T \in Nat /\ T * B \in Nat
    BY <1>1, <1>2, <2>2, ProductMono
  <2>6. Infinity \in Nat /\ Infinity > 0
    BY InfinityIsPast, ExtremesAre
  <2>7. 2 * (T * T) <= Infinity
    BY <2>1, <2>4
  <2>. QED
    BY <2>5, <2>6, <2>7
<1>. QED
  BY <1>6, <1>7, <1>8, <1>9, <1>10 DEF da, db, u, A, B

LEMMA AddRounds ==
    ASSUME NEW a \in Codes(REF), NEW b \in Codes(REF), IsNumber(a), IsNumber(b), NEW rm \in RoundingModes
    PROVE  RoundsTo(FpValue(REF, a) + FpValue(REF, b), rm, fp_add(a, b, rm, REF))
<1>. DEFINE da == Decode(REF, a)
            db == Decode(REF, b)
            u == 2 * REF.MIN_SCALE
            x == Digits(a) * Units
            y == Digits(b) * Units
            v == FpValue(REF, a) + FpValue(REF, b)
            R == fp_add(a, b, rm, REF)
            Z == {da.kind, db.kind} = {"zero"}
<1>1. /\ da.mant \in Nat /\ da.scale \in Int /\ da.scale >= REF.MIN_SCALE /\ da.sign \in 0..1
      /\ da.kind \in {"zero", "fin"} /\ (da.kind = "zero" => Digits(a) = 0)
      /\ FpValue(REF, a) = Signed(da.sign, da.mant * 2 ^ (da.scale - u))
      /\ FpValue(REF, a) = Signed(da.sign, x) /\ x < MaxPlus /\ Digits(a) \in Nat
  BY NumberIs DEF IsNumber
<1>2. /\ db.mant \in Nat /\ db.scale \in Int /\ db.scale >= REF.MIN_SCALE /\ db.sign \in 0..1
      /\ db.kind \in {"zero", "fin"} /\ (db.kind = "zero" => Digits(b) = 0)
      /\ FpValue(REF, b) = Signed(db.sign, db.mant * 2 ^ (db.scale - u))
      /\ FpValue(REF, b) = Signed(db.sign, y) /\ y < MaxPlus /\ Digits(b) \in Nat
  BY NumberIs DEF IsNumber
<1>3. REF.MIN_SCALE \in Int /\ REF.MIN_SCALE < 0 /\ Units \in Nat
  BY UnitsFacts
<1>4. x \in Nat /\ y \in Nat
  BY <1>1, <1>2, <1>3
<1>5. R = IF Z THEN IF da.sign = db.sign THEN Outcome(zero(REF, da.sign), {}) ELSE ZeroSum(rm, REF)
          ELSE RoundedSum(da.sign, da.mant, da.scale, db.sign, db.mant, db.scale, rm, REF)
  <2>1. ~(IsNan(da) \/ IsNan(db)) /\ "inf" \notin {da.kind, db.kind}
    BY <1>1, <1>2 DEF IsNan
  <2>. QED
    BY <2>1 DEF fp_add
<1>. HIDE DEF da, db, x, y, R
<1>6. CASE Z
  <2>1. da.kind = "zero" /\ db.kind = "zero"
    BY <1>6
  <2>2. x = 0 /\ y = 0
    BY <1>1, <1>2, <1>3, <2>1 DEF x, y
  <2>3. v = 0
    BY <1>1, <1>2, <2>2 DEF Signed
  <2>. DEFINE z == IF da.sign = db.sign THEN da.sign ELSE IF rm = RM_RDN THEN 1 ELSE 0
  <2>4. z \in 0..1 /\ R = Outcome(zero(REF, z), {})
    BY <1>1, <1>5, <1>6 DEF ZeroSum
  <2>. HIDE DEF z
  <2>5. RoundsTo(0, rm, R)
    BY <2>4, ZeroRounds
  <2>. QED
    BY <2>3, <2>5 DEF R
<1>7. CASE ~Z
  <2>1. AbsVal(v) < Infinity
    BY <1>1, <1>2, <1>4, InfinityIsPast, ExtremesAre DEF AbsVal, Signed
  <2>2. v = Signed(da.sign, da.mant * 2 ^ (da.scale - 2 * REF.MIN_SCALE))
            + Signed(db.sign, db.mant * 2 ^ (db.scale - 2 * REF.MIN_SCALE))
    BY <1>1, <1>2
  <2>3. da.scale >= 2 * REF.MIN_SCALE /\ db.scale >= 2 * REF.MIN_SCALE
    BY <1>1, <1>2, <1>3
  <2>. DEFINE s1 == da.sign
              s2 == db.sign
              m1 == da.mant
              m2 == db.mant
              c1 == da.scale
              c2 == db.scale
  <2>4. s1 \in 0..1 /\ s2 \in 0..1 /\ m1 \in Nat /\ m2 \in Nat /\ c1 \in Int /\ c2 \in Int
        /\ c1 >= 2 * REF.MIN_SCALE /\ c2 >= 2 * REF.MIN_SCALE
    BY <1>1, <1>2, <2>3
  <2>5. v = Signed(s1, m1 * 2 ^ (c1 - 2 * REF.MIN_SCALE)) + Signed(s2, m2 * 2 ^ (c2 - 2 * REF.MIN_SCALE))
    BY <2>2
  <2>6. R = RoundedSum(s1, m1, c1, s2, m2, c2, rm, REF)
    BY <1>5, <1>7
  <2>. HIDE DEF s1, s2, m1, m2, c1, c2, v
  <2>7. RoundsTo(v, rm, RoundedSum(s1, m1, c1, s2, m2, c2, rm, REF))
    BY <2>1, <2>4, <2>5, SumRounds
  <2>. QED
    BY <2>6, <2>7 DEF R, v
<1>. QED
  BY <1>6, <1>7 DEF R

LEMMA SignedZero == ASSUME NEW s, NEW n \in Int, n = 0 PROVE Signed(s, n) = 0
<1>1. Signed(s, n) \in Int /\ Signed(s, n) <= 0 /\ Signed(s, n) >= 0
  BY DEF Signed
<1>. QED
  BY <1>1

LEMMA MulRounds ==
    ASSUME NEW a \in Codes(REF), NEW b \in Codes(REF), IsNumber(a), IsNumber(b), NEW rm \in RoundingModes
    PROVE  RoundsTo(ProductOf(a, b), rm, fp_mul(a, b, rm, REF))
<1>. DEFINE da == Decode(REF, a)
            db == Decode(REF, b)
            x == Digits(a) * Digits(b)
            s == (da.sign + db.sign) % 2
            n == da.mant * db.mant
            scale == da.scale + db.scale
            R == fp_mul(a, b, rm, REF)
            Z == "zero" \in {da.kind, db.kind}
<1>1. /\ s \in 0..1 /\ n \in Nat /\ scale \in Int /\ scale >= 2 * REF.MIN_SCALE
      /\ n * 2 ^ (scale - 2 * REF.MIN_SCALE) = x
      /\ ProductOf(a, b) = Signed(s, x) /\ x \in Nat /\ x < Infinity
      /\ (Z <=> n = 0)
  BY ProductIs
<1>2. da.kind \in {"zero", "fin"} /\ db.kind \in {"zero", "fin"}
  BY DEF IsNumber
<1>3. R = IF Z THEN Outcome(zero(REF, s), {}) ELSE RoundPack(s, n, scale, rm, REF)
  <2>. DEFINE kinds == {da.kind, db.kind}
  <2>1. /\ kinds \intersect {"nan", "snan"} = {} /\ kinds # {"inf", "zero"}
        /\ kinds \notin {{"inf"}, {"inf", "fin"}}
        /\ (Z <=> kinds \in {{"zero"}, {"zero", "fin"}})
        /\ (~Z <=> kinds = {"fin"})
    <3>1. da.kind \in Kinds /\ db.kind \in Kinds
      BY <1>2 DEF Kinds
    <3>. QED
      BY <1>2, <3>1, KindPairs
  <2>2. CASE Z
    <3>. DEFINE A == kinds \in {{"zero"}, {"zero", "fin"}}
    <3>1. A /\ kinds # {"fin"}
      BY <2>1, <2>2
    <3>. QED
      BY <2>1, <2>2, <3>1 DEF fp_mul
  <2>3. CASE ~Z
    <3>1. kinds = {"fin"} /\ kinds \notin {{"zero"}, {"zero", "fin"}}
      BY <2>1, <2>3
    <3>. QED
      BY <2>1, <2>3, <3>1 DEF fp_mul
  <2>. QED
    BY <2>2, <2>3
<1>. HIDE DEF da, db, s, n, scale, R, x
<1>4. CASE Z
  <2>1. x = 0
    <3>. DEFINE p == 2 ^ (scale - 2 * REF.MIN_SCALE)
    <3>1. p \in Nat
      <4>1. scale - 2 * REF.MIN_SCALE \in Nat
        BY <1>1, UnitsFacts
      <4>. QED
        BY <4>1, PowNat
    <3>. HIDE DEF p
    <3>2. n * p = 0
      BY <1>1, <1>4, <3>1
    <3>. QED
      BY <1>1, <3>2 DEF p
  <2>2. ProductOf(a, b) = 0
    <3>1. ProductOf(a, b) = Signed(s, x) /\ x \in Int
      BY <1>1
    <3>2. Signed(s, x) = 0
      BY <2>1, <3>1, SignedZero
    <3>. QED
      BY <3>1, <3>2
  <2>. QED
    BY <1>1, <1>3, <1>4, <2>2, ZeroRounds DEF R
<1>5. CASE ~Z
  <2>1. n \in Nat \ {0}
    BY <1>1, <1>5
  <2>2. RoundsTo(Signed(s, n * 2 ^ (scale - 2 * REF.MIN_SCALE)), rm, RoundPack(s, n, scale, rm, REF))
    BY <1>1, <2>1, RoundPackRounds
  <2>. QED
    BY <1>1, <1>3, <1>5, <2>2 DEF R
<1>. QED
  BY <1>4, <1>5 DEF R

LEMMA FmaRounds ==
    ASSUME NEW a \in Codes(REF), NEW b \in Codes(REF), NEW c \in Codes(REF),
           IsNumber(a), IsNumber(b), IsNumber(c), NEW rm \in RoundingModes
    PROVE  RoundsTo(ProductOf(a, b) + FpValue(REF, c), rm, fp_fma(a, b, c, rm, REF))
<1>. DEFINE da == Decode(REF, a)
            db == Decode(REF, b)
            dc == Decode(REF, c)
            u == 2 * REF.MIN_SCALE
            x == Digits(a) * Digits(b)
            y == Digits(c) * Units
            ps == (da.sign + db.sign) % 2
            n == da.mant * db.mant
            scale == da.scale + db.scale
            v == ProductOf(a, b) + FpValue(REF, c)
            R == fp_fma(a, b, c, rm, REF)
            Z == "zero" \in {da.kind, db.kind} /\ dc.kind = "zero"
<1>1. /\ ps \in 0..1 /\ n \in Nat /\ scale \in Int /\ scale >= u
      /\ n * 2 ^ (scale - u) = x
      /\ ProductOf(a, b) = Signed(ps, x) /\ x \in Nat /\ 2 * x <= Infinity
      /\ ("zero" \in {da.kind, db.kind} <=> n = 0)
  BY ProductIs
<1>2. /\ dc.mant \in Nat /\ dc.scale \in Int /\ dc.scale >= REF.MIN_SCALE /\ dc.sign \in 0..1
      /\ dc.kind \in {"zero", "fin"} /\ (dc.kind = "zero" => Digits(c) = 0)
      /\ FpValue(REF, c) = Signed(dc.sign, dc.mant * 2 ^ (dc.scale - u))
      /\ FpValue(REF, c) = Signed(dc.sign, y) /\ y < MaxPlus /\ Digits(c) \in Nat
  BY NumberIs DEF IsNumber
<1>3. REF.MIN_SCALE \in Int /\ REF.MIN_SCALE < 0 /\ Units \in Nat
  BY UnitsFacts
<1>4. y \in Nat
  BY <1>2, <1>3
<1>5. R = IF Z THEN IF ps = dc.sign THEN Outcome(zero(REF, ps), {}) ELSE ZeroSum(rm, REF)
          ELSE RoundedSum(ps, n, scale, dc.sign, dc.mant, dc.scale, rm, REF)
  <2>1. da.kind \in {"zero", "fin"} /\ db.kind \in {"zero", "fin"}
    BY DEF IsNumber
  <2>2. /\ {da.kind, db.kind, dc.kind} \intersect {"nan", "snan"} = {}
        /\ {da.kind, db.kind} # {"inf", "zero"} /\ "inf" \notin {da.kind, db.kind} /\ dc.kind # "inf"
    BY <1>2, <2>1
  <2>. QED
    BY <2>2 DEF fp_fma
<1>. HIDE DEF da, db, dc, x, y, R, n, scale, ps
<1>6. CASE Z
  <2>1. n = 0 /\ dc.kind = "zero"
    BY <1>1, <1>6
  <2>2. x = 0 /\ y = 0
    <3>. DEFINE p == 2 ^ (scale - u)
    <3>1. p \in Nat
      <4>1. scale - u \in Nat
        BY <1>1, UnitsFacts
      <4>. QED
        BY <4>1, PowNat
    <3>. HIDE DEF p
    <3>2. n * p = 0
      BY <2>1, <3>1
    <3>3. y = 0
      BY <1>2, <1>3, <2>1 DEF y
    <3>. QED
      BY <1>1, <3>2, <3>3 DEF p
  <2>3. v = 0
    BY <1>1, <1>2, <2>2 DEF Signed
  <2>. DEFINE z == IF ps = dc.sign THEN ps ELSE IF rm = RM_RDN THEN 1 ELSE 0
  <2>4. z \in 0..1 /\ R = Outcome(zero(REF, z), {})
    BY <1>1, <1>5, <1>6 DEF ZeroSum
  <2>. HIDE DEF z
  <2>5. RoundsTo(0, rm, R)
    BY <2>4, ZeroRounds
  <2>. QED
    BY <2>3, <2>5 DEF R
<1>7. CASE ~Z
  <2>1. AbsVal(v) < Infinity
    BY <1>1, <1>2, <1>4, InfinityIsPast, ExtremesAre DEF AbsVal, Signed
  <2>2. v = Signed(ps, n * 2 ^ (scale - u)) + Signed(dc.sign, dc.mant * 2 ^ (dc.scale - u))
    BY <1>1, <1>2
  <2>. DEFINE s2 == dc.sign
              m2 == dc.mant
              c2 == dc.scale
  <2>4. s2 \in 0..1 /\ m2 \in Nat /\ c2 \in Int /\ c2 >= 2 * REF.MIN_SCALE
    BY <1>2, <1>3
  <2>5. v = Signed(ps, n * 2 ^ (scale - 2 * REF.MIN_SCALE)) + Signed(s2, m2 * 2 ^ (c2 - 2 * REF.MIN_SCALE))
    BY <2>2
  <2>6. R = RoundedSum(ps, n, scale, s2, m2, c2, rm, REF)
    BY <1>5, <1>7
  <2>. HIDE DEF s2, m2, c2, v
  <2>7. RoundsTo(v, rm, RoundedSum(ps, n, scale, s2, m2, c2, rm, REF))
    BY <1>1, <2>1, <2>4, <2>5, SumRounds
  <2>. QED
    BY <2>6, <2>7 DEF R, v
<1>. QED
  BY <1>6, <1>7 DEF R

\* What an operation on an infinity or a NaN may answer: K has its operands' kinds.
Specially(r, K) ==
    /\ r.flags \in {{}, {"invalid"}}
    /\ "snan" \in K => r.flags = {"invalid"}
    /\ (r.flags # {} \/ "nan" \in K) <=> r.bits = QNAN(REF)

LEMMA SpecialAnswers ==
    ASSUME NEW r, NEW K
    PROVE  /\ r = Outcome(QNAN(REF), {"invalid"}) => Specially(r, K)
           /\ r = Outcome(QNAN(REF), {}) /\ "nan" \in K /\ "snan" \notin K => Specially(r, K)
           /\ \A s \in 0..1 :
                r = Outcome(inf(REF, s), {}) /\ "nan" \notin K /\ "snan" \notin K => Specially(r, K)
<1>1. \A x, f : Outcome(x, f).bits = x /\ Outcome(x, f).flags = f
  BY DEF Outcome
<1>2. ASSUME NEW s \in 0..1 PROVE inf(REF, s) # QNAN(REF)
  <2>. DEFINE e == REF.EMAX_FIELD
              q == 2 ^ (REF.MANT - 1)
  <2>1. IsFormat(REF) /\ e \in Nat /\ q \in Nat \ {0} /\ 2 ^ REF.MANT = 2 * q
    BY RefAssumption, FormatFacts, FormatPowers
  <2>2. IsField(REF, s, e, 0) /\ IsField(REF, 0, e, q)
    <3>1. 0 \in 0 .. 2 * q - 1 /\ q \in 0 .. 2 * q - 1 /\ e \in 0 .. e
      <4>. HIDE DEF e, q
      <4>. QED
        BY <2>1
    <3>. QED
      BY <2>1, <3>1 DEF IsField
  <2>. HIDE DEF e, q
  <2>3. Fraction(REF, Pack(REF, s, e, 0)) = 0
    BY <2>1, <2>2, CodeOfFields
  <2>4. Fraction(REF, Pack(REF, 0, e, q)) = q
    BY <2>1, <2>2, CodeOfFields
  <2>5. inf(REF, s) = Pack(REF, s, e, 0) /\ QNAN(REF) = Pack(REF, 0, e, q)
    BY DEF inf, QNAN, e, q
  <2>. QED
    BY <2>1, <2>3, <2>4, <2>5
<1>3. {"invalid"} # {}
  OBVIOUS
<1>4. r = Outcome(QNAN(REF), {"invalid"}) => Specially(r, K)
  <2>1. SUFFICES ASSUME r = Outcome(QNAN(REF), {"invalid"}) PROVE Specially(r, K)
    OBVIOUS
  <2>2. r.bits = QNAN(REF) /\ r.flags = {"invalid"}
    BY <1>1, <2>1
  <2>. QED
    BY <1>3, <2>2 DEF Specially
<1>5. ASSUME r = Outcome(QNAN(REF), {}), "nan" \in K, "snan" \notin K PROVE Specially(r, K)
  <2>1. r.bits = QNAN(REF) /\ r.flags = {}
    BY <1>1, <1>5
  <2>. QED
    BY <1>5, <2>1 DEF Specially
<1>6. ASSUME NEW s \in 0..1, r = Outcome(inf(REF, s), {}), "nan" \notin K, "snan" \notin K PROVE Specially(r, K)
  <2>1. r.bits = inf(REF, s) /\ r.flags = {}
    BY <1>1, <1>6
  <2>. QED
    BY <1>2, <1>6, <2>1 DEF Specially
<1>. QED
  BY <1>4, <1>5, <1>6

LEMMA KindIs == ASSUME NEW c \in Codes(REF) PROVE Decode(REF, c).kind \in Kinds /\ Decode(REF, c).sign \in 0..1
  BY UnitsFacts, DecodeIs DEF DecodesTo, Kinds

LEMMA AddSpecial ==
    ASSUME NEW a \in Codes(REF), NEW b \in Codes(REF), ~(IsNumber(a) /\ IsNumber(b)), NEW rm
    PROVE  Specially(fp_add(a, b, rm, REF), {Decode(REF, a).kind, Decode(REF, b).kind})
<1>. DEFINE da == Decode(REF, a)
            db == Decode(REF, b)
            K == {da.kind, db.kind}
            R == fp_add(a, b, rm, REF)
<1>1. da.kind \in Kinds /\ db.kind \in Kinds /\ da.sign \in 0..1 /\ db.sign \in 0..1
  BY KindIs
<1>2. da.kind \notin {"zero", "fin"} \/ db.kind \notin {"zero", "fin"}
  BY DEF IsNumber
<1>3. CASE "snan" \in K
  <2>1. IsNan(da) \/ IsNan(db)
    BY <1>3 DEF IsNan
  <2>2. R = Outcome(QNAN(REF), {"invalid"})
    BY <1>3, <2>1 DEF fp_add, If
  <2>. QED
    BY <2>2, SpecialAnswers
<1>4. CASE "nan" \in K /\ "snan" \notin K
  <2>1. IsNan(da) \/ IsNan(db)
    BY <1>4 DEF IsNan
  <2>2. R = Outcome(QNAN(REF), {})
    BY <1>4, <2>1 DEF fp_add, If
  <2>. QED
    BY <1>4, <2>2, SpecialAnswers
<1>5. CASE "nan" \notin K /\ "snan" \notin K
  <2>1. ~(IsNan(da) \/ IsNan(db)) /\ "inf" \in K
    <3>. HIDE DEF da, db
    <3>. QED
      BY <1>1, <1>2, <1>5 DEF IsNan, Kinds
  <2>. DEFINE s == IF da.kind = "inf" THEN da.sign ELSE db.sign
  <2>2. R = IF da.kind = db.kind /\ da.sign # db.sign THEN Outcome(QNAN(REF), {"invalid"})
            ELSE Outcome(inf(REF, s), {})
    BY <2>1 DEF fp_add
  <2>3. s \in 0..1
    BY <1>1
  <2>. QED
    BY <1>5, <2>2, <2>3, SpecialAnswers
<1>. QED
  BY <1>3, <1>4, <1>5

LEMMA MulSpecial ==
    ASSUME NEW a \in Codes(REF), NEW b \in Codes(REF), ~(IsNumber(a) /\ IsNumber(b)), NEW rm
    PROVE  Specially(fp_mul(a, b, rm, REF), {Decode(REF, a).kind, Decode(REF, b).kind})
<1>. DEFINE da == Decode(REF, a)
            db == Decode(REF, b)
            K == {da.kind, db.kind}
            s == (da.sign + db.sign) % 2
            R == fp_mul(a, b, rm, REF)
<1>1. da.kind \in Kinds /\ db.kind \in Kinds /\ da.sign \in 0..1 /\ db.sign \in 0..1
  BY KindIs
<1>2. da.kind \notin {"zero", "fin"} \/ db.kind \notin {"zero", "fin"}
  BY DEF IsNumber
<1>3. CASE K \intersect {"nan", "snan"} # {}
  <2>0. K \intersect {"nan", "snan"} # {} /\ K # {"inf", "zero"} /\ K \notin {{"inf"}, {"inf", "fin"}}
        /\ K \notin {{"zero"}, {"zero", "fin"}} /\ K # {"fin"}
    BY <1>3
  <2>1. R = Outcome(QNAN(REF), If("invalid", "snan" \in K))
    BY <2>0 DEF fp_mul
  <2>. HIDE DEF R
  <2>2. CASE "snan" \in K
    BY <2>1, <2>2, SpecialAnswers DEF If, R
  <2>3. CASE "snan" \notin K
    <3>1. "nan" \in K
      BY <1>3, <2>3
    <3>2. R = Outcome(QNAN(REF), {})
      BY <2>1, <2>3 DEF If
    <3>. QED
      BY <2>3, <3>1, <3>2, SpecialAnswers DEF R
  <2>. QED
    BY <2>2, <2>3
<1>4. CASE K \intersect {"nan", "snan"} = {}
  <2>1. "nan" \notin K /\ "snan" \notin K
    BY <1>4
  <2>2. K = {"inf", "zero"} \/ K \in {{"inf"}, {"inf", "fin"}}
    <3>. HIDE DEF da, db
    <3>. QED
      BY <1>1, <1>2, <2>1 DEF Kinds
  <2>3. CASE K = {"inf", "zero"}
    <3>1. K \notin {{"inf"}, {"inf", "fin"}} /\ K \notin {{"zero"}, {"zero", "fin"}} /\ K # {"fin"}
      BY <2>3
    <3>2. R = Outcome(QNAN(REF), {"invalid"})
      BY <1>4, <2>3, <3>1 DEF fp_mul
    <3>. QED
      BY <3>2, SpecialAnswers
  <2>4. CASE K \in {{"inf"}, {"inf", "fin"}}
    <3>1. K # {"inf", "zero"} /\ K \notin {{"zero"}, {"zero", "fin"}} /\ K # {"fin"}
      BY <2>4
    <3>2. R = Outcome(inf(REF, s), {})
      BY <1>4, <2>4, <3>1 DEF fp_mul
    <3>3. s \in 0..1
      BY <1>1
    <3>. QED
      BY <2>1, <3>2, <3>3, SpecialAnswers
  <2>. QED
    BY <2>2, <2>3, <2>4
<1>. QED
  BY <1>3, <1>4

LEMMA FmaSpecial ==
    ASSUME NEW a \in Codes(REF), NEW b \in Codes(REF), NEW c \in Codes(REF),
           ~(IsNumber(a) /\ IsNumber(b) /\ IsNumber(c)), NEW rm
    PROVE  Specially(fp_fma(a, b, c, rm, REF),
                     {Decode(REF, a).kind, Decode(REF, b).kind, Decode(REF, c).kind})
<1>. DEFINE da == Decode(REF, a)
            db == Decode(REF, b)
            dc == Decode(REF, c)
            K == {da.kind, db.kind, dc.kind}
            ps == (da.sign + db.sign) % 2
            inv == {da.kind, db.kind} = {"inf", "zero"}
            R == fp_fma(a, b, c, rm, REF)
<1>1. da.kind \in Kinds /\ db.kind \in Kinds /\ dc.kind \in Kinds
      /\ da.sign \in 0..1 /\ db.sign \in 0..1 /\ dc.sign \in 0..1
  BY KindIs
<1>2. da.kind \notin {"zero", "fin"} \/ db.kind \notin {"zero", "fin"} \/ dc.kind \notin {"zero", "fin"}
  BY DEF IsNumber
<1>3. CASE K \intersect {"nan", "snan"} # {}
  <2>1. R = Outcome(QNAN(REF), If("invalid", "snan" \in K \/ inv))
    BY <1>3 DEF fp_fma
  <2>. HIDE DEF R
  <2>2. CASE "snan" \in K \/ inv
    BY <2>1, <2>2, SpecialAnswers DEF If, R
  <2>3. CASE ~("snan" \in K \/ inv)
    <3>1. "nan" \in K
      BY <1>3, <2>3
    <3>2. R = Outcome(QNAN(REF), {})
      BY <2>1, <2>3 DEF If
    <3>. QED
      BY <2>3, <3>1, <3>2, SpecialAnswers DEF R
  <2>. QED
    BY <2>2, <2>3
<1>4. CASE K \intersect {"nan", "snan"} = {}
  <2>1. "nan" \notin K /\ "snan" \notin K
    BY <1>4
  <2>2. "inf" \in {da.kind, db.kind} \/ dc.kind = "inf"
    <3>. HIDE DEF da, db, dc
    <3>. QED
      BY <1>1, <1>2, <2>1 DEF Kinds
  <2>3. R = IF inv THEN Outcome(QNAN(REF), {"invalid"})
            ELSE IF "inf" \in {da.kind, db.kind}
            THEN IF dc.kind = "inf" /\ dc.sign # ps THEN Outcome(QNAN(REF), {"invalid"})
                                                    ELSE Outcome(inf(REF, ps), {})
            ELSE Outcome(inf(REF, dc.sign), {})
    BY <1>4, <2>2 DEF fp_fma
  <2>4. ps \in 0..1 /\ dc.sign \in 0..1
    BY <1>1
  <2>5. R = Outcome(QNAN(REF), {"invalid"}) \/ R = Outcome(inf(REF, ps), {}) \/ R = Outcome(inf(REF, dc.sign), {})
    BY <2>3, Zenon
  <2>. HIDE DEF R, ps
  <2>. QED
    BY <2>1, <2>4, <2>5, SpecialAnswers DEF R
<1>. QED
  BY <1>3, <1>4

\* In every format, for every pair or triple of operands and every rounding mode, the
\* reference model rounds the exact result once to the number IEEE-754 prescribes,
\* keeps the sign of what rounds to zero and raises the flags that say what it did;
\* only an invalid operation or a NaN operand gives a NaN.
THEOREM RefAlwaysRoundsOnce == FpSpec => []FpRefRoundsOnce
<1>1. Callable(query) /\ Answered => FpRefRoundsOnce
  <2>. DEFINE a == query.a
              b == query.b
              c == query.c
              rm == query.rm
              kinds == {Decode(REF, x).kind : x \in Operands2}
  <2>1. SUFFICES ASSUME Callable(query), Answered, ExhaustiveFp
                 PROVE  IF OnNumbers THEN RoundsTo(Exact, rm, Got) ELSE Specially(Got, kinds)
    BY DEF FpRefRoundsOnce, RoundsTo, Specially
  <2>2. query.k \in {"add", "mul", "fma"} /\ query.fmt = REF /\ answer # <<>>
    BY <2>1 DEF ExhaustiveFp, Asked
  <2>3. a \in Codes(REF) /\ b \in Codes(REF) /\ rm \in RoundingModes /\ (query.k = "fma" => c \in Codes(REF))
    BY <2>1, <2>2 DEF Callable
  <2>4. /\ query.k = "add" => Got = fp_add(a, b, rm, REF)
        /\ query.k = "mul" => Got = fp_mul(a, b, rm, REF)
        /\ query.k = "fma" => Got = fp_fma(a, b, c, rm, REF)
    <3>1. /\ query.k = "add" => answer = <<fp_add(a, b, rm, REF)>>
          /\ query.k = "mul" => answer = <<fp_mul(a, b, rm, REF)>>
          /\ query.k = "fma" => answer = <<fp_fma(a, b, c, rm, REF)>>
      BY <2>1, <2>2 DEF Answered
    <3>. QED
      BY <3>1 DEF Got
  <2>5. Product = ProductOf(a, b)
    BY DEF Product, ProductOf
  <2>6. CASE query.k = "add"
    <3>1. Operands2 = {a, b} /\ kinds = {Decode(REF, a).kind, Decode(REF, b).kind}
      BY <2>6 DEF Operands2
    <3>2. OnNumbers <=> IsNumber(a) /\ IsNumber(b)
      BY <3>1 DEF OnNumbers, IsNumber
    <3>3. Exact = FpValue(REF, a) + FpValue(REF, b)
      BY <2>6 DEF Exact
    <3>4. CASE IsNumber(a) /\ IsNumber(b)
      <4>1. RoundsTo(FpValue(REF, a) + FpValue(REF, b), rm, fp_add(a, b, rm, REF))
        BY <2>3, <3>4, AddRounds
      <4>. QED
        BY <2>4, <2>6, <3>2, <3>3, <3>4, <4>1
    <3>5. CASE ~(IsNumber(a) /\ IsNumber(b))
      <4>1. Specially(fp_add(a, b, rm, REF), kinds)
        BY <2>3, <3>1, <3>5, AddSpecial
      <4>. QED
        BY <2>4, <2>6, <3>2, <3>5, <4>1
    <3>. QED
      BY <3>4, <3>5
  <2>7. CASE query.k = "mul"
    <3>1. Operands2 = {a, b} /\ kinds = {Decode(REF, a).kind, Decode(REF, b).kind}
      BY <2>7 DEF Operands2
    <3>2. OnNumbers <=> IsNumber(a) /\ IsNumber(b)
      BY <3>1 DEF OnNumbers, IsNumber
    <3>3. Exact = ProductOf(a, b)
      BY <2>5, <2>7 DEF Exact
    <3>4. CASE IsNumber(a) /\ IsNumber(b)
      <4>1. RoundsTo(ProductOf(a, b), rm, fp_mul(a, b, rm, REF))
        BY <2>3, <3>4, MulRounds
      <4>. QED
        BY <2>4, <2>7, <3>2, <3>3, <3>4, <4>1
    <3>5. CASE ~(IsNumber(a) /\ IsNumber(b))
      <4>1. Specially(fp_mul(a, b, rm, REF), kinds)
        BY <2>3, <3>1, <3>5, MulSpecial
      <4>. QED
        BY <2>4, <2>7, <3>2, <3>5, <4>1
    <3>. QED
      BY <3>4, <3>5
  <2>8. CASE query.k = "fma"
    <3>1. Operands2 = {a, b, c} /\ kinds = {Decode(REF, a).kind, Decode(REF, b).kind, Decode(REF, c).kind}
      BY <2>8 DEF Operands2
    <3>2. OnNumbers <=> IsNumber(a) /\ IsNumber(b) /\ IsNumber(c)
      BY <3>1 DEF OnNumbers, IsNumber
    <3>3. Exact = ProductOf(a, b) + FpValue(REF, c)
      BY <2>5, <2>8 DEF Exact
    <3>4. CASE IsNumber(a) /\ IsNumber(b) /\ IsNumber(c)
      <4>1. RoundsTo(ProductOf(a, b) + FpValue(REF, c), rm, fp_fma(a, b, c, rm, REF))
        BY <2>3, <2>8, <3>4, FmaRounds
      <4>. QED
        BY <2>4, <2>8, <3>2, <3>3, <3>4, <4>1
    <3>5. CASE ~(IsNumber(a) /\ IsNumber(b) /\ IsNumber(c))
      <4>1. Specially(fp_fma(a, b, c, rm, REF), kinds)
        BY <2>3, <2>8, <3>1, <3>5, FmaSpecial
      <4>. QED
        BY <2>4, <2>8, <3>2, <3>5, <4>1
    <3>. QED
      BY <3>4, <3>5
  <2>. QED
    BY <2>2, <2>6, <2>7, <2>8
<1>. QED
  BY <1>1, FpAnswered, PTL

-----------------------------------------------------------------------------
(* The compiler's FP8 numbers. *)

LEMMA PowLiterals ==
    /\ 2 ^ 0 = 1 /\ 2 ^ 1 = 2 /\ 2 ^ 2 = 4 /\ 2 ^ 3 = 8 /\ 2 ^ 4 = 16 /\ 2 ^ 5 = 32 /\ 2 ^ 6 = 64 /\ 2 ^ 7 = 128
    /\ 2 ^ 8 = 256 /\ 2 ^ 9 = 512 /\ 2 ^ 10 = 1024 /\ 2 ^ 14 = 16384 /\ 2 ^ 15 = 32768 /\ 2 ^ 20 = 1048576
    /\ 2 ^ 21 = 2097152 /\ 2 ^ 23 = 8388608 /\ 2 ^ 24 = 16777216
  OBVIOUS

\* A byte without its sign is an index into the numbers of E4M3.
LEMMA Fp8FloatIs ==
    ASSUME NEW s \in 0..1, NEW j \in 0..127
    PROVE  fp8_to_float(s * 128 + j) = Signed(s, Weight(8, j)) /\ Weight(8, j) \in Nat
<1>. DEFINE b == s * 128 + j
            e == (b \div 8) % 16
            m == b % 8
            q == j \div 8
            r == j % 8
<1>1. e = q /\ m = r /\ q \in 0..15 /\ r \in 0..7 /\ j = 8 * q + r /\ (b >= 128 <=> s = 1)
  OBVIOUS
<1>2. fp8_to_float(b) = IF s = 1 THEN -(IF q = 0 THEN r ELSE (8 + r) * 2 ^ (q - 1))
                                 ELSE IF q = 0 THEN r ELSE (8 + r) * 2 ^ (q - 1)
  BY <1>1 DEF fp8_to_float
<1>3. Weight(8, j) = IF q = 0 THEN r ELSE (8 + r) * 2 ^ (q - 1)
  BY <1>1 DEF Weight
<1>4. Weight(8, j) \in Nat
  <2>1. q # 0 => q - 1 \in Nat
    BY <1>1
  <2>2. q # 0 => 2 ^ (q - 1) \in Nat
    BY <2>1, PowNat
  <2>. HIDE DEF q, r
  <2>. QED
    BY <1>1, <1>3, <2>2
<1>. QED
  BY <1>2, <1>3, <1>4 DEF Signed

\* round() to a multiple of 2^shift.
LEMMA NearestIs ==
    ASSUME NEW a \in Nat, NEW n \in Nat
    PROVE  /\ Nearest(a, n) \in Nat
           /\ 2 * (Nearest(a, n) * 2 ^ n) <= 2 * a + 2 ^ n
           /\ 2 * a <= 2 * (Nearest(a, n) * 2 ^ n) + 2 ^ n
           /\ \A c \in Nat : AbsVal(a - Nearest(a, n) * 2 ^ n) <= AbsVal(a - c * 2 ^ n)
<1>. DEFINE w == 2 ^ n
            q == a \div w
            r == a % w
            N == Nearest(a, n)
<1>1. w \in Nat \ {0}
  BY PowPos
<1>2. N = IF 2 * r > w \/ (2 * r = w /\ q % 2 = 1) THEN q + 1 ELSE q
  BY DEF Nearest
<1>. HIDE DEF w, N
<1>3. q \in Nat /\ r \in 0 .. w - 1 /\ a = w * q + r
  BY <1>1, DivMod
<1>. HIDE DEF q, r
<1>4. N \in Nat /\ 2 * (N * w) <= 2 * a + w /\ 2 * a <= 2 * (N * w) + w
  <2>1. (q + 1) * w = w * q + w /\ q * w = w * q /\ w * q \in Nat
    BY <1>1, <1>3
  <2>2. (N = q + 1 /\ 2 * r >= w) \/ (N = q /\ 2 * r <= w)
    BY <1>1, <1>2, <1>3
  <2>. QED
    BY <1>1, <1>3, <2>1, <2>2
<1>5. ASSUME NEW c \in Nat PROVE AbsVal(a - N * w) <= AbsVal(a - c * w)
  <2>1. CASE c = N
    <3>1. a - N * w \in Int
      BY <1>1, <1>4
    <3>2. AbsVal(a - N * w) \in Int
      BY <3>1 DEF AbsVal
    <3>. QED
      BY <2>1, <3>2
  <2>2. CASE c < N
    <3>1. (c + 1) * w <= N * w /\ (c + 1) * w = c * w + w
      BY <1>1, <1>4, <2>2, ProductMono
    <3>. DEFINE x == c * w
                y == N * w
    <3>2. x \in Nat /\ y \in Nat
      BY <1>1, <1>4
    <3>3. x + w <= y /\ 2 * y <= 2 * a + w /\ 2 * a <= 2 * y + w
      BY <1>4, <3>1
    <3>. HIDE DEF x, y
    <3>4. AbsVal(a - y) <= AbsVal(a - x)
      BY <1>1, <3>2, <3>3 DEF AbsVal
    <3>. QED
      BY <3>4 DEF x, y
  <2>3. CASE N < c
    <3>1. (N + 1) * w <= c * w /\ (N + 1) * w = N * w + w
      BY <1>1, <1>4, <2>3, ProductMono
    <3>. DEFINE x == c * w
                y == N * w
    <3>2. x \in Nat /\ y \in Nat
      BY <1>1, <1>4
    <3>3. y + w <= x /\ 2 * y <= 2 * a + w /\ 2 * a <= 2 * y + w
      BY <1>4, <3>1
    <3>. HIDE DEF x, y
    <3>4. AbsVal(a - y) <= AbsVal(a - x)
      BY <1>1, <3>2, <3>3 DEF AbsVal
    <3>. QED
      BY <3>4 DEF x, y
  <2>. QED
    BY <1>4, <2>1, <2>2, <2>3
<1>. QED
  BY <1>4, <1>5 DEF w, N

LEMMA LargestIs ==
    FP8_LARGEST \in Nat /\ FP8_LARGEST >= 64 /\ FP8_LARGEST < 2 ^ 21 /\ FP8_LARGEST = 112 * 2 ^ 14
  BY SMT DEF FP8_LARGEST

\* float_to_fp8 keeps the sign, and its index is the nearest one to the magnitude.
LEMMA Fp8CodeIs ==
    ASSUME NEW x \in Int, AbsVal(x) \in 8 .. FP8_LARGEST
    PROVE  \E J \in 0..126 :
              /\ float_to_fp8(x) = SignOf(x) * 128 + J
              /\ \A j \in 0..127 : AbsVal(AbsVal(x) - 8 * Weight(8, J)) <= AbsVal(AbsVal(x) - 8 * Weight(8, j))
<1>. DEFINE a == LET y == IF x < 0 THEN -x ELSE x IN IF y > FP8_LARGEST THEN FP8_LARGEST ELSE y
            K == CHOOSE k \in 3..20 : 2 ^ k <= a /\ a < 2 ^ (k + 1)
            e == K - 12
            m == Nearest(a, e + 9) - 8
            e1 == IF m = 8 THEN e + 1 ELSE e
            m1 == IF m = 8 THEN 0 ELSE m
            sign == IF x < 0 THEN 128 ELSE 0
            F == float_to_fp8(x)
<1>0. FP8_LARGEST \in Nat /\ FP8_LARGEST >= 8 /\ FP8_LARGEST < 2 ^ 21 /\ FP8_LARGEST = 112 * 2 ^ 14
  BY LargestIs
<1>1. a = AbsVal(x) /\ a \in 8 .. FP8_LARGEST /\ sign = SignOf(x) * 128 /\ a \in Nat \ {0} /\ a <= FP8_LARGEST
  BY <1>0 DEF AbsVal, SignOf
<1>2. K \in 3..20 /\ 2 ^ K <= a /\ a < 2 ^ (K + 1)
  <2>. HIDE DEF a
  <2>. DEFINE L == BitLength(a)
  <2>1. L \in Nat \ {0} /\ 2 ^ (L - 1) <= a /\ a < 2 ^ L
    BY <1>1, BitLengthIs
  <2>. HIDE DEF L
  <2>. DEFINE k == L - 1
  <2>2. k \in Nat /\ 2 ^ k <= a /\ a < 2 ^ (k + 1) /\ k + 1 = L
    <3>1. k + 1 = L
      BY <2>1
    <3>. QED
      BY <2>1, <3>1
  <2>. HIDE DEF k
  <2>3. 2 ^ (k + 1) \in Nat /\ 2 ^ k \in Nat
    BY <2>2, PowNat
  <2>4. k >= 3
    <3>1. L <= 3 => 2 ^ L <= 2 ^ 3
      BY <2>1, PowMono
    <3>2. 2 ^ L \in Nat
      BY <2>1, PowNat
    <3>3. ~(L <= 3)
      BY <1>1, <2>1, <3>1, <3>2, PowLiterals
    <3>. QED
      BY <2>1, <2>2, <3>3
  <2>5. k <= 20
    <3>1. 21 <= k => 2 ^ 21 <= 2 ^ k
      BY <2>2, PowMono
    <3>. QED
      BY <1>0, <1>1, <2>2, <2>3, <3>1
  <2>6. \E i \in 3..20 : 2 ^ i <= a /\ a < 2 ^ (i + 1)
    <3>1. k \in 3..20
      BY <2>2, <2>4, <2>5
    <3>. QED
      BY <2>2, <3>1, Zenon
  <2>. QED
    BY <2>6, Zenon
<1>3. F = IF K < 6 THEN sign + Nearest(a, 3)
          ELSE IF e1 > 8 \/ (e1 = 8 /\ m1 = 7) THEN sign + 126 ELSE sign + (e1 + 7) * 8 + m1
  <2>1. ~(a < 8) /\ a >= 8 /\ (e < -6 <=> K < 6)
    <3>. HIDE DEF a, K
    <3>. QED
      BY <1>1, <1>2
  <2>2. CASE K < 6
    BY <2>1, <2>2 DEF float_to_fp8
  <2>3. CASE ~(K < 6)
    <3>1. ~(a < 8) /\ ~(a >= 8 /\ e < -6)
      BY <2>1, <2>3
    <3>2. F = IF e1 > 8 \/ (e1 = 8 /\ m1 = 7) THEN sign + 126 ELSE sign + (e1 + 7) * 8 + m1
      BY <3>1 DEF float_to_fp8
    <3>. QED
      BY <2>3, <3>2
  <2>. QED
    BY <2>2, <2>3
<1>. HIDE DEF a, K, F, sign, e, m, e1, m1
<1>4. \A j \in 0..127 : Weight(8, j) \in Nat
  BY Fp8FloatIs
<1>5. CASE K < 6
  <2>. DEFINE J == Nearest(a, 3)
  <2>1. a < 64
    <3>. DEFINE k == K + 1
    <3>1. k \in Nat /\ k <= 6 /\ a < 2 ^ k
      BY <1>2, <1>5
    <3>. HIDE DEF k
    <3>2. 2 ^ k <= 2 ^ 6 /\ 2 ^ k \in Nat
      BY <3>1, PowMono, PowNat
    <3>. QED
      BY <1>1, <3>1, <3>2, PowLiterals
  <2>2. J \in Nat /\ 2 * (J * 2 ^ 3) <= 2 * a + 2 ^ 3 /\ \A c \in Nat : AbsVal(a - J * 2 ^ 3) <= AbsVal(a - c * 2 ^ 3)
    BY <1>1, NearestIs
  <2>3. F = sign + J
    BY <1>3, <1>5
  <2>. HIDE DEF J
  <2>4. J \in 0..8 /\ (\A c \in Nat : AbsVal(a - 8 * J) <= AbsVal(a - 8 * c))
    BY <1>1, <2>1, <2>2, PowLiterals
  <2>5. Weight(8, J) = J
    <3>. DEFINE P == 8
                z == 0
    <3>1. P \in Nat \ {0} /\ z \in Nat /\ z = 0 /\ J \in 0 .. 2 * P
      BY <2>4
    <3>. HIDE DEF P, z
    <3>2. Weight(P, z * P + J) = J * 2 ^ z
      BY <3>1, WeightAt
    <3>3. z * P + J = J /\ J * 2 ^ z = J
      BY <2>4, <3>1, PowZero
    <3>. QED
      BY <3>2, <3>3 DEF P
  <2>6. \A j \in 0..127 : AbsVal(a - 8 * Weight(8, J)) <= AbsVal(a - 8 * Weight(8, j))
    BY <1>4, <2>4, <2>5
  <2>7. float_to_fp8(x) = SignOf(x) * 128 + J /\ J \in 0..126
    BY <1>1, <2>3, <2>4 DEF F
  <2>. QED
    BY <1>1, <2>6, <2>7
<1>6. CASE ~(K < 6)
  <2>. DEFINE n == K - 3
              l == K - 6
              w == 2 ^ n
              v == 2 ^ l
              q == Nearest(a, n)
              J == l * 8 + q
  <2>1. n \in Nat /\ l \in 0..14 /\ n = l + 3 /\ K + 1 = n + 4 /\ e + 9 = n
    BY <1>2, <1>6 DEF e
  <2>2. q \in Nat /\ 2 * (q * w) <= 2 * a + w /\ 2 * a <= 2 * (q * w) + w
        /\ \A c \in Nat : AbsVal(a - q * w) <= AbsVal(a - c * w)
    BY <1>1, <2>1, NearestIs
  <2>3. m = q - 8
    BY <2>1 DEF m
  <2>4. v \in Nat \ {0} /\ w = 8 * v /\ 2 ^ K = 8 * w /\ 2 ^ (K + 1) = 16 * w
    <3>1. 2 ^ (l + 3) = 2 ^ l * 2 ^ 3 /\ 2 ^ l \in Nat \ {0} /\ 2 ^ n \in Nat
      <4>1. l \in Nat /\ 3 \in Nat /\ n \in Nat
        BY <2>1
      <4>. HIDE DEF l, n
      <4>. QED
        BY <4>1, PowAdd, PowPos
    <3>2. 2 ^ (n + 3) = 2 ^ n * 2 ^ 3 /\ 2 ^ (n + 4) = 2 ^ n * 2 ^ 4
      BY <2>1, PowAdd
    <3>3. n + 3 = K
      BY <1>2
    <3>. HIDE DEF l, n
    <3>4. w = v * 2 ^ 3 /\ 2 ^ K = w * 2 ^ 3 /\ 2 ^ (K + 1) = w * 2 ^ 4
      BY <2>1, <3>1, <3>2, <3>3
    <3>. HIDE DEF v, w
    <3>5. v \in Nat \ {0} /\ w \in Nat
      BY <3>1 DEF v, w
    <3>. QED
      BY <3>4, <3>5, PowLiterals
  <2>5. l = 14 => FP8_LARGEST = 112 * v
    BY <1>0
  <2>. HIDE DEF n, l, w, v, q
  <2>6. 8 * w <= a /\ a < 16 * w /\ w \in Nat \ {0}
    BY <1>2, <2>4
  <2>7. q \in 8..16
    <3>1. q <= 7 => q * w <= 7 * w
      BY <2>2, <2>6, ProductMono
    <3>2. 17 <= q => 17 * w <= q * w
      BY <2>2, <2>6, ProductMono
    <3>. QED
      BY <1>1, <2>2, <2>6, <3>1, <3>2
  <2>8. l = 14 => q <= 14
    <3>1. 15 <= q => 15 * w <= q * w
      BY <2>2, <2>6, ProductMono
    <3>. QED
      BY <1>0, <1>1, <2>2, <2>4, <2>5, <2>6, <3>1
  <2>9. F = sign + J /\ J \in 0..126
    <3>1. e = l - 6 /\ e \in Int
      BY <1>2 DEF l, e
    <3>. QED
      BY <1>1, <1>3, <1>6, <2>1, <2>3, <2>7, <2>8, <3>1 DEF e1, m1
  <2>10. Weight(8, J) = q * v /\ 8 * (q * v) = q * w
    <3>1. Weight(8, l * 8 + q) = q * 2 ^ l
      BY <2>1, <2>7, WeightAt
    <3>2. 8 * (q * v) = q * (8 * v)
      BY <2>4, <2>7
    <3>. QED
      BY <2>4, <3>1, <3>2 DEF v
  <2>11. ASSUME NEW j \in 0..127
         PROVE  AbsVal(a - q * w) <= AbsVal(a - 8 * Weight(8, j))
    <3>1. CASE j < (l + 1) * 8
      <4>1. Weight(8, l * 8 + 8) = 8 * 2 ^ l
        BY <2>1, WeightAt
      <4>2. Weight(8, j) < Weight(8, (l + 1) * 8)
        <5>. DEFINE P == 8
                    y == (l + 1) * 8
        <5>1. P \in Nat \ {0} /\ y \in Nat /\ j \in Nat /\ j < y
          BY <2>1, <3>1
        <5>. HIDE DEF P, y
        <5>2. Weight(P, j) < Weight(P, y)
          BY <5>1, WeightMono
        <5>. QED
          BY <5>2 DEF P, y
      <4>3. (l + 1) * 8 = l * 8 + 8
        BY <2>1
      <4>4. Weight(8, j) < w /\ Weight(8, j) \in Nat
        BY <1>4, <2>4, <4>1, <4>2, <4>3 DEF v
      <4>5. AbsVal(a - q * w) <= AbsVal(a - 8 * w)
        BY <2>2
      <4>6. AbsVal(a - 8 * w) <= AbsVal(a - 8 * Weight(8, j))
        BY <1>1, <2>6, <4>4 DEF AbsVal
      <4>7. a - q * w \in Int /\ a - 8 * w \in Int /\ a - 8 * Weight(8, j) \in Int
        BY <1>1, <2>2, <2>6, <4>4
      <4>8. AbsVal(a - q * w) \in Int /\ AbsVal(a - 8 * w) \in Int /\ AbsVal(a - 8 * Weight(8, j)) \in Int
        BY <4>7 DEF AbsVal
      <4>. QED
        BY <4>5, <4>6, <4>8
    <3>2. CASE ~(j < (l + 1) * 8)
      <4>1. PICK L \in Nat, k \in 0 .. 2 * 8 - 1 : (L = 0 \/ k >= 8) /\ j = L * 8 + k /\ Weight(8, j) = k * 2 ^ L
        <5>. DEFINE P == 8
        <5>1. P \in Nat \ {0} /\ j \in Nat
          OBVIOUS
        <5>. HIDE DEF P
        <5>2. \E L, k : InBinade(P, j, L, k)
          BY <5>1, IndexForm
        <5>3. \E L \in Nat, k \in 0 .. 2 * P - 1 : (L = 0 \/ k >= P) /\ j = L * P + k /\ Weight(P, j) = k * 2 ^ L
          BY <5>2, Zenon DEF InBinade
        <5>. QED
          BY <5>3 DEF P
      <4>2. L >= l
        BY <2>1, <3>2, <4>1
      <4>. DEFINE d == L - l
                  p == 2 ^ d
      <4>3. d \in Int /\ d >= 0 /\ L = d + l
        BY <2>1, <4>1, <4>2
      <4>4. 2 ^ L = p * v /\ p \in Nat
        <5>1. l \in Int /\ l >= 0 /\ L \in Int
          BY <2>1, <4>1
        <5>. HIDE DEF d
        <5>2. 2 ^ L = 2 ^ d * 2 ^ l /\ 2 ^ d \in Nat
          BY <4>3, <5>1, PowSum
        <5>. QED
          BY <5>2 DEF v
      <4>. HIDE DEF p
      <4>5. 8 * (k * (p * v)) = (k * p) * (8 * v) /\ k * p \in Nat
        BY <2>4, <4>1, <4>4
      <4>6. 8 * Weight(8, j) = (k * p) * w
        BY <2>4, <4>1, <4>4, <4>5
      <4>. DEFINE c == k * p
      <4>7. c \in Nat /\ 8 * Weight(8, j) = c * w
        BY <4>5, <4>6
      <4>. HIDE DEF c
      <4>. QED
        BY <2>2, <4>7
    <3>. QED
      BY <3>1, <3>2
  <2>12. \A j \in 0..127 : AbsVal(a - 8 * Weight(8, J)) <= AbsVal(a - 8 * Weight(8, j))
    BY <2>10, <2>11
  <2>. HIDE DEF J
  <2>13. float_to_fp8(x) = SignOf(x) * 128 + J /\ J \in 0..126
    BY <1>1, <2>9 DEF F
  <2>. QED
    BY <1>1, <2>12, <2>13
<1>. QED
  BY <1>5, <1>6

\* Every number, in steps of 2^-12, from the smallest subnormal to the largest FP8
\* number is written as the nearest FP8 number.
THEOREM Fp8AlwaysRoundsToNearest == FpSpec => []Fp8RoundsToNearest
<1>1. Callable(query) /\ Answered => Fp8RoundsToNearest
  <2>. DEFINE x == query.x
              a == AbsVal(x)
  <2>1. SUFFICES ASSUME Callable(query), Answered, Asked({"fp8round"}) PROVE Fp8RoundsToNearest
    BY DEF Fp8RoundsToNearest
  <2>2. x \in Int /\ Got = float_to_fp8(x)
    <3>1. query.k = "fp8round" /\ answer # <<>>
      BY <2>1 DEF Asked
    <3>2. answer = <<float_to_fp8(x)>>
      BY <2>1, <3>1 DEF Answered
    <3>. QED
      BY <2>1, <3>1, <3>2 DEF Callable, Got
  <2>. SUFFICES ASSUME a \in 8 .. FP8_LARGEST, NEW b \in 0..255
                PROVE  AbsVal(x - 8 * fp8_to_float(Got)) <= AbsVal(x - 8 * fp8_to_float(b))
    BY DEF Fp8RoundsToNearest
  <2>. HIDE DEF x
  <2>3. PICK J \in 0..126 :
              /\ Got = SignOf(x) * 128 + J
              /\ \A j \in 0..127 : AbsVal(a - 8 * Weight(8, J)) <= AbsVal(a - 8 * Weight(8, j))
    BY <2>2, Fp8CodeIs
  <2>. DEFINE s == b \div 128
              j == b % 128
              W == Weight(8, J)
              V == Weight(8, j)
              t == SignOf(x)
  <2>4. s \in 0..1 /\ j \in 0..127 /\ b = s * 128 + j
    OBVIOUS
  <2>5. t \in 0..1 /\ x = Signed(t, a) /\ a \in Nat
    BY <2>2 DEF SignOf, Signed, AbsVal
  <2>6. AbsVal(a - 8 * W) <= AbsVal(a - 8 * V) /\ AbsVal(a - 8 * W) <= AbsVal(a - 8 * Weight(8, 0))
    BY <2>3, <2>4
  <2>. HIDE DEF s, j, t
  <2>7. fp8_to_float(b) = Signed(s, V) /\ V \in Nat /\ fp8_to_float(Got) = Signed(t, W) /\ W \in Nat
    BY <2>3, <2>4, <2>5, Fp8FloatIs DEF t
  <2>8. Weight(8, 0) = 0
    BY DEF Weight
  <2>. HIDE DEF a, W, V
  <2>9. AbsVal(a - 8 * W) <= a
    BY <2>5, <2>6, <2>7, <2>8 DEF AbsVal
  <2>10. AbsVal(a - 8 * W) <= AbsVal(a - 8 * V)
    BY <2>6
  <2>11. AbsVal(Signed(t, a) - 8 * Signed(t, W)) <= AbsVal(Signed(t, a) - 8 * Signed(s, V))
    <3>1. CASE t = s
      BY <2>4, <2>5, <2>7, <2>10, <3>1 DEF AbsVal, Signed
    <3>2. CASE t # s
      BY <2>4, <2>5, <2>7, <2>9, <3>2 DEF AbsVal, Signed
    <3>. QED
      BY <3>1, <3>2
  <2>. QED
    BY <2>5, <2>7, <2>11
<1>. QED
  BY <1>1, FpAnswered, PTL

-----------------------------------------------------------------------------
(* The tensor array's FP8 product. *)

LEMMA Fp16Is ==
    /\ FP16.EXP = 5 /\ FP16.MANT = 10 /\ FP16.BIAS = 15 /\ FP16.EMAX_FIELD = 31
    /\ FP16.WIDTH = 16 /\ FP16.MIN_SCALE = -24
<1>1. 5 - 1 = 4
  OBVIOUS
<1>. QED
  BY <1>1, PowLiterals DEF FP16, FpFormat

LEMMA E4M3Is ==
    /\ E4M3.EXP = 4 /\ E4M3.MANT = 3 /\ E4M3.BIAS = 7 /\ E4M3.EMAX_FIELD = 15
    /\ E4M3.WIDTH = 8 /\ E4M3.MIN_SCALE = -9
<1>1. 4 - 1 = 3
  OBVIOUS
<1>. QED
  BY <1>1, PowLiterals DEF E4M3, FpFormat

\* The significand the multiplier uses, and the number of the operand's format.
Fp8Mant(v) == (IF v.e = 0 THEN 0 ELSE 8) + v.f
Fp8Number(b, fmt) == IF fmt = 1 THEN Decode(FP16, b * 256) ELSE Decode(E4M3, b)

LEMMA E5M2Operand ==
    ASSUME NEW b \in 0..255
    PROVE  LET v == Fp8(b, 1)
               x == Decode(FP16, b * 256)
           IN  /\ x.sign = v.s /\ v.s \in 0..1 /\ Fp8Mant(v) \in 0..15
               /\ x.mant = Fp8Mant(v) * 2 ^ 7
               /\ x.scale = Exponent(v) - 10 /\ Exponent(v) \in -14..16
<1>. DEFINE v == Fp8(b, 1)
            x == Decode(FP16, b * 256)
            e == (b \div 4) % 32
            f == b % 4
<1>1. v.s = b \div 128 /\ v.e = e /\ v.f = f * 2 /\ v.bias = 15
  BY DEF Fp8
<1>2. e \in 0..31 /\ f \in 0..3 /\ b \div 128 \in 0..1
  OBVIOUS
<1>3. Sign(FP16, b * 256) = b \div 128
  <2>1. Sign(FP16, b * 256) = (b * 256) \div 32768
    BY Fp16Is, PowLiterals DEF Sign
  <2>2. (b * 256) \div 32768 = b \div 128
    BY SMT
  <2>. QED
    BY <2>1, <2>2
<1>4. ExpField(FP16, b * 256) = e
  <2>1. ExpField(FP16, b * 256) = ((b * 256) \div 1024) % 32
    BY Fp16Is, PowLiterals DEF ExpField
  <2>2. (b * 256) \div 1024 = b \div 4
    BY SMT
  <2>. QED
    BY <2>1, <2>2
<1>5. Fraction(FP16, b * 256) = f * 256
  <2>1. Fraction(FP16, b * 256) = (b * 256) % 1024
    BY Fp16Is, PowLiterals DEF Fraction
  <2>2. (b * 256) % 1024 = f * 256
    BY SMT
  <2>. QED
    BY <2>1, <2>2
<1>6. /\ x.sign = Sign(FP16, b * 256)
      /\ x.mant = IF e = 0 THEN f * 256 ELSE f * 256 + 1024
      /\ x.scale = IF e = 0 THEN -24 ELSE e - 15 - 10
  BY <1>4, <1>5, Fp16Is, PowLiterals DEF Decode
<1>7. Fp8Mant(v) = (IF e = 0 THEN 0 ELSE 8) + f * 2
  BY <1>1 DEF Fp8Mant
<1>8. Exponent(v) = (IF e = 0 THEN 1 ELSE e) - 15
  BY <1>1 DEF Exponent
<1>. HIDE DEF e, f, v, x
<1>9. x.mant = Fp8Mant(v) * 128 /\ Fp8Mant(v) \in 0..15
  BY <1>2, <1>6, <1>7
<1>10. x.scale = Exponent(v) - 10 /\ Exponent(v) \in -14..16
  BY <1>2, <1>6, <1>8
<1>. QED
  BY <1>1, <1>2, <1>3, <1>6, <1>9, <1>10, PowLiterals DEF v, x

LEMMA E4M3Operand ==
    ASSUME NEW b \in 0..255
    PROVE  LET v == Fp8(b, 0)
               x == Decode(E4M3, b)
           IN  /\ x.sign = v.s /\ v.s \in 0..1 /\ Fp8Mant(v) \in 0..15
               /\ x.mant = Fp8Mant(v)
               /\ x.scale = Exponent(v) - 3 /\ Exponent(v) \in -14..16
               /\ fp8_to_float(b) = Signed(x.sign, x.mant * 2 ^ (x.scale + 9))
<1>. DEFINE v == Fp8(b, 0)
            x == Decode(E4M3, b)
            e == (b \div 8) % 16
            f == b % 8
<1>1. v.s = b \div 128 /\ v.e = e /\ v.f = f /\ v.bias = 7
  BY DEF Fp8
<1>2. e \in 0..15 /\ f \in 0..7 /\ b \div 128 \in 0..1 /\ (b >= 128 <=> b \div 128 = 1)
  OBVIOUS
<1>3. Sign(E4M3, b) = b \div 128 /\ ExpField(E4M3, b) = e /\ Fraction(E4M3, b) = f
  BY E4M3Is, PowLiterals DEF Sign, ExpField, Fraction
<1>4. /\ x.sign = b \div 128
      /\ x.mant = IF e = 0 THEN f ELSE f + 8
      /\ x.scale = IF e = 0 THEN -9 ELSE e - 7 - 3
  BY <1>3, E4M3Is, PowLiterals DEF Decode
<1>5. Fp8Mant(v) = (IF e = 0 THEN 0 ELSE 8) + f /\ Exponent(v) = (IF e = 0 THEN 1 ELSE e) - 7
  BY <1>1 DEF Fp8Mant, Exponent
<1>6. fp8_to_float(b) = IF b >= 128 THEN -(IF e = 0 THEN f ELSE (8 + f) * 2 ^ (e - 1))
                        ELSE IF e = 0 THEN f ELSE (8 + f) * 2 ^ (e - 1)
  BY DEF fp8_to_float
<1>. HIDE DEF e, f, v, x
<1>7. x.mant = Fp8Mant(v) /\ Fp8Mant(v) \in 0..15 /\ x.scale = Exponent(v) - 3 /\ Exponent(v) \in -14..16
  BY <1>2, <1>4, <1>5
<1>8. x.mant * 2 ^ (x.scale + 9) = IF e = 0 THEN f ELSE (8 + f) * 2 ^ (e - 1)
  <2>1. CASE e = 0
    <3>. DEFINE z == x.scale + 9
    <3>1. z = 0 /\ x.mant = f
      BY <1>4, <2>1
    <3>2. 2 ^ z = 1
      BY <3>1, PowZero
    <3>. HIDE DEF z
    <3>3. x.mant * 2 ^ z = f
      BY <1>2, <3>1, <3>2
    <3>. QED
      BY <2>1, <3>3 DEF z
  <2>2. CASE e # 0
    <3>1. x.scale + 9 = e - 1 /\ x.mant = 8 + f
      BY <1>2, <1>4, <2>2
    <3>. QED
      BY <2>2, <3>1
  <2>. QED
    BY <2>1, <2>2
<1>9. fp8_to_float(b) = Signed(x.sign, x.mant * 2 ^ (x.scale + 9))
  BY <1>2, <1>4, <1>6, <1>8 DEF Signed
<1>. QED
  BY <1>1, <1>2, <1>4, <1>7, <1>9 DEF v, x

\* The bits a format's significand has below the multiplier's.
Fp8Low(fmt) == IF fmt = 1 THEN 7 ELSE 0

LEMMA Fp8Operand ==
    ASSUME NEW b \in 0..255, NEW fmt \in 0..1
    PROVE  LET v == Fp8(b, fmt)
               x == Fp8Number(b, fmt)
               K == Fp8Low(fmt)
           IN  /\ x.sign = v.s /\ v.s \in 0..1 /\ Fp8Mant(v) \in 0..15
               /\ x.mant = Fp8Mant(v) * 2 ^ K
               /\ x.scale = Exponent(v) - 3 - K /\ Exponent(v) \in -14..16
               /\ fmt = 0 => fp8_to_float(b) = Signed(x.sign, x.mant * 2 ^ (x.scale + 9))
<1>. DEFINE v == Fp8(b, fmt)
            x == Fp8Number(b, fmt)
            K == Fp8Low(fmt)
<1>1. CASE fmt = 1
  <2>1. v = Fp8(b, 1) /\ x = Decode(FP16, b * 256) /\ K = 7
    BY <1>1 DEF Fp8Number, Fp8Low
  <2>. DEFINE v1 == Fp8(b, 1)
              x1 == Decode(FP16, b * 256)
  <2>2. /\ x1.sign = v1.s /\ v1.s \in 0..1 /\ Fp8Mant(v1) \in 0..15
        /\ x1.mant = Fp8Mant(v1) * 2 ^ 7
        /\ x1.scale = Exponent(v1) - 10 /\ Exponent(v1) \in -14..16
    BY E5M2Operand
  <2>3. v = v1 /\ x = x1
    BY <2>1
  <2>. HIDE DEF v, x, K, v1, x1
  <2>4. x.mant = Fp8Mant(v) * 2 ^ K /\ x.scale = Exponent(v) - 3 - K
    <3>1. x.mant = Fp8Mant(v) * 2 ^ 7 /\ x.scale = Exponent(v) - 10 /\ Exponent(v) \in Int
      BY <2>2, <2>3
    <3>. QED
      BY <2>1, <3>1
  <2>. QED
    BY <1>1, <2>2, <2>3, <2>4 DEF v, x, K
<1>2. CASE fmt = 0
  <2>1. v = Fp8(b, 0) /\ x = Decode(E4M3, b) /\ K = 0
    BY <1>2 DEF Fp8Number, Fp8Low
  <2>. DEFINE v1 == Fp8(b, 0)
              x1 == Decode(E4M3, b)
  <2>2. /\ x1.sign = v1.s /\ v1.s \in 0..1 /\ Fp8Mant(v1) \in 0..15
        /\ x1.mant = Fp8Mant(v1)
        /\ x1.scale = Exponent(v1) - 3 /\ Exponent(v1) \in -14..16
        /\ fp8_to_float(b) = Signed(x1.sign, x1.mant * 2 ^ (x1.scale + 9))
    BY E4M3Operand
  <2>3. v = v1 /\ x = x1
    BY <2>1
  <2>4. 2 ^ K = 1
    BY <2>1, PowZero
  <2>. HIDE DEF v, x, K, v1, x1
  <2>5. x.mant = Fp8Mant(v) * 2 ^ K /\ x.scale = Exponent(v) - 3 - K
    BY <2>1, <2>2, <2>3, <2>4
  <2>. QED
    BY <1>2, <2>2, <2>3, <2>5 DEF v, x, K
<1>. QED
  BY <1>1, <1>2

\* A product of two significands, its leading bit moved to the place of fp32's.
LEMMA Normalised ==
    ASSUME NEW n \in 1..225
    PROVE  LET p == BitLength(n) - 1
           IN  /\ p \in 0..7
               /\ n * 2 ^ (23 - p) = 2 ^ 23 + ((n * 2 ^ (23 - p)) % 2 ^ 23)
<1>. DEFINE L == BitLength(n)
            p == L - 1
            q == 23 - p
            w == 2 ^ q
            h == 2 ^ p
            T == 2 ^ 23
<1>1. L \in Nat \ {0} /\ 2 ^ (L - 1) <= n /\ n < 2 ^ L
  BY BitLengthIs
<1>. HIDE DEF L
<1>2. L <= 8
  <2>1. 8 <= L - 1 => 2 ^ 8 <= 2 ^ (L - 1)
    <3>. DEFINE k == L - 1
    <3>1. k \in Nat
      BY <1>1
    <3>. HIDE DEF k
    <3>2. 8 <= k => 2 ^ 8 <= 2 ^ k
      BY <3>1, PowMono
    <3>. QED
      BY <3>2 DEF k
  <2>2. 2 ^ (L - 1) \in Nat
    <3>1. L - 1 \in Nat
      BY <1>1
    <3>. QED
      BY <3>1, PowNat
  <2>. QED
    BY <1>1, <2>1, <2>2, PowLiterals
<1>3. p \in 0..7 /\ L = p + 1 /\ q \in Nat /\ q \in Int /\ q >= 0 /\ p \in Int /\ p >= 0 /\ 23 = p + q
  BY <1>1, <1>2
<1>4. h <= n /\ n < 2 * h
  <2>1. 2 ^ (p + 1) = 2 * 2 ^ p
    BY <1>3, PowSucc
  <2>. HIDE DEF p
  <2>. QED
    BY <1>1, <1>3, <2>1
<1>5. T = h * w /\ h \in Nat \ {0} /\ w \in Nat \ {0} /\ T \in Nat \ {0}
  <2>. DEFINE z == 23
  <2>1. z \in Int /\ z = p + q
    BY <1>3
  <2>. HIDE DEF z, p, q
  <2>2. 2 ^ z = 2 ^ p * 2 ^ q /\ 2 ^ p \in Nat \ {0} /\ 2 ^ q \in Nat \ {0} /\ 2 ^ z \in Nat \ {0}
    BY <1>3, <2>1, PowSum
  <2>. QED
    BY <2>2 DEF z
<1>. HIDE DEF h, w, T
<1>6. T <= n * w /\ n * w < 2 * T
  <2>1. h * w <= n * w
    BY <1>4, <1>5, ProductMono
  <2>2. n * w < (2 * h) * w
    <3>. DEFINE y == 2 * h
    <3>1. y \in Nat /\ n < y
      BY <1>4, <1>5
    <3>. HIDE DEF y
    <3>2. n * w < y * w
      BY <1>5, <3>1, StrictProduct
    <3>. QED
      BY <3>2 DEF y
  <2>3. (2 * h) * w = 2 * (h * w)
    BY <1>5
  <2>. QED
    BY <1>5, <2>1, <2>2, <2>3
<1>7. (n * w) % T = n * w - T
  <2>. DEFINE y == n * w
              r == y - T
  <2>1. y \in Nat /\ r \in 0 .. T - 1 /\ y = 1 * T + r
    BY <1>5, <1>6
  <2>. HIDE DEF y, r
  <2>2. y % T = r
    BY <1>5, <2>1, DivUnique
  <2>. QED
    BY <2>2 DEF y, r
<1>8. n * w = T + ((n * w) % T)
  BY <1>5, <1>7
<1>. QED
  BY <1>3, <1>8 DEF p, q, w, T, L

LEMMA Fp8ProductIs ==
    ASSUME NEW a \in 0..255, NEW b \in 0..255, NEW fmt \in 0..1
    PROVE  LET v == Fp8(a, fmt)
               w == Fp8(b, fmt)
               x == Fp8Number(a, fmt)
               y == Fp8Number(b, fmt)
               r == fp8_mul_to_fp32(a, b, fmt)
               n == x.scale + y.scale - (r.e - 150)
           IN  IF v.number /\ w.number /\ x.mant * y.mant # 0
               THEN /\ r.s = (x.sign + y.sign) % 2
                    /\ n \in 0..23 /\ x.mant * y.mant * 2 ^ n = 2 ^ 23 + r.f
               ELSE r = fp32((x.sign + y.sign) % 2, 0, 0)
<1>. DEFINE v == Fp8(a, fmt)
            w == Fp8(b, fmt)
            x == Fp8Number(a, fmt)
            y == Fp8Number(b, fmt)
            r == fp8_mul_to_fp32(a, b, fmt)
            K == Fp8Low(fmt)
            A == Fp8Mant(v)
            B == Fp8Mant(w)
            N == A * B
            p == BitLength(N) - 1
            n == x.scale + y.scale - (r.e - 150)
            s == (x.sign + y.sign) % 2
<1>1. /\ x.sign = v.s /\ v.s \in 0..1 /\ A \in 0..15
      /\ x.mant = A * 2 ^ K /\ x.scale = Exponent(v) - 3 - K /\ Exponent(v) \in -14..16
  BY Fp8Operand
<1>2. /\ y.sign = w.s /\ w.s \in 0..1 /\ B \in 0..15
      /\ y.mant = B * 2 ^ K /\ y.scale = Exponent(w) - 3 - K /\ Exponent(w) \in -14..16
  BY Fp8Operand
<1>3. r = IF ~v.number \/ ~w.number \/ N = 0 THEN fp32((v.s + w.s) % 2, 0, 0)
          ELSE fp32((v.s + w.s) % 2, (Exponent(v) + Exponent(w) - 6 + p + 127) % 256, (N * 2 ^ (23 - p)) % 2 ^ 23)
  BY DEF fp8_mul_to_fp32, Fp8Mant
<1>4. K \in {0, 7} /\ 2 ^ K \in Nat \ {0}
  <2>1. K \in {0, 7} /\ K \in Nat
    BY DEF Fp8Low
  <2>. HIDE DEF K
  <2>. QED
    BY <2>1, PowPos
<1>. DEFINE k == 2 ^ K
<1>. HIDE DEF v, w, x, y, r, K, A, B
<1>5. x.mant * y.mant = N * (k * k) /\ (x.mant * y.mant # 0 <=> N # 0) /\ N \in 0..225
  <2>1. k \in Nat \ {0} /\ x.mant = A * k /\ y.mant = B * k /\ A \in 0..15 /\ B \in 0..15
    BY <1>1, <1>2, <1>4
  <2>. HIDE DEF k
  <2>2. (A * k) * (B * k) = (A * B) * (k * k)
    BY <2>1
  <2>3. A * B \in Nat /\ k * k \in Nat \ {0}
    BY <2>1
  <2>4. A * B <= 15 * B /\ 15 * B <= 225
    BY <2>1, ProductMono
  <2>5. (A * B) * (k * k) # 0 <=> A * B # 0
    <3>. DEFINE c == A * B
                d == k * k
    <3>1. c \in Nat /\ d \in Nat \ {0}
      BY <2>3
    <3>. HIDE DEF c, d
    <3>2. c * d # 0 <=> c # 0
      BY <3>1
    <3>. QED
      BY <3>2 DEF c, d
  <2>. QED
    BY <2>1, <2>2, <2>3, <2>4, <2>5
<1>6. CASE v.number /\ w.number /\ N # 0
  <2>. DEFINE E == Exponent(v) + Exponent(w) - 6 + p + 127
  <2>1. N \in 1..225
    BY <1>5, <1>6
  <2>. HIDE DEF N
  <2>2. p \in 0..7 /\ N * 2 ^ (23 - p) = 2 ^ 23 + ((N * 2 ^ (23 - p)) % 2 ^ 23)
    BY <2>1, Normalised
  <2>. HIDE DEF p
  <2>3. r = fp32((v.s + w.s) % 2, E % 256, (N * 2 ^ (23 - p)) % 2 ^ 23)
    BY <1>3, <1>6
  <2>4. E \in 0..255 /\ E % 256 = E
    BY <1>1, <1>2, <2>2
  <2>5. r.s = (v.s + w.s) % 2 /\ r.e = E /\ r.f = (N * 2 ^ (23 - p)) % 2 ^ 23
    BY <2>3, <2>4 DEF fp32
  <2>6. n = 23 - p - 2 * K
    BY <1>1, <1>2, <1>4, <2>2, <2>4, <2>5
  <2>7. n \in 0..23
    BY <1>4, <2>2, <2>6
  <2>8. k * k * 2 ^ n = 2 ^ (23 - p)
    <3>. DEFINE z == 23 - p
                u == z - K
    <3>1. z \in Int /\ u \in Int /\ n \in Int /\ K \in Int /\ z >= 0 /\ u >= 0 /\ n >= 0 /\ K >= 0
          /\ z = K + u /\ u = K + n
      BY <1>4, <2>2, <2>6, <2>7
    <3>. HIDE DEF z, u, n
    <3>2. 2 ^ z = 2 ^ K * 2 ^ u /\ 2 ^ u = 2 ^ K * 2 ^ n /\ 2 ^ K \in Nat /\ 2 ^ n \in Nat /\ 2 ^ u \in Nat
      BY <3>1, PowSum
    <3>. DEFINE g == 2 ^ n
    <3>3. k \in Nat /\ g \in Nat /\ 2 ^ z = k * (k * g)
      BY <3>2
    <3>. HIDE DEF k, g
    <3>4. k * (k * g) = k * k * g
      BY <3>3
    <3>. QED
      BY <3>3, <3>4 DEF g, z
  <2>9. x.mant * y.mant * 2 ^ n = N * 2 ^ (23 - p)
    <3>. DEFINE g == 2 ^ n
                kk == k * k
    <3>1. kk \in Nat /\ g \in Nat /\ N \in Nat
      <4>1. n \in Nat
        BY <2>7
      <4>2. k \in Nat
        BY <1>4
      <4>. HIDE DEF k, n
      <4>. QED
        BY <2>1, <4>1, <4>2, PowNat
    <3>2. x.mant * y.mant * g = N * kk * g
      BY <1>5 DEF N
    <3>. HIDE DEF g, kk
    <3>3. N * kk * g = N * (kk * g)
      BY <3>1
    <3>4. kk * g = 2 ^ (23 - p)
      BY <2>8 DEF kk, g
    <3>. QED
      BY <3>2, <3>3, <3>4 DEF g
  <2>. HIDE DEF n
  <2>10. r.s = s /\ n \in 0..23 /\ x.mant * y.mant * 2 ^ n = 2 ^ 23 + r.f
    <3>1. r.s = s
      BY <1>1, <1>2, <2>5
    <3>2. x.mant * y.mant * 2 ^ n = 2 ^ 23 + r.f
      BY <2>2, <2>5, <2>9
    <3>. QED
      BY <2>7, <3>1, <3>2
  <2>. QED
    BY <1>5, <1>6, <2>10 DEF v, w, x, y, r, n, N
<1>7. CASE ~(v.number /\ w.number /\ N # 0)
  <2>1. r = fp32(s, 0, 0)
    BY <1>1, <1>2, <1>3, <1>7
  <2>. QED
    BY <1>5, <1>7, <2>1 DEF v, w, x, y, r, N
<1>. QED
  BY <1>6, <1>7 DEF v, w, x, y, r, N

\* The FP8 product of the tensor array is exact for every pair of bytes of both formats,
\* and an E4M3 byte is the number the compiler's simulator reads from it.
THEOREM Fp8ProductAlwaysExact == FpSpec => []Fp8ProductIsExact
<1>1. Callable(query) /\ Answered => Fp8ProductIsExact
  <2>. DEFINE a == query.a
              b == query.b
              fmt == query.fmt
  <2>1. SUFFICES ASSUME Callable(query), Answered, Asked({"fp8"}) PROVE Fp8ProductIsExact
    BY DEF Fp8ProductIsExact
  <2>2. a \in 0..255 /\ b \in 0..255 /\ fmt \in 0..1 /\ Got = fp8_mul_to_fp32(a, b, fmt)
    <3>1. query.k = "fp8" /\ answer # <<>>
      BY <2>1 DEF Asked
    <3>2. answer = <<fp8_mul_to_fp32(a, b, fmt)>>
      BY <2>1, <3>1 DEF Answered
    <3>. QED
      BY <2>1, <3>1, <3>2 DEF Callable, Got
  <2>. DEFINE x == Fp8Number(a, fmt)
              y == Fp8Number(b, fmt)
              n == x.scale + y.scale - (Got.e - 150)
  <2>3. IF Fp8(a, fmt).number /\ Fp8(b, fmt).number /\ x.mant * y.mant # 0
        THEN /\ Got.s = (x.sign + y.sign) % 2
             /\ n \in 0..23 /\ x.mant * y.mant * 2 ^ n = 2 ^ 23 + Got.f
        ELSE Got = fp32((x.sign + y.sign) % 2, 0, 0)
    BY <2>2, Fp8ProductIs
  <2>4. fmt = 0 => fp8_to_float(a) = Signed(x.sign, x.mant * 2 ^ (x.scale + 9))
    BY <2>2, Fp8Operand
  <2>. QED
    BY <2>3, <2>4 DEF Fp8ProductIsExact, Fp8Number
<1>. QED
  BY <1>1, FpAnswered, PTL

-----------------------------------------------------------------------------
(* The accumulator's adder. *)

\* The magnitude of an fp32 word in units of 2^low, cut off below.
AccMag(x, low) ==
    IF x.e >= low THEN Significand(x) * 2 ^ (x.e - low) ELSE ShiftOut(Significand(x), low - x.e)
AccValue(x, low) == Signed(x.s, AccMag(x, low))

ShiftsAdd(n, i, j) == (n \div 2 ^ i) \div 2 ^ j = n \div 2 ^ (i + j)

LEMMA NestedDiv ==
    ASSUME NEW n \in Nat, NEW i \in Nat, NEW j \in Nat
    PROVE  ShiftsAdd(n, i, j)
<1>. SUFFICES (n \div 2 ^ i) \div 2 ^ j = n \div 2 ^ (i + j)
  BY DEF ShiftsAdd
<1>. DEFINE P == 2 ^ i
            Q == 2 ^ j
            q1 == n \div P
            r1 == n % P
            q2 == q1 \div Q
            r2 == q1 % Q
            r == P * r2 + r1
<1>1. P \in Nat \ {0} /\ Q \in Nat \ {0} /\ 2 ^ (i + j) = P * Q
  BY PowPos, PowAdd
<1>. HIDE DEF P, Q
<1>2. q1 \in Nat /\ r1 \in 0 .. P - 1 /\ n = P * q1 + r1
  BY <1>1, DivMod
<1>. HIDE DEF q1, r1
<1>3. q2 \in Nat /\ r2 \in 0 .. Q - 1 /\ q1 = Q * q2 + r2
  BY <1>1, <1>2, DivMod
<1>. HIDE DEF q2, r2
<1>4. P * (Q * q2 + r2) = q2 * (P * Q) + P * r2
  BY <1>1, <1>3
<1>5. P * r2 \in Nat /\ P * r2 + P <= P * Q
  <2>1. P * (r2 + 1) <= P * Q /\ P * (r2 + 1) = P * r2 + P
    <3>1. (r2 + 1) * P <= Q * P
      BY <1>1, <1>3, ProductMono
    <3>. QED
      BY <1>1, <1>3, <3>1
  <2>. QED
    BY <1>1, <1>3, <2>1
<1>6. P * Q \in Nat \ {0} /\ r \in 0 .. P * Q - 1 /\ n = q2 * (P * Q) + r
  <2>1. P * Q \in Nat \ {0}
    BY <1>1
  <2>2. r \in Nat /\ r < P * Q
    BY <1>1, <1>2, <1>5
  <2>3. n = q2 * (P * Q) + r
    BY <1>1, <1>2, <1>3, <1>4, <1>5
  <2>. QED
    BY <2>1, <2>2, <2>3
<1>. DEFINE W == P * Q
<1>. HIDE DEF r, W
<1>7. n \div W = q2
  BY <1>3, <1>6, DivUnique DEF W
<1>. QED
  BY <1>1, <1>7 DEF P, Q, q1, q2, W

LEMMA SignificandIs ==
    ASSUME NEW x \in Fp32Words
    PROVE  /\ Significand(x) \in Nat /\ Significand(x) < 2 ^ 24 /\ 2 ^ 24 = 2 * 2 ^ 23 /\ 2 ^ 23 \in Nat \ {0}
           /\ x.e # 0 => Significand(x) >= 2 ^ 23
           /\ x.s \in 0..1 /\ x.e \in 0..255
<1>. DEFINE T == 2 ^ 23
<1>1. T \in Nat \ {0} /\ 2 ^ 24 = 2 * T
  BY PowLiterals
<1>2. x.s \in 0..1 /\ x.e \in 0..255 /\ x.f \in 0 .. T - 1
  BY DEF Fp32Words
<1>3. Significand(x) = IF x.e = 0 THEN 0 ELSE T + x.f
  BY DEF Significand
<1>. HIDE DEF T
<1>. QED
  BY <1>1, <1>2, <1>3 DEF T

\* A word made of a normalised significand.
LEMMA WordIs ==
    ASSUME NEW s \in 0..1, NEW e \in 1..255, NEW n \in Nat, 2 ^ 23 <= n, n < 2 ^ 24
    PROVE  LET x == fp32(s, e, n % 2 ^ 23)
           IN  x.s = s /\ x.e = e /\ Significand(x) = n
<1>. DEFINE T == 2 ^ 23
            x == fp32(s, e, n % T)
            d == n - T
<1>1. T \in Nat \ {0} /\ 2 ^ 24 = 2 * T
  BY PowLiterals
<1>2. x.s = s /\ x.e = e /\ x.f = n % T
  BY DEF fp32
<1>3. Significand(x) = T + x.f
  BY <1>2 DEF Significand
<1>. HIDE DEF T, x
<1>4. n % T = d
  <2>1. d \in 0 .. T - 1 /\ n = 1 * T + d
    BY <1>1 DEF T
  <2>. HIDE DEF d
  <2>. QED
    BY <1>1, <2>1, DivUnique
<1>5. Significand(x) = n
  BY <1>1, <1>2, <1>3, <1>4
<1>. QED
  BY <1>2, <1>5 DEF x, T

\* What the adder's aligned significand keeps of an operand.
LEMMA AlignedIs ==
    ASSUME NEW x \in Fp32Words, NEW E \in Nat, NEW low \in Nat, x.e <= E, low <= E, E <= low + 4
    PROVE  LET M == ShiftOut(Significand(x), E - x.e)
               w == 2 ^ (E - low)
           IN  /\ M \in Nat /\ M < 2 ^ 24 /\ AccMag(x, low) \in Nat /\ w \in Nat \ {0}
               /\ M * w <= AccMag(x, low) /\ AccMag(x, low) < M * w + w
               /\ x.e = E => M = Significand(x) /\ AccMag(x, low) = M * w
<1>. DEFINE S == Significand(x)
            d == E - x.e
            g == E - low
            w == 2 ^ g
            M == ShiftOut(S, d)
            T == AccMag(x, low)
            e == x.e
<1>1. S \in Nat /\ S < 2 ^ 24 /\ e \in 0..255 /\ 2 ^ 24 \in Nat \ {0}
  BY SignificandIs
<1>2. d \in Nat /\ g \in 0..4 /\ g \in Nat
  BY <1>1
<1>3. w \in Nat \ {0} /\ 2 ^ d \in Nat \ {0}
  BY <1>2, PowPos
<1>4. M = IF d > 24 THEN 0 ELSE S \div 2 ^ d
  BY DEF ShiftOut
<1>5. T = IF e >= low THEN S * 2 ^ (e - low) ELSE IF low - e > 24 THEN 0 ELSE S \div 2 ^ (low - e)
  BY DEF AccMag, ShiftOut
<1>. DEFINE D == 2 ^ d
            q == S \div D
<1>. HIDE DEF S, d, g, w, M, T, e, D
<1>6. q \in Nat /\ S % D \in 0 .. D - 1 /\ S = D * q + (S % D) /\ q <= S
  <2>1. q \in Nat /\ S % D \in 0 .. D - 1 /\ S = D * q + (S % D)
    BY <1>1, <1>3, DivMod DEF D
  <2>2. q <= D * q
    <3>. HIDE DEF q
    <3>1. 1 * q <= D * q
      BY <1>3, <2>1, ProductMono DEF D
    <3>. QED
      BY <2>1, <3>1
  <2>. QED
    BY <1>1, <1>3, <2>1, <2>2 DEF D
<1>7. M \in Nat /\ M < 2 ^ 24
  BY <1>1, <1>4, <1>6 DEF D
<1>. HIDE DEF q
<1>8. CASE e >= low
  <2>. DEFINE k == 2 ^ (e - low)
              r == S % D
  <2>1. d <= 24 /\ d \in Int /\ d >= 0 /\ e - low \in Int /\ e - low >= 0 /\ g \in Int /\ g = d + (e - low)
    BY <1>1, <1>2, <1>8 DEF d, g, e
  <2>2. w = D * k /\ k \in Nat \ {0} /\ D \in Nat \ {0}
    <3>. DEFINE y == e - low
    <3>1. y \in Int /\ y >= 0 /\ g = d + y
      BY <2>1
    <3>. HIDE DEF y
    <3>2. 2 ^ g = 2 ^ d * 2 ^ y /\ 2 ^ d \in Nat \ {0} /\ 2 ^ y \in Nat \ {0}
      BY <2>1, <3>1, PowSum
    <3>. QED
      BY <3>2 DEF w, D, y
  <2>3. T = S * k /\ M = q
    BY <1>4, <1>5, <1>8, <2>1 DEF D, q
  <2>. HIDE DEF k
  <2>4. S * k = q * w + r * k
    <3>. HIDE DEF r
    <3>1. S = D * q + r /\ r \in Nat
      BY <1>6, <2>2 DEF r
    <3>2. (D * q + r) * k = q * (D * k) + r * k
      BY <1>6, <2>2, <3>1
    <3>. QED
      BY <2>2, <3>1, <3>2
  <2>5. r * k \in Nat /\ r * k < D * k
    <3>1. r \in Nat /\ r < D
      BY <1>6, <2>2
    <3>. HIDE DEF r
    <3>. QED
      BY <2>2, <3>1, StrictProduct
  <2>6. M * w <= T /\ T < M * w + w /\ T \in Nat
    <3>. DEFINE c == r * k
                f == q * w
    <3>1. c \in Nat /\ f \in Nat /\ c < w /\ T = f + c /\ M * w = f
      BY <1>3, <1>6, <2>2, <2>3, <2>4, <2>5
    <3>. HIDE DEF c, f
    <3>. QED
      BY <1>3, <3>1
  <2>7. e = E => M = S /\ T = M * w
    <3>1. SUFFICES ASSUME e = E PROVE M = S /\ T = M * w
      OBVIOUS
    <3>2. d = 0 /\ e - low = g
      BY <1>1, <3>1 DEF d, g, e
    <3>3. D = 1 /\ k = w
      BY <3>2, PowZero DEF D, k, w
    <3>4. S % D = 0 /\ S = q
      BY <1>1, <1>6, <3>3
    <3>. QED
      BY <1>3, <2>3, <3>3, <3>4
  <2>. QED
    BY <1>3, <1>7, <2>6, <2>7 DEF M, S, d, w, g, T, e
<1>9. CASE ~(e >= low)
  <2>. DEFINE c == low - e
  <2>1. c \in Nat /\ c + g = d /\ e # E
    BY <1>1, <1>2, <1>9 DEF d, g, e
  <2>2. T = IF c > 24 THEN 0 ELSE S \div 2 ^ c
    BY <1>5, <1>9
  <2>. HIDE DEF c
  <2>3. CASE c > 24
    <3>1. M = 0 /\ T = 0
      BY <1>2, <1>4, <2>1, <2>2, <2>3
    <3>2. M * w = 0
      BY <1>3, <3>1
    <3>3. M * w <= T /\ T < M * w + w /\ T \in Nat
      BY <1>3, <3>1, <3>2
    <3>. QED
      BY <1>3, <1>7, <2>1, <3>3 DEF M, S, d, w, g, T, e
  <2>4. CASE ~(c > 24)
    <3>1. T = S \div 2 ^ c /\ 2 ^ c \in Nat \ {0}
      BY <2>1, <2>2, <2>4, PowPos
    <3>. DEFINE t == S \div 2 ^ c
    <3>2. t \in Nat /\ t \div w = q
      <4>1. t \div w = S \div 2 ^ (c + g)
        <5>1. S \in Nat /\ c \in Nat /\ g \in Nat
          BY <1>1, <1>2, <2>1
        <5>. HIDE DEF S, g
        <5>2. ShiftsAdd(S, c, g)
          BY <5>1, NestedDiv
        <5>. QED
          BY <5>2 DEF w, ShiftsAdd
      <4>2. t \in Nat
        BY <1>1, <3>1, DivMod
      <4>. QED
        BY <2>1, <4>1, <4>2 DEF q, D
    <3>. HIDE DEF t
    <3>3. t % w \in 0 .. w - 1 /\ t = w * q + (t % w)
      BY <1>3, <3>2, DivMod
    <3>4. q * w <= t /\ t < q * w + w
      <4>1. w * q = q * w /\ w * q \in Nat
        BY <1>3, <1>6
      <4>. QED
        BY <1>3, <3>3, <4>1
    <3>5. M = q
      <4>1. d > 24 => q = 0
        <5>1. SUFFICES ASSUME d > 24 PROVE q = 0
          OBVIOUS
        <5>2. 2 ^ 24 <= D
          <6>1. d \in Nat /\ 24 <= d /\ 24 \in Nat
            BY <1>2, <5>1
          <6>2. 2 ^ 24 <= 2 ^ d
            BY <6>1, PowMono
          <6>. QED
            BY <6>2 DEF D
        <5>3. S < D /\ D \in Nat \ {0}
          BY <1>1, <1>3, <5>2 DEF D
        <5>4. S \div D < 1 <=> S < 1 * D
          BY <1>1, <5>3, DivBelow
        <5>. QED
          BY <1>6, <5>3, <5>4 DEF q
      <4>. QED
        BY <1>2, <1>4, <4>1 DEF q, D
    <3>6. M * w <= T /\ T < M * w + w /\ T \in Nat
      BY <3>1, <3>2, <3>4, <3>5 DEF t
    <3>. QED
      BY <1>3, <1>7, <2>1, <3>6 DEF M, S, d, w, g, T, e
  <2>. QED
    BY <2>3, <2>4
<1>. QED
  BY <1>8, <1>9

LEMMA AdderIs ==
    ASSUME NEW a \in Fp32Words, NEW b \in Fp32Words, Max2(a.e, b.e) \in 24..253
    PROVE  LET E == Max2(a.e, b.e)
               low == Max2(Min2(a.e, b.e), E - 4)
               r == fp32_add(a, b)
           IN  AbsVal(AccValue(r, low) - (AccValue(a, low) + AccValue(b, low))) <= 2 ^ (Max2(E, r.e) - low)
<1>. DEFINE E == Max2(a.e, b.e)
            low == Max2(Min2(a.e, b.e), E - 4)
            r == fp32_add(a, b)
            g == E - low
            w == 2 ^ g
            A == ShiftOut(Significand(a), E - a.e)
            B == ShiftOut(Significand(b), E - b.e)
            TA == AccMag(a, low)
            TB == AccMag(b, low)
            sum == A + B
            diff == IF A > B THEN A - B ELSE B - A
            shift == 24 - BitLength(diff)
            exact == AccValue(a, low) + AccValue(b, low)
            da == TA - A * w
            db == TB - B * w
            H == 2 ^ 23
<1>1. /\ a.s \in 0..1 /\ a.e \in 0..255 /\ b.s \in 0..1 /\ b.e \in 0..255
      /\ Significand(a) \in Nat /\ Significand(b) \in Nat
      /\ 2 ^ 24 = 2 * H /\ H \in Nat \ {0}
      /\ a.e # 0 => Significand(a) >= H
      /\ b.e # 0 => Significand(b) >= H
  BY SignificandIs
<1>. SUFFICES AbsVal(AccValue(r, low) - exact) <= 2 ^ (Max2(E, r.e) - low)
  OBVIOUS
<1>2. /\ E \in 24..253 /\ (E = a.e \/ E = b.e) /\ a.e <= E /\ b.e <= E
      /\ low \in 20..253 /\ low <= E /\ E <= low + 4
  <2>. DEFINE x == a.e
              y == b.e
              m == Min2(x, y)
  <2>1. x \in 0..255 /\ y \in 0..255
    BY <1>1
  <2>2. E = (IF x > y THEN x ELSE y) /\ m = (IF x < y THEN x ELSE y) /\ E \in 24..253
    BY DEF Max2, Min2
  <2>3. low = IF m > E - 4 THEN m ELSE E - 4
    BY DEF Max2
  <2>. HIDE DEF E, low, m, x, y
  <2>4. /\ E \in 24..253 /\ (E = x \/ E = y) /\ x <= E /\ y <= E
        /\ low \in 20..253 /\ low <= E /\ E <= low + 4
    BY <2>1, <2>2, <2>3
  <2>. QED
    BY <2>4 DEF x, y
<1>3. r = IF a = FP32_ZERO THEN b
          ELSE IF b = FP32_ZERO THEN a
          ELSE IF a.s = b.s THEN WithCarry(a.s, E, sum)
          ELSE IF diff = 0 THEN FP32_ZERO
          ELSE fp32(IF A > B THEN a.s ELSE b.s, (E - shift) % 256, (diff * 2 ^ shift) % 2 ^ 23)
  BY DEF fp32_add
<1>4. exact = Signed(a.s, TA) + Signed(b.s, TB)
  BY DEF AccValue
<1>. HIDE DEF E, low, H, exact, r
<1>5. /\ A \in Nat /\ A < 2 * H /\ TA \in Nat /\ w \in Nat \ {0}
      /\ A * w <= TA /\ TA < A * w + w
      /\ a.e = E => A = Significand(a) /\ TA = A * w
  <2>1. E \in Nat /\ low \in Nat
    BY <1>2
  <2>2. /\ A \in Nat /\ A < 2 ^ 24 /\ TA \in Nat /\ w \in Nat \ {0}
        /\ A * w <= TA /\ TA < A * w + w
        /\ a.e = E => A = Significand(a) /\ TA = A * w
    BY <1>2, <2>1, AlignedIs
  <2>. QED
    BY <1>1, <2>2
<1>6. /\ B \in Nat /\ B < 2 * H /\ TB \in Nat
      /\ B * w <= TB /\ TB < B * w + w
      /\ b.e = E => B = Significand(b) /\ TB = B * w
  <2>1. E \in Nat /\ low \in Nat
    BY <1>2
  <2>2. /\ B \in Nat /\ B < 2 ^ 24 /\ TB \in Nat
        /\ B * w <= TB /\ TB < B * w + w
        /\ b.e = E => B = Significand(b) /\ TB = B * w
    BY <1>2, <2>1, AlignedIs
  <2>. QED
    BY <1>1, <2>2
<1>. HIDE DEF A, B, TA, TB, w
<1>7. /\ A * w \in Nat /\ B * w \in Nat /\ da \in Nat /\ db \in Nat /\ da + db < w
      /\ TA = A * w + da /\ TB = B * w + db
      /\ A >= H \/ B >= H
  <2>. DEFINE x == A * w
              y == B * w
  <2>1. x \in Nat /\ y \in Nat
    BY <1>5, <1>6
  <2>2. x <= TA /\ TA < x + w /\ y <= TB /\ TB < y + w /\ (TA = x \/ TB = y)
    BY <1>2, <1>5, <1>6
  <2>3. A >= H \/ B >= H
    BY <1>1, <1>2, <1>5, <1>6
  <2>. HIDE DEF x, y
  <2>4. TA - x \in Nat /\ TB - y \in Nat /\ (TA - x) + (TB - y) < w /\ TA = x + (TA - x) /\ TB = y + (TB - y)
    BY <1>5, <1>6, <2>1, <2>2
  <2>. QED
    BY <2>1, <2>3, <2>4 DEF x, y
<1>. HIDE DEF da, db
<1>8. \A x : x = FP32_ZERO => x.e = 0 /\ AccMag(x, low) = 0 /\ AccValue(x, low) = 0
  <2>1. FP32_ZERO.s = 0 /\ FP32_ZERO.e = 0
    BY DEF FP32_ZERO, fp32
  <2>2. AccMag(FP32_ZERO, low) = 0
    <3>1. Significand(FP32_ZERO) = 0
      BY <2>1 DEF Significand
    <3>2. AccMag(FP32_ZERO, low) = ShiftOut(0, low - 0)
      BY <1>2, <2>1, <3>1 DEF AccMag
    <3>. DEFINE n == low - 0
                p == 2 ^ n
    <3>3. p \in Nat \ {0}
      <4>1. n \in Nat
        BY <1>2
      <4>. HIDE DEF n
      <4>. QED
        BY <4>1, PowPos
    <3>. HIDE DEF n, p
    <3>4. 0 \div p = 0
      BY <3>3, SMT
    <3>. QED
      BY <3>2, <3>4 DEF ShiftOut, n, p
  <2>3. AccValue(FP32_ZERO, low) = 0
    BY <2>1, <2>2 DEF AccValue, Signed
  <2>. QED
    BY <2>1, <2>2, <2>3
<1>9. w = 2 ^ (E - low) /\ 2 * w = 2 ^ (E + 1 - low)
  <2>. DEFINE k == E - low
  <2>1. k \in Nat /\ E + 1 - low = k + 1
    BY <1>2
  <2>. HIDE DEF k
  <2>2. 2 ^ (k + 1) = 2 * 2 ^ k
    BY <2>1, PowSucc
  <2>. QED
    BY <2>1, <2>2 DEF k, w
<1>10. ASSUME NEW v \in Int, AccValue(r, low) = v, r.e \in Int, r.e <= E, AbsVal(v - exact) <= w
       PROVE  AbsVal(AccValue(r, low) - exact) <= 2 ^ (Max2(E, r.e) - low)
  <2>1. Max2(E, r.e) = E
    BY <1>2, <1>10 DEF Max2
  <2>. QED
    BY <1>9, <1>10, <2>1
<1>11. exact \in Int
  BY <1>4, <1>5, <1>6 DEF Signed
<1>12. CASE a = FP32_ZERO
  <2>1. r = b /\ AccValue(a, low) = 0 /\ AccValue(b, low) = Signed(b.s, TB)
    BY <1>3, <1>8, <1>12 DEF AccValue, TB
  <2>. DEFINE v == Signed(b.s, TB)
  <2>2. v \in Int
    BY <1>6 DEF Signed
  <2>. HIDE DEF v
  <2>3. exact = v
    BY <2>1, <2>2 DEF exact, v
  <2>4. AbsVal(v - exact) <= w
    BY <1>5, <2>2, <2>3 DEF AbsVal
  <2>. QED
    BY <1>1, <1>2, <1>10, <2>1, <2>2, <2>4 DEF v
<1>13. CASE a # FP32_ZERO /\ b = FP32_ZERO
  <2>1. r = a /\ AccValue(b, low) = 0 /\ AccValue(a, low) = Signed(a.s, TA)
    BY <1>3, <1>8, <1>13 DEF AccValue, TA
  <2>. DEFINE v == Signed(a.s, TA)
  <2>2. v \in Int
    BY <1>5 DEF Signed
  <2>. HIDE DEF v
  <2>3. exact = v
    BY <2>1, <2>2 DEF exact, v
  <2>4. AbsVal(v - exact) <= w
    BY <1>5, <2>2, <2>3 DEF AbsVal
  <2>. QED
    BY <1>1, <1>2, <1>10, <2>1, <2>2, <2>4 DEF v
<1>14. CASE a # FP32_ZERO /\ b # FP32_ZERO /\ a.s = b.s
  <2>. DEFINE p == A * w
              q == B * w
  <2>1. p \in Nat /\ q \in Nat /\ sum \in Nat /\ sum * w = p + q /\ sum >= H /\ sum < 4 * H
    BY <1>1, <1>5, <1>6, <1>7
  <2>2. exact = Signed(a.s, p + q + (da + db)) /\ da + db \in Nat /\ da + db < w
    <3>. HIDE DEF p, q
    <3>1. TA = p + da /\ TB = q + db
      BY <1>7 DEF p, q
    <3>. QED
      BY <1>4, <1>7, <1>14, <2>1, <3>1 DEF Signed
  <2>3. r = WithCarry(a.s, E, sum)
    BY <1>3, <1>14
  <2>. HIDE DEF p, q, sum
  <2>4. CASE ~(sum >= 2 * H)
    <3>1. r = fp32(a.s, E, sum % 2 ^ 23)
      BY <1>1, <2>1, <2>3, <2>4 DEF WithCarry
    <3>2. r.s = a.s /\ r.e = E /\ Significand(r) = sum
      <4>1. 2 ^ 23 <= sum /\ sum < 2 ^ 24 /\ E \in 1..255
        BY <1>1, <1>2, <2>1, <2>4 DEF H
      <4>. QED
        <5>1. LET x == fp32(a.s, E, sum % 2 ^ 23) IN x.s = a.s /\ x.e = E /\ Significand(x) = sum
          BY <1>1, <2>1, <4>1, WordIs
        <5>. QED
          BY <3>1, <5>1
    <3>3. AccMag(r, low) = p + q
      BY <1>2, <1>9, <2>1, <3>2 DEF AccMag
    <3>. DEFINE v == Signed(a.s, p + q)
    <3>4. AccValue(r, low) = v /\ v \in Int
      BY <2>1, <3>2, <3>3 DEF AccValue, Signed
    <3>5. AbsVal(v - exact) <= w
      BY <1>5, <2>1, <2>2 DEF AbsVal, Signed
    <3>. HIDE DEF v
    <3>. QED
      BY <1>2, <1>10, <3>2, <3>4, <3>5
  <2>5. CASE sum >= 2 * H
    <3>. DEFINE n == sum \div 2
                c == sum % 2
    <3>1. n \in Nat /\ c \in 0..1 /\ sum = 2 * n + c /\ H <= n /\ n < 2 * H
      BY <1>1, <2>1, <2>5
    <3>. HIDE DEF n, c
    <3>2. r = fp32(a.s, E + 1, n % 2 ^ 23)
      <4>1. (E + 1) % 256 = E + 1
        BY <1>2
      <4>. QED
        BY <1>1, <2>3, <2>5, <4>1 DEF WithCarry, n
    <3>3. r.s = a.s /\ r.e = E + 1 /\ Significand(r) = n
      <4>. DEFINE e == E + 1
      <4>1. 2 ^ 23 <= n /\ n < 2 ^ 24 /\ e \in 1..255
        BY <1>1, <1>2, <3>1 DEF H
      <4>. HIDE DEF e
      <4>2. LET x == fp32(a.s, e, n % 2 ^ 23) IN x.s = a.s /\ x.e = e /\ Significand(x) = n
        BY <1>1, <3>1, <4>1, WordIs
      <4>. QED
        BY <3>2, <4>2 DEF e
    <3>4. AccMag(r, low) = n * (2 * w)
      <4>1. E + 1 >= low
        BY <1>2
      <4>. QED
        <5>. DEFINE t == r.e
        <5>1. t >= low /\ t - low = E + 1 - low
          <6>1. t = E + 1
            BY <3>3
          <6>. HIDE DEF t
          <6>. QED
            BY <1>2, <6>1
        <5>2. AccMag(r, low) = Significand(r) * 2 ^ (r.e - low)
          BY <5>1 DEF AccMag
        <5>. QED
          BY <1>9, <3>3, <5>1, <5>2
    <3>. DEFINE m == n * (2 * w)
                f == c * w
    <3>5. p + q = m + f /\ m \in Nat /\ f \in Nat /\ f <= w
      <4>1. (2 * n + c) * w = n * (2 * w) + c * w
        BY <1>5, <3>1
      <4>2. c * w <= 1 * w
        BY <1>5, <3>1, ProductMono
      <4>3. n * (2 * w) \in Nat /\ c * w \in Nat
        BY <1>5, <3>1
      <4>. QED
        BY <1>5, <2>1, <3>1, <4>1, <4>2, <4>3
    <3>. HIDE DEF m, f
    <3>. DEFINE v == Signed(a.s, m)
    <3>6. AccValue(r, low) = v /\ v \in Int
      BY <3>3, <3>4, <3>5 DEF AccValue, Signed, m
    <3>7. AbsVal(v - exact) <= 2 * w
      BY <1>5, <2>1, <2>2, <3>5 DEF AbsVal, Signed
    <3>. HIDE DEF v
    <3>8. Max2(E, r.e) = E + 1
      BY <1>2, <3>3 DEF Max2
    <3>. DEFINE t == Max2(E, r.e)
    <3>9. 2 ^ (t - low) = 2 * w
      <4>1. t = E + 1
        BY <3>8
      <4>. HIDE DEF t
      <4>2. t - low = E + 1 - low
        BY <1>2, <4>1
      <4>. QED
        BY <1>9, <4>2
    <3>. QED
      BY <1>2, <3>3, <3>6, <3>7, <3>9
  <2>. QED
    BY <2>4, <2>5
<1>15. CASE a # FP32_ZERO /\ b # FP32_ZERO /\ a.s # b.s
  <2>. DEFINE p == A * w
              q == B * w
              s == IF A > B THEN a.s ELSE b.s
              D == diff * w
  <2>1. p \in Nat /\ q \in Nat /\ diff \in Nat /\ diff < 2 * H /\ D = (IF A > B THEN p - q ELSE q - p) /\ D \in Nat
    <3>1. p \in Nat /\ q \in Nat
      BY <1>5, <1>6
    <3>2. CASE A > B
      <4>1. diff = A - B /\ (A - B) * w = A * w - B * w /\ A - B \in Nat
        BY <1>5, <1>6, <3>2
      <4>. DEFINE y == A - B
      <4>2. y * w \in Nat
        <5>1. y \in Nat
          BY <4>1
        <5>. HIDE DEF y
        <5>. QED
          BY <1>5, <5>1
      <4>. QED
        BY <1>1, <1>5, <1>6, <3>1, <3>2, <4>1, <4>2
    <3>3. CASE ~(A > B)
      <4>1. diff = B - A /\ (B - A) * w = B * w - A * w /\ B - A \in Nat
        BY <1>5, <1>6, <3>3
      <4>. DEFINE y == B - A
      <4>2. y * w \in Nat
        <5>1. y \in Nat
          BY <4>1
        <5>. HIDE DEF y
        <5>. QED
          BY <1>5, <5>1
      <4>. QED
        BY <1>1, <1>5, <1>6, <3>1, <3>3, <4>1, <4>2
    <3>. QED
      BY <3>2, <3>3
  <2>2. s \in 0..1
    BY <1>1
  <2>3. AbsVal(Signed(s, D) - exact) <= w /\ Signed(s, D) \in Int
    <3>. HIDE DEF p, q, D, diff
    <3>1. TA = p + da /\ TB = q + db
      BY <1>7 DEF p, q
    <3>2. exact = Signed(a.s, p + da) + Signed(b.s, q + db)
      BY <1>4, <3>1
    <3>3. CASE A > B
      BY <1>1, <1>5, <1>7, <1>15, <2>1, <3>2, <3>3 DEF AbsVal, Signed
    <3>4. CASE ~(A > B)
      BY <1>1, <1>5, <1>7, <1>15, <2>1, <3>2, <3>4 DEF AbsVal, Signed
    <3>. QED
      BY <3>3, <3>4
  <2>4. r = IF diff = 0 THEN FP32_ZERO ELSE fp32(s, (E - shift) % 256, (diff * 2 ^ shift) % 2 ^ 23)
    BY <1>3, <1>15
  <2>. HIDE DEF p, q, s, diff
  <2>5. CASE diff = 0
    <3>1. AccValue(r, low) = 0 /\ r.e = 0
      BY <1>8, <2>4, <2>5
    <3>2. D = 0
      BY <1>5, <2>5
    <3>3. Signed(s, D) = 0
      BY <2>1, <3>2, SignedZero
    <3>. QED
      BY <1>2, <1>10, <2>3, <3>1, <3>3
  <2>6. CASE diff # 0
    <3>. DEFINE L == BitLength(diff)
                z == 2 ^ shift
                n == diff * z
                e == E - shift
    <3>1. L \in Nat \ {0} /\ 2 ^ (L - 1) <= diff /\ diff < 2 ^ L
      <4>1. diff \in Nat \ {0}
        BY <2>1, <2>6
      <4>. QED
        BY <4>1, BitLengthIs
    <3>. HIDE DEF L
    <3>2. L <= 24
      <4>1. 24 <= L - 1 => 2 ^ 24 <= 2 ^ (L - 1)
        <5>. DEFINE k == L - 1
        <5>1. k \in Nat
          BY <3>1
        <5>. HIDE DEF k
        <5>2. 24 <= k => 2 ^ 24 <= 2 ^ k
          BY <5>1, PowMono
        <5>. QED
          BY <5>2 DEF k
      <4>2. 2 ^ (L - 1) \in Nat
        <5>1. L - 1 \in Nat
          BY <3>1
        <5>. QED
          BY <5>1, PowNat
      <4>3. ~(2 ^ 24 <= 2 ^ (L - 1))
        BY <1>1, <2>1, <3>1, <4>2
      <4>. QED
        BY <3>1, <4>1, <4>3
    <3>3. shift = 24 - L /\ shift \in 0..23 /\ e \in 1..253 /\ e % 256 = e /\ e <= E
      <4>1. shift = 24 - L
        BY DEF L
      <4>. QED
        BY <1>2, <3>1, <3>2, <4>1, SMTT(60)
    <3>. HIDE DEF shift
    <3>4. H <= n /\ n < 2 * H /\ n \in Nat /\ z \in Nat \ {0}
      <4>. DEFINE k == L - 1
                  x == 2 ^ k
                  y == 2 ^ L
      <4>1. /\ k \in Int /\ k >= 0 /\ shift \in Int /\ shift >= 0 /\ 23 \in Int /\ 23 = k + shift
            /\ L \in Int /\ L >= 0 /\ 24 \in Int /\ 24 = L + shift
        BY <3>1, <3>3
      <4>2. H = x * z /\ x \in Nat /\ z \in Nat \ {0}
        <5>. DEFINE j == 23
        <5>1. j \in Int /\ j = k + shift
          BY <4>1
        <5>. HIDE DEF j, k
        <5>2. 2 ^ j = 2 ^ k * 2 ^ shift /\ 2 ^ k \in Nat /\ 2 ^ shift \in Nat \ {0}
          BY <4>1, <5>1, PowSum
        <5>. QED
          BY <5>2 DEF H, j
      <4>3. 2 * H = y * z /\ y \in Nat
        <5>. DEFINE j == 24
        <5>1. j \in Int /\ j = L + shift
          BY <4>1
        <5>. HIDE DEF j
        <5>2. 2 ^ j = 2 ^ L * 2 ^ shift /\ 2 ^ L \in Nat
          BY <4>1, <5>1, PowSum
        <5>. QED
          BY <1>1, <5>2 DEF j
      <4>4. x <= diff /\ diff < y
        BY <3>1
      <4>. HIDE DEF x, y, z
      <4>5. x * z <= diff * z /\ diff * z < y * z
        BY <2>1, <4>2, <4>3, <4>4, ProductMono, StrictProduct
      <4>. QED
        BY <2>1, <4>2, <4>3, <4>5
    <3>. HIDE DEF n, e
    <3>5. r = fp32(s, e, n % 2 ^ 23)
      BY <2>4, <2>6, <3>3 DEF e, n
    <3>6. r.s = s /\ r.e = e /\ Significand(r) = n
      <4>1. 2 ^ 23 <= n /\ n < 2 ^ 24 /\ e \in 1..255
        BY <1>1, <3>3, <3>4 DEF H
      <4>. QED
        <5>1. LET x == fp32(s, e, n % 2 ^ 23) IN x.s = s /\ x.e = e /\ Significand(x) = n
          BY <2>2, <3>4, <4>1, WordIs
        <5>. QED
          BY <3>5, <5>1
    <3>7. AccMag(r, low) = D
      <4>1. CASE e >= low
        <5>. DEFINE k == e - low
                    x == 2 ^ k
        <5>1. k \in Int /\ k >= 0 /\ shift \in Int /\ shift >= 0 /\ g \in Int /\ g = shift + k
          BY <1>2, <3>3, <4>1 DEF e
        <5>. HIDE DEF k, g
        <5>2. 2 ^ g = 2 ^ shift * 2 ^ k /\ x \in Nat
          BY <5>1, PowSum
        <5>. HIDE DEF x
        <5>3. w = z * x
          BY <5>2 DEF w, x
        <5>. HIDE DEF z
        <5>4. (diff * z) * x = diff * (z * x)
          BY <2>1, <3>4, <5>2
        <5>5. AccMag(r, low) = n * x
          BY <3>6, <4>1 DEF AccMag, x, k
        <5>. QED
          BY <5>3, <5>4, <5>5 DEF n
      <4>2. CASE ~(e >= low)
        <5>. DEFINE c == low - e
                    x == 2 ^ c
        <5>1. c \in Int /\ c >= 0 /\ c <= 24 /\ shift \in Int /\ shift >= 0 /\ g \in Int /\ g >= 0 /\ shift = g + c
          BY <1>2, <3>3, <4>2 DEF e
        <5>. HIDE DEF c, g
        <5>2. 2 ^ shift = 2 ^ g * 2 ^ c /\ x \in Nat \ {0}
          BY <5>1, PowSum
        <5>. HIDE DEF x
        <5>3. z = w * x
          BY <5>2 DEF w, x
        <5>. HIDE DEF z
        <5>4. diff * (w * x) = D * x
          BY <1>5, <2>1, <5>2
        <5>5. AccMag(r, low) = n \div x
          BY <3>6, <4>2, <5>1 DEF AccMag, ShiftOut, x, c
        <5>6. n = D * x
          BY <5>3, <5>4 DEF n
        <5>. HIDE DEF D
        <5>. QED
          BY <2>1, <5>2, <5>5, <5>6, DivOfMultiple
      <4>. QED
        BY <4>1, <4>2
    <3>8. AccValue(r, low) = Signed(s, D)
      BY <3>6, <3>7 DEF AccValue
    <3>. QED
      BY <1>2, <1>10, <2>3, <3>3, <3>6, <3>8
  <2>. QED
    BY <2>5, <2>6
<1>. QED
  BY <1>12, <1>13, <1>14, <1>15

\* For every pair of fp32 words whose larger exponent leaves the adder its range, the
\* accumulator is off by at most one unit of the larger operand's last place, or of
\* the sum's when it carries.
THEOREM AdderAlwaysClose == FpSpec => []AdderLosesLessThanAnUlp
<1>1. Callable(query) /\ Answered => AdderLosesLessThanAnUlp
  <2>. DEFINE a == query.a
              b == query.b
              E == Max2(a.e, b.e)
              low == Max2(Min2(a.e, b.e), E - 4)
  <2>1. SUFFICES ASSUME Callable(query), Answered, Asked({"acc"}), E \in 24..253
                 PROVE  AdderLosesLessThanAnUlp
    BY DEF AdderLosesLessThanAnUlp
  <2>2. a \in Fp32Words /\ b \in Fp32Words /\ Got = fp32_add(a, b)
    <3>1. query.k = "acc" /\ answer # <<>>
      BY <2>1 DEF Asked
    <3>2. answer = <<fp32_add(a, b)>>
      BY <2>1, <3>1 DEF Answered
    <3>. QED
      BY <2>1, <3>1, <3>2 DEF Callable, Got
  <2>3. AbsVal(AccValue(Got, low) - (AccValue(a, low) + AccValue(b, low))) <= 2 ^ (Max2(E, Got.e) - low)
    BY <2>1, <2>2, AdderIs
  <2>. QED
    BY <2>3 DEF AdderLosesLessThanAnUlp, AccValue, AccMag
<1>. QED
  BY <1>1, FpAnswered, PTL
===============================================================================
