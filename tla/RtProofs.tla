------------------------------- MODULE RtProofs -------------------------------
(***************************************************************************)
(* Theorems about the golden model of fixed-point ray tracing, for every   *)
(* word size the model takes, the program's 32 bits among them.            *)
(***************************************************************************)
EXTENDS RtModels, PowerProofs

-----------------------------------------------------------------------------
(* Words and the whole numbers they hold. *)

LEMMA IntDivMod ==
    ASSUME NEW a \in Int, NEW b \in Nat \ {0}
    PROVE  a \div b \in Int /\ a % b \in 0 .. b - 1 /\ a = b * (a \div b) + (a % b)
OBVIOUS

LEMMA IntProductMono ==
    ASSUME NEW a \in Int, NEW b \in Int, NEW c \in Nat, a <= b
    PROVE  a * c <= b * c
OBVIOUS

\* A multiple of b that is less than b away from another one is the same.
LEMMA SameMultiple ==
    ASSUME NEW b \in Nat \ {0}, NEW p \in Int, NEW q \in Int, b * p - b * q < b, b * q - b * p < b
    PROVE  p = q
<1>1. ~(p < q)
  <2>1. SUFFICES ASSUME p + 1 <= q PROVE FALSE
    OBVIOUS
  <2>. DEFINE c == p + 1
  <2>2. c \in Int /\ c <= q
    BY <2>1
  <2>3. c * b = b * p + b /\ q * b = b * q
    OBVIOUS
  <2>. HIDE DEF c
  <2>4. c * b <= q * b
    BY <2>2, IntProductMono
  <2>5. b * p \in Int /\ b * q \in Int
    OBVIOUS
  <2>. QED
    BY <2>3, <2>4, <2>5
<1>2. ~(q < p)
  <2>1. SUFFICES ASSUME q + 1 <= p PROVE FALSE
    OBVIOUS
  <2>. DEFINE c == q + 1
  <2>2. c \in Int /\ c <= p
    BY <2>1
  <2>3. c * b = b * q + b /\ p * b = b * p
    OBVIOUS
  <2>. HIDE DEF c
  <2>4. c * b <= p * b
    BY <2>2, IntProductMono
  <2>5. b * p \in Int /\ b * q \in Int
    OBVIOUS
  <2>. QED
    BY <2>3, <2>4, <2>5
<1>. QED
  BY <1>1, <1>2

LEMMA IntDivExact ==
    ASSUME NEW q \in Int, NEW b \in Nat \ {0}
    PROVE  (b * q) \div b = q
<1>. DEFINE a == b * q
            p == a \div b
            r == a % b
<1>1. p \in Int /\ r \in 0 .. b - 1 /\ a = b * p + r
  <2>1. a \in Int
    OBVIOUS
  <2>. HIDE DEF a
  <2>. QED
    BY <2>1, IntDivMod
<1>2. b * p - a < b /\ a - b * p < b /\ a \in Int
  <2>. HIDE DEF p, r
  <2>1. b * p \in Int /\ a \in Int
    BY <1>1
  <2>. HIDE DEF a
  <2>. QED
    BY <1>1, <2>1
<1>. HIDE DEF p, r
<1>3. p = q
  BY <1>1, <1>2, SameMultiple
<1>. QED
  BY <1>3 DEF p

\* The number one, half of it, and the range of a word.
Half == 2 ^ (FXW \div 2 - 1)

LEMMA WordFacts ==
    /\ Half \in Nat \ {0} /\ FX_ONE = 2 * Half /\ FX_ONE \in Nat \ {0}
    /\ 2 ^ FXW = FX_ONE * FX_ONE /\ 2 ^ (FXW - 1) = FX_ONE * Half
    /\ FX_MAX = FX_ONE * Half - 1
<1>. DEFINE h == FXW \div 2
            g == h - 1
<1>1. h \in Nat /\ g \in Nat /\ h = g + 1 /\ FXW = h + h /\ FXW - 1 = h + g
  BY FxAssumption
<1>. HIDE DEF h, g
<1>2. 2 ^ h = 2 * 2 ^ g /\ 2 ^ (h + h) = 2 ^ h * 2 ^ h /\ 2 ^ (h + g) = 2 ^ h * 2 ^ g /\ 2 ^ g \in Nat \ {0}
  BY <1>1, PowSucc, PowAdd, PowPos
<1>3. FX_ONE = 2 ^ h /\ Half = 2 ^ g
  BY DEF FX_ONE, Half, h, g
<1>4. 2 ^ FXW = 2 ^ h * 2 ^ h /\ 2 ^ (FXW - 1) = 2 ^ h * 2 ^ g
  BY <1>1, <1>2
<1>. QED
  BY <1>2, <1>3, <1>4 DEF FX_MAX

\* x is the word that a whole number a of ones leaves.
Holds(x, a) ==
    /\ x \in Int /\ -(FX_ONE * Half) <= x /\ x < FX_ONE * Half
    /\ a \in Int
    /\ \E k \in Int : x = FX_ONE * (a + k * FX_ONE)

LEMMA Se32Is ==
    ASSUME NEW x \in Int
    PROVE  /\ se32(x) \in Int /\ -(FX_ONE * Half) <= se32(x) /\ se32(x) < FX_ONE * Half
           /\ \E k \in Int : se32(x) = x + k * (FX_ONE * FX_ONE)
<1>. DEFINE P == FX_ONE * FX_ONE
            Q == FX_ONE * Half
            q == x \div P
            r == x % P
<1>1. P \in Nat \ {0} /\ Q \in Nat \ {0} /\ P = 2 * Q
  BY WordFacts
<1>2. se32(x) = IF r > Q - 1 THEN r - P ELSE r
  BY WordFacts DEF se32, Wrap
<1>. HIDE DEF P, Q
<1>3. q \in Int /\ r \in 0 .. P - 1 /\ x = P * q + r
  BY <1>1, IntDivMod
<1>. HIDE DEF q, r
<1>4. CASE r > Q - 1
  <2>1. se32(x) = x + (-q - 1) * P
    BY <1>1, <1>2, <1>3, <1>4
  <2>2. -q - 1 \in Int
    BY <1>3
  <2>. QED
    BY <1>1, <1>2, <1>3, <1>4, <2>1, <2>2 DEF P, Q
<1>5. CASE ~(r > Q - 1)
  <2>1. se32(x) = x + (-q) * P
    BY <1>1, <1>2, <1>3, <1>5
  <2>2. -q \in Int
    BY <1>3
  <2>. QED
    BY <1>1, <1>2, <1>3, <1>5, <2>1, <2>2 DEF P, Q
<1>. QED
  BY <1>4, <1>5

LEMMA HoldsWhole ==
    ASSUME NEW x \in Int, -(FX_ONE * Half) <= x, x < FX_ONE * Half, x % FX_ONE = 0
    PROVE  Holds(x, x \div FX_ONE)
<1>. DEFINE R == FX_ONE
            a == x \div R
<1>1. R \in Nat \ {0} /\ x % R = 0
  BY WordFacts
<1>. HIDE DEF R
<1>2. a \in Int /\ x = R * a
  BY <1>1, IntDivMod
<1>. HIDE DEF a
<1>3. x = R * (a + 0 * R) /\ 0 \in Int
  BY <1>1, <1>2
<1>4. Holds(x, a)
  BY <1>2, <1>3 DEF Holds, R
<1>. QED
  BY <1>4 DEF a, R

\* A sum or a difference that wraps around holds the sum or the difference.
LEMMA HoldsWrapped ==
    ASSUME NEW x \in Int, NEW a \in Int, NEW k \in Int, x = FX_ONE * (a + k * FX_ONE)
    PROVE  Holds(se32(x), a)
<1>. DEFINE R == FX_ONE
            y == se32(x)
<1>1. R \in Nat \ {0}
  BY WordFacts
<1>2. PICK l \in Int : y = x + l * (R * R)
  BY Se32Is
<1>3. y \in Int /\ -(R * Half) <= y /\ y < R * Half
  BY Se32Is
<1>. HIDE DEF R, y
<1>4. x = R * (a + k * R)
  BY DEF R
<1>5. R * (a + k * R) + l * (R * R) = R * (a + (k + l) * R)
  BY <1>1
<1>6. k + l \in Int /\ y = R * (a + (k + l) * R)
  BY <1>2, <1>4, <1>5
<1>. QED
  BY <1>3, <1>6 DEF Holds, R, y

LEMMA HoldsMinus ==
    ASSUME NEW x, NEW y, NEW a, NEW b, Holds(x, a), Holds(y, b)
    PROVE  Holds(se32(x - y), a - b)
<1>. DEFINE R == FX_ONE
            z == x - y
            c == a - b
<1>1. R \in Nat \ {0} /\ x \in Int /\ y \in Int /\ a \in Int /\ b \in Int
  BY WordFacts DEF Holds
<1>2. PICK k \in Int : x = R * (a + k * R)
  BY DEF Holds
<1>3. PICK l \in Int : y = R * (b + l * R)
  BY DEF Holds
<1>. HIDE DEF R
<1>4. z = R * (c + (k - l) * R)
  BY <1>1, <1>2, <1>3
<1>5. z \in Int /\ c \in Int /\ k - l \in Int
  BY <1>1
<1>. HIDE DEF z, c
<1>6. Holds(se32(z), c)
  BY <1>4, <1>5, HoldsWrapped DEF R
<1>. QED
  BY <1>6 DEF z, c

LEMMA HoldsSum ==
    ASSUME NEW x, NEW y, NEW z, NEW a, NEW b, NEW c, Holds(x, a), Holds(y, b), Holds(z, c)
    PROVE  Holds(se32(x + y + z), a + b + c)
<1>. DEFINE R == FX_ONE
            t == x + y + z
            d == a + b + c
<1>1. R \in Nat \ {0} /\ x \in Int /\ y \in Int /\ z \in Int /\ a \in Int /\ b \in Int /\ c \in Int
  BY WordFacts DEF Holds
<1>2. PICK k \in Int : x = R * (a + k * R)
  BY DEF Holds
<1>3. PICK l \in Int : y = R * (b + l * R)
  BY DEF Holds
<1>4. PICK m \in Int : z = R * (c + m * R)
  BY DEF Holds
<1>. HIDE DEF R
<1>5. t = R * (d + (k + l + m) * R)
  BY <1>1, <1>2, <1>3, <1>4
<1>6. t \in Int /\ d \in Int /\ k + l + m \in Int
  BY <1>1
<1>. HIDE DEF t, d
<1>7. Holds(se32(t), d)
  BY <1>5, <1>6, HoldsWrapped DEF R
<1>. QED
  BY <1>7 DEF t, d

LEMMA HoldsProduct ==
    ASSUME NEW x, NEW y, NEW a, NEW b, Holds(x, a), Holds(y, b)
    PROVE  Holds(fx_mul(x, y), a * b)
<1>. DEFINE R == FX_ONE
            c == a * b
<1>1. R \in Nat \ {0} /\ x \in Int /\ y \in Int /\ a \in Int /\ b \in Int
  BY WordFacts DEF Holds
<1>2. PICK k \in Int : x = R * (a + k * R)
  BY DEF Holds
<1>3. PICK l \in Int : y = R * (b + l * R)
  BY DEF Holds
<1>. HIDE DEF R
<1>. DEFINE n == a * l + b * k + k * l * R
            t == R * (c + n * R)
<1>4. x * y = R * t
  <2>1. (R * (a + k * R)) * (R * (b + l * R)) = R * (R * (a * b + (a * l + b * k + k * l * R) * R))
    BY <1>1
  <2>. QED
    BY <1>2, <1>3, <2>1
<1>5. c \in Int /\ n \in Int
  BY <1>1
<1>. HIDE DEF c, n
<1>6. t \in Int
  BY <1>1, <1>5
<1>. HIDE DEF t
<1>7. (R * t) \div R = t
  BY <1>1, <1>6, IntDivExact
<1>8. fx_mul(x, y) = se32(t)
  BY <1>4, <1>7 DEF fx_mul, R
<1>9. Holds(se32(t), c)
  BY <1>5, <1>6, HoldsWrapped DEF t, R
<1>. QED
  BY <1>8, <1>9 DEF c

\* A word holds a number that fits exactly.
LEMMA HoldsIs ==
    ASSUME NEW x, NEW a, Holds(x, a), FitsWord(a)
    PROVE  x = FX_ONE * a
<1>. DEFINE R == FX_ONE
            H == Half
<1>1. R \in Nat \ {0} /\ H \in Nat \ {0} /\ R = 2 * H /\ x \in Int /\ a \in Int
  BY WordFacts DEF Holds
<1>2. PICK k \in Int : x = R * (a + k * R)
  BY DEF Holds
<1>3. -H < a /\ a < H
  BY <1>1 DEF FitsWord, AbsVal, Half
<1>4. -(R * H) <= x /\ x < R * H
  BY DEF Holds
<1>. HIDE DEF R, H
<1>. DEFINE P == R * R
            p == R * H
            y == R * a
<1>5. P \in Nat \ {0} /\ P = 2 * p /\ x = y + P * k /\ y \in Int /\ p \in Int
  BY <1>1, <1>2
<1>6. -p < y /\ y < p
  <2>. DEFINE u == a + 1
              v == -H + 1
  <2>1. u \in Int /\ u <= H /\ v \in Int /\ v <= a
    BY <1>1, <1>3
  <2>2. u * R = R * a + R /\ v * R = R - R * H /\ a * R = R * a /\ H * R = R * H
    BY <1>1
  <2>. HIDE DEF u, v
  <2>3. u * R <= H * R /\ v * R <= a * R
    BY <1>1, <2>1, IntProductMono
  <2>4. R * a \in Int /\ R * H \in Int
    BY <1>1
  <2>. QED
    BY <1>1, <2>2, <2>3, <2>4
<1>. HIDE DEF P, p, y
<1>7. P * k < P /\ -(P * k) < P /\ P * 0 = 0
  <2>1. P * k \in Int
    BY <1>5
  <2>2. p \in Int /\ -p < y /\ y < p /\ -p <= x /\ x < p
    BY <1>4, <1>5, <1>6 DEF p
  <2>3. P * 0 = 0
    BY <1>5
  <2>. DEFINE t == P * k
  <2>. HIDE DEF t
  <2>4. t \in Int /\ P = 2 * p /\ x = y + t /\ y \in Int
    BY <1>5, <2>1 DEF t
  <2>5. t < P /\ -t < P
    BY <2>2, <2>4
  <2>. QED
    BY <2>3, <2>5 DEF t
<1>8. k = 0
  <2>. DEFINE z == 0
  <2>1. z \in Int /\ P * k - P * z < P /\ P * z - P * k < P
    BY <1>5, <1>7
  <2>. HIDE DEF z
  <2>2. k = z
    BY <1>5, <2>1, SameMultiple
  <2>. QED
    BY <2>2 DEF z
<1>. QED
  BY <1>5, <1>8 DEF y, R

\* Vectors, component by component.
HoldsPoint(v, w) == Holds(v[1], w[1]) /\ Holds(v[2], w[2]) /\ Holds(v[3], w[3])

LEMMA PointIs ==
    ASSUME NEW v \in FxPoints, Whole(v)
    PROVE  HoldsPoint(v, Units(v))
<1>1. \A i \in Axes : /\ v[i] \in Int /\ v[i] % FX_ONE = 0
                       /\ -(FX_ONE * Half) <= v[i] /\ v[i] < FX_ONE * Half
  <2>1. \A i \in Axes : v[i] \in FxWords /\ v[i] % FX_ONE = 0
    BY DEF FxPoints, Whole
  <2>2. \A n \in FxWords : n \in Int /\ -(FX_ONE * Half) <= n /\ n < FX_ONE * Half
    <3>. DEFINE p == FX_ONE * Half
    <3>1. p \in Int /\ FX_MAX = p - 1 /\ 2 ^ (FXW - 1) = p
      BY WordFacts
    <3>. HIDE DEF p
    <3>2. \A n \in FxWords : n \in Int /\ -p <= n /\ n < p
      BY <3>1 DEF FxWords
    <3>. QED
      BY <3>2 DEF p
  <2>. QED
    BY <2>1, <2>2
<1>2. \A i \in Axes : Holds(v[i], v[i] \div FX_ONE)
  BY <1>1, HoldsWhole
<1>. QED
  BY <1>2 DEF HoldsPoint, Units, Axes

LEMMA MinusIs ==
    ASSUME NEW v, NEW w, NEW a, NEW b, HoldsPoint(v, a), HoldsPoint(w, b)
    PROVE  HoldsPoint(Minus(v, w), Diff(a, b))
BY HoldsMinus DEF HoldsPoint, Minus, Diff, Axes

LEMMA DotIs ==
    ASSUME NEW v, NEW w, NEW a, NEW b, HoldsPoint(v, a), HoldsPoint(w, b)
    PROVE  Holds(FxDot(v, w), Dot(a, b))
<1>1. /\ Holds(fx_mul(v[1], w[1]), a[1] * b[1])
      /\ Holds(fx_mul(v[2], w[2]), a[2] * b[2])
      /\ Holds(fx_mul(v[3], w[3]), a[3] * b[3])
  BY HoldsProduct DEF HoldsPoint
<1>. QED
  BY <1>1, HoldsSum DEF FxDot, Dot

LEMMA CrossIs ==
    ASSUME NEW v, NEW w, NEW a, NEW b, HoldsPoint(v, a), HoldsPoint(w, b)
    PROVE  HoldsPoint(FxCross(v, w), Cross(a, b))
<1>1. /\ Holds(fx_mul(v[2], w[3]), a[2] * b[3]) /\ Holds(fx_mul(v[3], w[2]), a[3] * b[2])
      /\ Holds(fx_mul(v[3], w[1]), a[3] * b[1]) /\ Holds(fx_mul(v[1], w[3]), a[1] * b[3])
      /\ Holds(fx_mul(v[1], w[2]), a[1] * b[2]) /\ Holds(fx_mul(v[2], w[1]), a[2] * b[1])
  BY HoldsProduct DEF HoldsPoint
<1>2. /\ Holds(se32(fx_mul(v[2], w[3]) - fx_mul(v[3], w[2])), a[2] * b[3] - a[3] * b[2])
      /\ Holds(se32(fx_mul(v[3], w[1]) - fx_mul(v[1], w[3])), a[3] * b[1] - a[1] * b[3])
      /\ Holds(se32(fx_mul(v[1], w[2]) - fx_mul(v[2], w[1])), a[1] * b[2] - a[2] * b[1])
  BY <1>1, HoldsMinus
<1>. QED
  BY <1>2 DEF HoldsPoint, FxCross, Cross

\* The four determinants of the intersection are the mixed products of the integers.
LEMMA DeterminantsAre ==
    ASSUME NEW o \in FxPoints, NEW d \in FxPoints, NEW x \in FxPoints, NEW y \in FxPoints, NEW z \in FxPoints,
           Whole(o), Whole(d), Whole(x), Whole(y), Whole(z)
    PROVE  LET e1 == Minus(y, x)
               e2 == Minus(z, x)
               s == Minus(o, x)
               h == FxCross(d, e2)
               q == FxCross(s, e1)
               E1 == Diff(Units(y), Units(x))
               E2 == Diff(Units(z), Units(x))
               S == Diff(Units(o), Units(x))
               D == Units(d)
           IN  /\ Holds(FxDot(e1, h), Dot(E1, Cross(D, E2)))
               /\ Holds(FxDot(s, h), Dot(S, Cross(D, E2)))
               /\ Holds(FxDot(d, q), Dot(D, Cross(S, E1)))
               /\ Holds(FxDot(e2, q), Dot(E2, Cross(S, E1)))
<1>. DEFINE e1 == Minus(y, x)
            e2 == Minus(z, x)
            s == Minus(o, x)
            h == FxCross(d, e2)
            q == FxCross(s, e1)
            E1 == Diff(Units(y), Units(x))
            E2 == Diff(Units(z), Units(x))
            S == Diff(Units(o), Units(x))
            D == Units(d)
            H == Cross(D, E2)
            Q == Cross(S, E1)
<1>1. HoldsPoint(e1, E1) /\ HoldsPoint(e2, E2) /\ HoldsPoint(s, S) /\ HoldsPoint(d, D)
  BY PointIs, MinusIs
<1>. HIDE DEF e1, e2, s, E1, E2, S, D
<1>2. HoldsPoint(h, H) /\ HoldsPoint(q, Q)
  BY <1>1, CrossIs
<1>. HIDE DEF h, q, H, Q
<1>3. /\ Holds(FxDot(e1, h), Dot(E1, H)) /\ Holds(FxDot(s, h), Dot(S, H))
      /\ Holds(FxDot(d, q), Dot(D, Q)) /\ Holds(FxDot(e2, q), Dot(E2, Q))
  BY <1>1, <1>2, DotIs
<1>. QED
  BY <1>3 DEF e1, e2, s, h, q, E1, E2, S, D, H, Q

-----------------------------------------------------------------------------
(* The mixed products.  p, q and s are two edges from a corner and the way   *)
(* from there to the ray's origin, d is the ray's direction.                 *)

LEMMA MixedProducts ==
    ASSUME NEW p1 \in Int, NEW p2 \in Int, NEW p3 \in Int, NEW q1 \in Int, NEW q2 \in Int, NEW q3 \in Int,
           NEW s1 \in Int, NEW s2 \in Int, NEW s3 \in Int, NEW d1 \in Int, NEW d2 \in Int, NEW d3 \in Int
    PROVE  LET det == p1 * (d2 * q3 - d3 * q2) + p2 * (d3 * q1 - d1 * q3) + p3 * (d1 * q2 - d2 * q1)
               u == s1 * (d2 * q3 - d3 * q2) + s2 * (d3 * q1 - d1 * q3) + s3 * (d1 * q2 - d2 * q1)
               v == d1 * (s2 * p3 - s3 * p2) + d2 * (s3 * p1 - s1 * p3) + d3 * (s1 * p2 - s2 * p1)
               t == q1 * (s2 * p3 - s3 * p2) + q2 * (s3 * p1 - s1 * p3) + q3 * (s1 * p2 - s2 * p1)
               n1 == p2 * q3 - p3 * q2
               n2 == p3 * q1 - p1 * q3
               n3 == p1 * q2 - p2 * q1
               x1 == -s1
               x2 == -s2
               x3 == -s3
               y1 == p1 - s1
               y2 == p2 - s2
               y3 == p3 - s3
               z1 == q1 - s1
               z2 == q2 - s2
               z3 == q3 - s3
           IN  /\ d1 * (x2 * y3 - x3 * y2) + d2 * (x3 * y1 - x1 * y3) + d3 * (x1 * y2 - x2 * y1) = -v
               /\ d1 * (z2 * x3 - z3 * x2) + d2 * (z3 * x1 - z1 * x3) + d3 * (z1 * x2 - z2 * x1) = -u
               /\ d1 * (y2 * z3 - y3 * z2) + d2 * (y3 * z1 - y1 * z3) + d3 * (y1 * z2 - y2 * z1) = u + v - det
               /\ n1 * d1 + n2 * d2 + n3 * d3 = -det
               /\ n1 * x1 + n2 * x2 + n3 * x3 = -t
               /\ det \in Int /\ u \in Int /\ v \in Int /\ t \in Int
OBVIOUS

LEMMA FitsIs ==
    ASSUME NEW a \in Int, FitsWord(a)
    PROVE  /\ -Half < a /\ a < Half /\ FitsWord(-a)
           /\ -(FX_ONE * Half) <= FX_ONE * a /\ FX_ONE * a < FX_ONE * Half
<1>. DEFINE R == FX_ONE
            H == Half
<1>1. R \in Nat \ {0} /\ H \in Nat \ {0}
  BY WordFacts
<1>2. -H < a /\ a < H /\ FitsWord(-a)
  BY <1>1 DEF FitsWord, AbsVal, Half
<1>. HIDE DEF R, H
<1>3. -(R * H) <= R * a /\ R * a < R * H
  <2>. DEFINE u == a + 1
              v == -H
  <2>1. u \in Int /\ u <= H /\ v \in Int /\ v <= a
    BY <1>1, <1>2
  <2>2. u * R = R * a + R /\ v * R = -(R * H) /\ a * R = R * a /\ H * R = R * H
    BY <1>1
  <2>. HIDE DEF u, v
  <2>3. u * R <= H * R /\ v * R <= a * R
    BY <1>1, <2>1, IntProductMono
  <2>4. R * a \in Int /\ R * H \in Int
    BY <1>1
  <2>. QED
    BY <1>1, <2>2, <2>3, <2>4
<1>. QED
  BY <1>2, <1>3 DEF R, H

\* Moving the sign of the determinant to a number that fits loses nothing.
LEMMA OrientedIs ==
    ASSUME NEW det \in Int, NEW a \in Int, FitsWord(a)
    PROVE  Oriented(det, FX_ONE * a) = FX_ONE * (IF det < 0 THEN -a ELSE a)
<1>. DEFINE R == FX_ONE
            b == -a
            y == -(R * a)
<1>1. R \in Nat \ {0}
  BY WordFacts
<1>2. b \in Int /\ FitsWord(b)
  BY FitsIs
<1>. HIDE DEF R
<1>3. y \in Int /\ y = R * b /\ y = R * (b + 0 * R) /\ 0 \in Int
  BY <1>1
<1>. HIDE DEF b, y
<1>5. Holds(se32(y), b)
  BY <1>2, <1>3, HoldsWrapped DEF R
<1>6. se32(y) = R * b
  BY <1>2, <1>5, HoldsIs DEF R
<1>. QED
  BY <1>6 DEF Oriented, R, b, y

\* The hit test, when the words of the four determinants hold numbers that fit.
LEMMA HitTestIs ==
    ASSUME NEW D \in Int, NEW u \in Int, NEW v \in Int, NEW t \in Int,
           FitsWord(D), FitsWord(u), FitsWord(v), FitsWord(t)
    PROVE  LET det == FX_ONE * D
               unum == Oriented(det, FX_ONE * u)
               vnum == Oriented(det, FX_ONE * v)
               tnum == Oriented(det, FX_ONE * t)
           IN  (det # 0 /\ unum >= 0 /\ vnum >= 0 /\ unum + vnum <= Wrap(Oriented(det, det)) /\ tnum > 0)
               <=> \/ D > 0 /\ u >= 0 /\ v >= 0 /\ u + v <= D /\ t > 0
                   \/ D < 0 /\ u <= 0 /\ v <= 0 /\ u + v >= D /\ t < 0
<1>. DEFINE R == FX_ONE
            H == Half
            det == R * D
            Along(n) == IF det < 0 THEN -n ELSE n
            b == Along(D)
            x == Along(u)
            y == Along(v)
            z == Along(t)
            unum == Oriented(det, R * u)
            vnum == Oriented(det, R * v)
            tnum == Oriented(det, R * t)
            ndet == Oriented(det, R * D)
<1>1. R \in Nat \ {0} /\ H \in Nat \ {0} /\ R = 2 * H
  BY WordFacts
<1>2. -H < D /\ D < H
  BY FitsIs
<1>. HIDE DEF R, H
<1>3. det \in Int /\ (det < 0 <=> D < 0) /\ (det = 0 <=> D = 0)
  BY <1>1
<1>. HIDE DEF det
<1>4. unum = R * x /\ vnum = R * y /\ tnum = R * z /\ ndet = R * b
  BY <1>3, OrientedIs DEF R
<1>5. x \in Int /\ y \in Int /\ z \in Int /\ b \in Int /\ b >= 0 /\ b < H
      /\ x = (IF D < 0 THEN -u ELSE u) /\ y = (IF D < 0 THEN -v ELSE v)
      /\ z = (IF D < 0 THEN -t ELSE t) /\ b = (IF D < 0 THEN -D ELSE D)
  BY <1>1, <1>2, <1>3
<1>. HIDE DEF unum, vnum, tnum, ndet, x, y, z, b
<1>6. Wrap(R * b) = R * b
  <2>. DEFINE n == R * b
              P == R * R
  <2>1. n \in Nat /\ P \in Nat \ {0} /\ n < P
    <3>1. b \in Nat /\ b < R
      BY <1>1, <1>5
    <3>2. b * R < R * R /\ b * R = R * b
      BY <1>1, <3>1, StrictProduct
    <3>. QED
      BY <1>1, <3>1, <3>2
  <2>. HIDE DEF n, P
  <2>2. n % P = n
    BY <2>1
  <2>3. 2 ^ FXW = P
    BY WordFacts DEF P, R
  <2>. QED
    BY <2>2, <2>3 DEF Wrap, n
<1>7. R * x >= 0 <=> x >= 0
  BY <1>1, <1>5
<1>8. R * y >= 0 <=> y >= 0
  BY <1>1, <1>5
<1>9. R * z > 0 <=> z > 0
  BY <1>1, <1>5
<1>10. R * x + R * y <= R * b <=> x + y <= b
  <2>. DEFINE c == b - x - y
  <2>1. c \in Int /\ R * b - (R * x + R * y) = R * c /\ R * b \in Int /\ R * x \in Int /\ R * y \in Int
    BY <1>1, <1>5
  <2>2. (c >= 0) <=> (x + y <= b)
    BY <1>5
  <2>. HIDE DEF c
  <2>3. R * c >= 0 <=> c >= 0
    BY <1>1, <2>1
  <2>. QED
    BY <2>1, <2>2, <2>3
<1>11. (det # 0 /\ unum >= 0 /\ vnum >= 0 /\ unum + vnum <= Wrap(ndet) /\ tnum > 0)
       <=> D # 0 /\ x >= 0 /\ y >= 0 /\ x + y <= b /\ z > 0
  BY <1>3, <1>4, <1>6, <1>7, <1>8, <1>9, <1>10
<1>12. (D # 0 /\ x >= 0 /\ y >= 0 /\ x + y <= b /\ z > 0)
       <=> \/ D > 0 /\ u >= 0 /\ v >= 0 /\ u + v <= D /\ t > 0
           \/ D < 0 /\ u <= 0 /\ v <= 0 /\ u + v >= D /\ t < 0
  BY <1>5
<1>. QED
  BY <1>11, <1>12 DEF unum, vnum, tnum, ndet, det, R

\* The determinant of the intersection and the numerators of u, v and t.
Determinants(o, d, x, y, z, D, u, v, t) ==
    LET E1 == Diff(y, x)
        E2 == Diff(z, x)
        S == Diff(o, x)
    IN  /\ D = Dot(E1, Cross(d, E2)) /\ u = Dot(S, Cross(d, E2))
        /\ v = Dot(d, Cross(S, E1)) /\ t = Dot(E2, Cross(S, E1))

LEMMA TriangleHit ==
    ASSUME NEW o \in FxPoints, NEW d \in FxPoints, NEW x \in FxPoints, NEW y \in FxPoints, NEW z \in FxPoints,
           Whole(o), Whole(d), Whole(x), Whole(y), Whole(z),
           NEW D \in Int, NEW u \in Int, NEW v \in Int, NEW t \in Int,
           FitsWord(D), FitsWord(u), FitsWord(v), FitsWord(t),
           Determinants(Units(o), Units(d), Units(x), Units(y), Units(z), D, u, v, t)
    PROVE  tri_isect(o, d, x, y, z).hit
             <=> \/ D > 0 /\ u >= 0 /\ v >= 0 /\ u + v <= D /\ t > 0
                 \/ D < 0 /\ u <= 0 /\ v <= 0 /\ u + v >= D /\ t < 0
<1>. DEFINE e1 == Minus(y, x)
            e2 == Minus(z, x)
            s == Minus(o, x)
            h == FxCross(d, e2)
            q == FxCross(s, e1)
            det == FxDot(e1, h)
            un == FxDot(s, h)
            vn == FxDot(d, q)
            tn == FxDot(e2, q)
            hits == /\ det # 0 /\ Oriented(det, un) >= 0 /\ Oriented(det, vn) >= 0
                    /\ Oriented(det, un) + Oriented(det, vn) <= Wrap(Oriented(det, det))
                    /\ Oriented(det, tn) > 0
<1>1. tri_isect(o, d, x, y, z).hit <=> hits
  <2>1. tri_isect(o, d, x, y, z).hit = hits
    BY DEF tri_isect, Miss
  <2>. QED
    BY <2>1
<1>2. Holds(det, D) /\ Holds(un, u) /\ Holds(vn, v) /\ Holds(tn, t)
  BY DeterminantsAre DEF Determinants
<1>3. det = FX_ONE * D /\ un = FX_ONE * u /\ vn = FX_ONE * v /\ tn = FX_ONE * t
  <2>. HIDE DEF det, un, vn, tn
  <2>. QED
    BY <1>2, HoldsIs
<1>. HIDE DEF det, un, vn, tn
<1>4. hits <=> \/ D > 0 /\ u >= 0 /\ v >= 0 /\ u + v <= D /\ t > 0
               \/ D < 0 /\ u <= 0 /\ v <= 0 /\ u + v >= D /\ t < 0
  <2>. DEFINE w == FX_ONE * D
              x1 == Oriented(w, FX_ONE * u)
              x2 == Oriented(w, FX_ONE * v)
              x3 == Oriented(w, FX_ONE * t)
              x4 == Wrap(Oriented(w, w))
  <2>1. (w # 0 /\ x1 >= 0 /\ x2 >= 0 /\ x1 + x2 <= x4 /\ x3 > 0)
           <=> \/ D > 0 /\ u >= 0 /\ v >= 0 /\ u + v <= D /\ t > 0
               \/ D < 0 /\ u <= 0 /\ v <= 0 /\ u + v >= D /\ t < 0
    BY HitTestIs
  <2>2. det = w /\ Oriented(det, un) = x1 /\ Oriented(det, vn) = x2 /\ Oriented(det, tn) = x3
        /\ Wrap(Oriented(det, det)) = x4
    BY <1>3
  <2>. HIDE DEF w, x1, x2, x3, x4
  <2>. QED
    BY <2>1, <2>2
<1>. QED
  BY <1>1, <1>4 DEF det, un, vn, tn

\* The same numbers, seen from the ray's origin: the sides of the triangle's edges the
\* ray's line passes on, and the plane's normal.
SidesMatch(o, d, x, y, z) ==
    LET E1 == Diff(y, x)
        E2 == Diff(z, x)
        S == Diff(o, x)
        D == Dot(E1, Cross(d, E2))
        u == Dot(S, Cross(d, E2))
        v == Dot(d, Cross(S, E1))
        t == Dot(E2, Cross(S, E1))
        N == Cross(Diff(Diff(y, o), Diff(x, o)), Diff(Diff(z, o), Diff(x, o)))
    IN  /\ D \in Int /\ u \in Int /\ v \in Int /\ t \in Int
        /\ Dot(d, Cross(Diff(x, o), Diff(y, o))) = -v
        /\ Dot(d, Cross(Diff(y, o), Diff(z, o))) = u + v - D
        /\ Dot(d, Cross(Diff(z, o), Diff(x, o))) = -u
        /\ Dot(N, d) = -D /\ Dot(N, Diff(x, o)) = -t

LEMMA SidesAre ==
    ASSUME NEW o \in [Axes -> Int], NEW d \in [Axes -> Int],
           NEW x \in [Axes -> Int], NEW y \in [Axes -> Int], NEW z \in [Axes -> Int]
    PROVE  SidesMatch(o, d, x, y, z)
<1>. DEFINE E1 == Diff(y, x)
            E2 == Diff(z, x)
            S == Diff(o, x)
            X == Diff(x, o)
            Y == Diff(y, o)
            Z == Diff(z, o)
            P == Diff(Y, X)
            Q == Diff(Z, X)
            p1 == y[1] - x[1]
            p2 == y[2] - x[2]
            p3 == y[3] - x[3]
            q1 == z[1] - x[1]
            q2 == z[2] - x[2]
            q3 == z[3] - x[3]
            s1 == o[1] - x[1]
            s2 == o[2] - x[2]
            s3 == o[3] - x[3]
            d1 == d[1]
            d2 == d[2]
            d3 == d[3]
<1>1. /\ x[1] \in Int /\ x[2] \in Int /\ x[3] \in Int /\ y[1] \in Int /\ y[2] \in Int /\ y[3] \in Int
      /\ z[1] \in Int /\ z[2] \in Int /\ z[3] \in Int /\ o[1] \in Int /\ o[2] \in Int /\ o[3] \in Int
      /\ d1 \in Int /\ d2 \in Int /\ d3 \in Int
  BY DEF Axes
<1>2. /\ p1 \in Int /\ p2 \in Int /\ p3 \in Int /\ q1 \in Int /\ q2 \in Int /\ q3 \in Int
      /\ s1 \in Int /\ s2 \in Int /\ s3 \in Int
  BY <1>1
<1>3. /\ E1[1] = p1 /\ E1[2] = p2 /\ E1[3] = p3 /\ E2[1] = q1 /\ E2[2] = q2 /\ E2[3] = q3
      /\ S[1] = s1 /\ S[2] = s2 /\ S[3] = s3
  BY DEF Diff, Axes
<1>4. /\ X[1] = -s1 /\ X[2] = -s2 /\ X[3] = -s3
      /\ Y[1] = p1 - s1 /\ Y[2] = p2 - s2 /\ Y[3] = p3 - s3
      /\ Z[1] = q1 - s1 /\ Z[2] = q2 - s2 /\ Z[3] = q3 - s3
  BY <1>1 DEF Diff, Axes
<1>. HIDE DEF E1, E2, S, X, Y, Z
<1>5. /\ P[1] = p1 /\ P[2] = p2 /\ P[3] = p3 /\ Q[1] = q1 /\ Q[2] = q2 /\ Q[3] = q3
  <2>. HIDE DEF p1, p2, p3, q1, q2, q3, s1, s2, s3
  <2>1. /\ P[1] = Y[1] - X[1] /\ P[2] = Y[2] - X[2] /\ P[3] = Y[3] - X[3]
        /\ Q[1] = Z[1] - X[1] /\ Q[2] = Z[2] - X[2] /\ Q[3] = Z[3] - X[3]
    BY DEF Diff, Axes
  <2>. QED
    BY <1>2, <1>4, <2>1
<1>. HIDE DEF p1, p2, p3, q1, q2, q3, s1, s2, s3, d1, d2, d3, P, Q
<1>. DEFINE det == p1 * (d2 * q3 - d3 * q2) + p2 * (d3 * q1 - d1 * q3) + p3 * (d1 * q2 - d2 * q1)
            u == s1 * (d2 * q3 - d3 * q2) + s2 * (d3 * q1 - d1 * q3) + s3 * (d1 * q2 - d2 * q1)
            v == d1 * (s2 * p3 - s3 * p2) + d2 * (s3 * p1 - s1 * p3) + d3 * (s1 * p2 - s2 * p1)
            t == q1 * (s2 * p3 - s3 * p2) + q2 * (s3 * p1 - s1 * p3) + q3 * (s1 * p2 - s2 * p1)
<1>6. /\ Dot(E1, Cross(d, E2)) = det /\ Dot(S, Cross(d, E2)) = u
      /\ Dot(d, Cross(S, E1)) = v /\ Dot(E2, Cross(S, E1)) = t
  BY <1>3 DEF Dot, Cross, d1, d2, d3
<1>. DEFINE x1 == -s1
            x2 == -s2
            x3 == -s3
            y1 == p1 - s1
            y2 == p2 - s2
            y3 == p3 - s3
            z1 == q1 - s1
            z2 == q2 - s2
            z3 == q3 - s3
            n1 == p2 * q3 - p3 * q2
            n2 == p3 * q1 - p1 * q3
            n3 == p1 * q2 - p2 * q1
<1>7. /\ d1 * (x2 * y3 - x3 * y2) + d2 * (x3 * y1 - x1 * y3) + d3 * (x1 * y2 - x2 * y1) = -v
      /\ d1 * (z2 * x3 - z3 * x2) + d2 * (z3 * x1 - z1 * x3) + d3 * (z1 * x2 - z2 * x1) = -u
      /\ d1 * (y2 * z3 - y3 * z2) + d2 * (y3 * z1 - y1 * z3) + d3 * (y1 * z2 - y2 * z1) = u + v - det
      /\ n1 * d1 + n2 * d2 + n3 * d3 = -det
      /\ n1 * x1 + n2 * x2 + n3 * x3 = -t
      /\ det \in Int /\ u \in Int /\ v \in Int /\ t \in Int
  BY <1>1, <1>2, MixedProducts
<1>. HIDE DEF det, u, v, t, x1, x2, x3, y1, y2, y3, z1, z2, z3, n1, n2, n3
<1>8. /\ X[1] = x1 /\ X[2] = x2 /\ X[3] = x3 /\ Y[1] = y1 /\ Y[2] = y2 /\ Y[3] = y3
      /\ Z[1] = z1 /\ Z[2] = z2 /\ Z[3] = z3
  BY <1>4 DEF x1, x2, x3, y1, y2, y3, z1, z2, z3
<1>9. /\ Dot(d, Cross(X, Y)) = d1 * (x2 * y3 - x3 * y2) + d2 * (x3 * y1 - x1 * y3) + d3 * (x1 * y2 - x2 * y1)
      /\ Dot(d, Cross(Z, X)) = d1 * (z2 * x3 - z3 * x2) + d2 * (z3 * x1 - z1 * x3) + d3 * (z1 * x2 - z2 * x1)
      /\ Dot(d, Cross(Y, Z)) = d1 * (y2 * z3 - y3 * z2) + d2 * (y3 * z1 - y1 * z3) + d3 * (y1 * z2 - y2 * z1)
  BY <1>8 DEF Dot, Cross, d1, d2, d3
<1>10. Dot(Cross(P, Q), d) = n1 * d1 + n2 * d2 + n3 * d3
       /\ Dot(Cross(P, Q), X) = n1 * x1 + n2 * x2 + n3 * x3
  BY <1>5, <1>8 DEF Dot, Cross, d1, d2, d3, n1, n2, n3
<1>. QED
  BY <1>6, <1>7, <1>9, <1>10 DEF SidesMatch, E1, E2, S, X, Y, Z, P, Q

-----------------------------------------------------------------------------
(* The theorems. *)

RtAnswer ==
    \/ answer = <<>>
    \/ query.k = "recip" /\ answer = <<Reciprocal(query.det)>>
    \/ query.k = "tri" /\ answer = <<tri_isect(query.o, query.d, query.v[1], query.v[2], query.v[3])>>

\* The answer is the model's, to a call the model takes.
THEOREM RtAnswered == RtSpec => [](RtCallable(query) /\ RtAnswer)
<1>1. Asking => RtCallable(query) /\ RtAnswer
  BY RtQueriesAssumption DEF Asking, RtAnswer
<1>2. RtCallable(query) /\ RtAnswer /\ [RtNext]_<<query, answer>> => (RtCallable(query) /\ RtAnswer)'
  <2>1. ASSUME [RtNext]_<<query, answer>> PROVE query' = query
    BY <2>1 DEF RtNext, Reciprocate, HitTriangle, Ask
  <2>2. ASSUME RtCallable(query), query' = query PROVE RtCallable(query)'
    BY <2>2 DEF RtCallable
  <2>3. ASSUME RtNext, query' = query PROVE RtAnswer'
    BY <2>3 DEF RtAnswer, RtNext, Reciprocate, HitTriangle, Ask
  <2>4. ASSUME RtAnswer, UNCHANGED <<query, answer>> PROVE RtAnswer'
    BY <2>4 DEF RtAnswer
  <2>. QED
    BY <2>1, <2>2, <2>3, <2>4
<1>. QED
  BY <1>1, <1>2, PTL DEF RtSpec

LEMMA UnitsType ==
    ASSUME NEW v \in FxPoints
    PROVE  Units(v) \in [Axes -> Int]
<1>1. \A i \in Axes : v[i] \in Int
  <2>1. FX_MAX \in Int /\ 2 ^ (FXW - 1) \in Int
    BY WordFacts
  <2>2. \A n \in FxWords : n \in Int
    BY <2>1 DEF FxWords
  <2>. QED
    BY <2>2 DEF FxPoints
<1>2. FX_ONE \in Nat \ {0}
  BY WordFacts
<1>3. \A i \in Axes : v[i] \div FX_ONE \in Int
  BY <1>1, <1>2, IntDivMod
<1>. QED
  BY <1>3 DEF Units

\* Two numbers of the signs of the determinant and of the distance.
LEMMA SignRule ==
    ASSUME NEW D \in Int, NEW t \in Int
    PROVE  (-D) * (-t) > 0 <=> (D > 0 /\ t > 0) \/ (D < 0 /\ t < 0)
<1>1. CASE D = 0
  BY <1>1
<1>2. CASE t = 0
  BY <1>2
<1>3. CASE D > 0 /\ t > 0
  BY <1>3
<1>4. CASE D < 0 /\ t < 0
  BY <1>4
<1>5. CASE D > 0 /\ t < 0
  <2>. DEFINE n == -t
  <2>1. n \in Nat /\ n > 0 /\ (-D) * (-t) = -(D * n)
    BY <1>5
  <2>. HIDE DEF n
  <2>2. D * n > 0
    BY <1>5, <2>1
  <2>3. D * n \in Int
    BY <2>1
  <2>. QED
    BY <1>5, <2>1, <2>2, <2>3
<1>6. CASE D < 0 /\ t > 0
  <2>. DEFINE n == -D
  <2>1. n \in Nat /\ n > 0 /\ (-D) * (-t) = -(n * t)
    BY <1>6
  <2>. HIDE DEF n
  <2>2. n * t > 0
    BY <1>6, <2>1
  <2>3. n * t \in Int
    BY <2>1
  <2>. QED
    BY <1>6, <2>1, <2>2, <2>3
<1>. QED
  BY <1>1, <1>2, <1>3, <1>4, <1>5, <1>6

\* The hit test of the numerators is the geometry of the sides and the plane.
LEMMA HitIsGeometry ==
    ASSUME NEW D \in Int, NEW u \in Int, NEW v \in Int, NEW t \in Int
    PROVE  LET sides == {-v, u + v - D, -u}
           IN  (\/ D > 0 /\ u >= 0 /\ v >= 0 /\ u + v <= D /\ t > 0
                \/ D < 0 /\ u <= 0 /\ v <= 0 /\ u + v >= D /\ t < 0)
               <=> /\ (\A x \in sides : x >= 0) \/ (\A x \in sides : x <= 0)
                   /\ (-D) * (-t) > 0
<1>. DEFINE sides == {-v, u + v - D, -u}
            a == \A x \in sides : x >= 0
            b == \A x \in sides : x <= 0
<1>1. a <=> v <= 0 /\ u + v >= D /\ u <= 0
  OBVIOUS
<1>2. b <=> v >= 0 /\ u + v <= D /\ u >= 0
  OBVIOUS
<1>3. (-D) * (-t) > 0 <=> (D > 0 /\ t > 0) \/ (D < 0 /\ t < 0)
  BY SignRule
<1>4. ((a \/ b) /\ ((D > 0 /\ t > 0) \/ (D < 0 /\ t < 0)))
      <=> \/ D > 0 /\ u >= 0 /\ v >= 0 /\ u + v <= D /\ t > 0
          \/ D < 0 /\ u <= 0 /\ v <= 0 /\ u + v >= D /\ t < 0
  <2>. HIDE DEF a, b
  <2>. QED
    BY <1>1, <1>2
<1>. QED
  BY <1>3, <1>4

\* Whatever the word size: an intersection whose four determinants fit in words is the
\* geometric one, even when products and sums on the way wrap around.
THEOREM HitsAlwaysGeometric == RtSpec => []HitsAreGeometric
<1>1. RtCallable(query) /\ RtAnswer => HitsAreGeometric
  <2>. DEFINE o == query.o
              d == query.d
              x == query.v[1]
              y == query.v[2]
              z == query.v[3]
              sides == {Side(query, 1, 2), Side(query, 2, 3), Side(query, 3, 1)}
              normal == Normal(Seen(query))
  <2>1. SUFFICES ASSUME RtCallable(query), RtAnswer, Asked({"tri"}), InRange(query)
                 PROVE  Got.hit <=> /\ (\A s \in sides : s >= 0) \/ (\A s \in sides : s <= 0)
                                    /\ Dot(normal, Units(d)) * Dot(normal, Seen(query)[1]) > 0
    BY DEF HitsAreGeometric
  <2>2. query.k = "tri" /\ Got = tri_isect(o, d, x, y, z)
    BY <2>1 DEF RtAnswer, Asked, Got
  <2>3. o \in FxPoints /\ d \in FxPoints /\ x \in FxPoints /\ y \in FxPoints /\ z \in FxPoints
    BY <2>1, <2>2 DEF RtCallable, Axes
  <2>4. Whole(o) /\ Whole(d) /\ Whole(x) /\ Whole(y) /\ Whole(z)
    BY <2>1 DEF InRange, Axes
  <2>. DEFINE O == Units(o)
              V == Units(d)
              X == Units(x)
              Y == Units(y)
              Z == Units(z)
  <2>5. O \in [Axes -> Int] /\ V \in [Axes -> Int] /\ X \in [Axes -> Int] /\ Y \in [Axes -> Int] /\ Z \in [Axes -> Int]
    BY <2>3, UnitsType
  <2>6. Seen(query)[1] = Diff(X, O) /\ Seen(query)[2] = Diff(Y, O) /\ Seen(query)[3] = Diff(Z, O)
    BY DEF Seen, Axes
  <2>. DEFINE D == Dot(Diff(Y, X), Cross(V, Diff(Z, X)))
              u == Dot(Diff(O, X), Cross(V, Diff(Z, X)))
              v == Dot(V, Cross(Diff(O, X), Diff(Y, X)))
              t == Dot(Diff(Z, X), Cross(Diff(O, X), Diff(Y, X)))
              N == Cross(Diff(Diff(Y, O), Diff(X, O)), Diff(Diff(Z, O), Diff(X, O)))
  <2>7. /\ D \in Int /\ u \in Int /\ v \in Int /\ t \in Int
        /\ Dot(V, Cross(Diff(X, O), Diff(Y, O))) = -v
        /\ Dot(V, Cross(Diff(Y, O), Diff(Z, O))) = u + v - D
        /\ Dot(V, Cross(Diff(Z, O), Diff(X, O))) = -u
        /\ Dot(N, V) = -D /\ Dot(N, Diff(X, O)) = -t
    <3>. HIDE DEF O, V, X, Y, Z
    <3>1. SidesMatch(O, V, X, Y, Z)
      BY <2>5, SidesAre
    <3>. QED
      BY <3>1 DEF SidesMatch
  <2>8. /\ Side(query, 1, 2) = -v /\ Side(query, 2, 3) = u + v - D /\ Side(query, 3, 1) = -u
        /\ Dot(normal, V) = -D /\ Dot(normal, Seen(query)[1]) = -t
    <3>1. normal = N
      BY <2>6 DEF Normal
    <3>2. /\ Side(query, 1, 2) = Dot(V, Cross(Diff(X, O), Diff(Y, O)))
          /\ Side(query, 2, 3) = Dot(V, Cross(Diff(Y, O), Diff(Z, O)))
          /\ Side(query, 3, 1) = Dot(V, Cross(Diff(Z, O), Diff(X, O)))
      BY <2>6 DEF Side
    <3>. QED
      BY <2>6, <2>7, <3>1, <3>2
  <2>9. FitsWord(-v) /\ FitsWord(-u) /\ FitsWord(-D) /\ FitsWord(-t)
    BY <2>1, <2>8 DEF InRange
  <2>10. FitsWord(v) /\ FitsWord(u) /\ FitsWord(D) /\ FitsWord(t)
    <3>1. \A n \in Int : FitsWord(-n) => FitsWord(n)
      <4>1. TAKE n \in Int
      <4>2. HAVE FitsWord(-n)
      <4>. DEFINE m == -n
      <4>3. m \in Int /\ -m = n /\ FitsWord(m)
        BY <4>2
      <4>. HIDE DEF m
      <4>. QED
        BY <4>3, FitsIs
    <3>. HIDE DEF D, u, v, t
    <3>. QED
      BY <2>7, <2>9, <3>1
  <2>11. Got.hit <=> \/ D > 0 /\ u >= 0 /\ v >= 0 /\ u + v <= D /\ t > 0
                     \/ D < 0 /\ u <= 0 /\ v <= 0 /\ u + v >= D /\ t < 0
    <3>. HIDE DEF D, u, v, t, o, d, x, y, z
    <3>1. Determinants(O, V, X, Y, Z, D, u, v, t)
      BY DEF Determinants, D, u, v, t
    <3>2. tri_isect(o, d, x, y, z).hit
             <=> \/ D > 0 /\ u >= 0 /\ v >= 0 /\ u + v <= D /\ t > 0
                 \/ D < 0 /\ u <= 0 /\ v <= 0 /\ u + v >= D /\ t < 0
      BY <2>3, <2>4, <2>7, <2>10, <3>1, TriangleHit
    <3>. QED
      BY <2>2, <3>2
  <2>12. sides = {-v, u + v - D, -u}
    BY <2>8
  <2>. HIDE DEF D, u, v, t, sides, normal
  <2>13. LET S == {-v, u + v - D, -u}
         IN  (\/ D > 0 /\ u >= 0 /\ v >= 0 /\ u + v <= D /\ t > 0
              \/ D < 0 /\ u <= 0 /\ v <= 0 /\ u + v >= D /\ t < 0)
             <=> /\ (\A s \in S : s >= 0) \/ (\A s \in S : s <= 0)
                 /\ (-D) * (-t) > 0
    BY <2>7, HitIsGeometry
  <2>14. Dot(normal, Units(d)) * Dot(normal, Seen(query)[1]) = (-D) * (-t)
    BY <2>8
  <2>. QED
    BY <2>11, <2>12, <2>13, <2>14
<1>. QED
  BY <1>1, RtAnswered, PTL

-----------------------------------------------------------------------------
(* The Newton-Raphson reciprocal, on integers.  N is the mantissa's one, m a  *)
(* mantissa in N .. 2N - 1, and r stands for 1 / m in units that make         *)
(* 2 * m * r the square of N: what it misses is the error.                    *)

\* The error after a step is the square of the one before, in units of the square
\* of N, but for what the two quotients truncate.
Squared(N, E, F) ==
    LET e == E * E + 4 * (N * N * N) IN N * N * F <= e /\ -e <= N * N * F

\* A step on whole numbers: p and s are its quotients, f and g their remainders.
Steps(H, N, m, r, A, p, f, s, g) ==
    /\ H \in Nat \ {0} /\ N \in Nat /\ N = 2 * H /\ m \in Nat /\ m < 2 * N /\ r \in Nat
    /\ A \in Nat /\ A = m * r /\ A < N * N
    /\ p \in Int /\ f \in 0 .. N - 1 /\ A = N * p + f
    /\ s \in Int /\ g \in 0 .. H - 1 /\ r * (N - p) = H * s + g

LEMMA NewtonError ==
    ASSUME NEW H, NEW N, NEW m, NEW r, NEW A, NEW p, NEW f, NEW s, NEW g, Steps(H, N, m, r, A, p, f, s, g),
           NEW E, E = N * N - 2 * A, NEW F, F = N * N - 2 * (m * s)
    PROVE  Squared(N, E, F)
<1>0. /\ H \in Nat \ {0} /\ N \in Nat /\ N = 2 * H /\ m \in Nat /\ m < 2 * N /\ r \in Nat
      /\ A \in Nat /\ A = m * r /\ A < N * N
      /\ p \in Int /\ f \in 0 .. N - 1 /\ A = N * p + f
      /\ s \in Int /\ g \in 0 .. H - 1 /\ r * (N - p) = H * s + g
  BY DEF Steps
<1>. USE <1>0
<1>. DEFINE X == m * s
            C == N * N * N
            k == N * (m * g)
            j == A * f
<1>00. E = N * N - 2 * A /\ F = N * N - 2 * X
  OBVIOUS
<1>. USE <1>00
<1>1. A * (N - p) = H * X + m * g
  <2>1. (m * r) * (N - p) = m * (r * (N - p))
    OBVIOUS
  <2>2. m * (H * s + g) = H * (m * s) + m * g
    OBVIOUS
  <2>. QED
    BY <2>1, <2>2
<1>2. N * (A * (N - p)) = A * (N * N) - A * A + A * f
  <2>1. N * (A * (N - p)) = A * (N * N) - A * (N * p)
    OBVIOUS
  <2>2. N * p = A - f
    BY N * p \in Int
  <2>3. A * (A - f) = A * A - A * f
    OBVIOUS
  <2>. QED
    BY <2>1, <2>2, <2>3
<1>3. 2 * (N * (H * X + m * g)) = N * N * X + 2 * k
  OBVIOUS
<1>4. N * N * F = E * E + 4 * k - 4 * j
  <2>1. N * N * X = 2 * (A * (N * N)) - 2 * (A * A) + 2 * j - 2 * k
    <3>. DEFINE a == N * (A * (N - p))
                b == A * (N * N)
                c == A * A
                x == N * N * X
    <3>1. a \in Int /\ b \in Int /\ c \in Int /\ x \in Int /\ j \in Int /\ k \in Int
      OBVIOUS
    <3>2. a = b - c + j
      BY <1>2
    <3>3. 2 * a = x + 2 * k
      BY <1>1, <1>3
    <3>. HIDE DEF a, b, c, x, j, k
    <3>4. x = 2 * b - 2 * c + 2 * j - 2 * k
      BY <3>1, <3>2, <3>3
    <3>. QED
      BY <3>4 DEF a, b, c, x
  <2>2. N * N * F = N * N * (N * N) - 2 * (N * N * X)
    OBVIOUS
  <2>3. E * E = N * N * (N * N) - 4 * (A * (N * N)) + 4 * (A * A)
    OBVIOUS
  <2>. DEFINE u == N * N * (N * N)
              b == A * (N * N)
              c == A * A
              x == N * N * X
  <2>4. u \in Int /\ b \in Int /\ c \in Int /\ x \in Int /\ j \in Int /\ k \in Int
    OBVIOUS
  <2>. HIDE DEF u, b, c, x, j, k
  <2>5. N * N * F = u - 2 * x /\ E * E = u - 4 * b + 4 * c /\ x = 2 * b - 2 * c + 2 * j - 2 * k
    BY <2>1, <2>2, <2>3 DEF u, b, c, x
  <2>. QED
    BY <2>4, <2>5
<1>5. 0 <= k /\ k <= C
  <2>1. m * g \in Nat /\ g * 2 <= N /\ g \in Nat
    OBVIOUS
  <2>2. m * (g * 2) <= (2 * N) * (g * 2)
    <3>. DEFINE h == g * 2
                n == 2 * N
    <3>1. h \in Nat /\ n \in Nat /\ m <= n
      OBVIOUS
    <3>. HIDE DEF h, n
    <3>2. m * h <= n * h
      BY <3>1, ProductMono
    <3>. QED
      BY <3>2 DEF h, n
  <2>3. (g * 2) * (2 * N) <= N * (2 * N)
    <3>. DEFINE h == g * 2
                n == 2 * N
    <3>1. h \in Nat /\ n \in Nat /\ h <= N
      BY <2>1
    <3>. HIDE DEF h, n
    <3>2. h * n <= N * n
      BY <3>1, ProductMono
    <3>. QED
      BY <3>2 DEF h, n
  <2>. DEFINE a == m * g
              b == g * N
              c == N * N
  <2>4. a \in Nat /\ b \in Nat /\ c \in Nat /\ 2 * a <= 4 * b /\ 4 * b <= 2 * c
    <3>1. m * (g * 2) = 2 * a /\ (2 * N) * (g * 2) = 4 * b /\ (g * 2) * (2 * N) = 4 * b /\ N * (2 * N) = 2 * c
      OBVIOUS
    <3>. QED
      BY <2>1, <2>2, <2>3, <3>1
  <2>. HIDE DEF a, b, c
  <2>5. a <= c
    BY <2>4
  <2>6. a * N <= c * N /\ a * N \in Nat
    BY <2>4, <2>5, ProductMono
  <2>7. a * N = k /\ c * N = C
    <3>1. a * N = N * a
      BY <2>4
    <3>. QED
      BY <3>1 DEF a, c
  <2>. QED
    BY <2>6, <2>7
<1>6. 0 <= j /\ j <= C
  <2>. DEFINE c == N * N
  <2>1. c \in Nat /\ A <= c /\ f <= N /\ f \in Nat
    OBVIOUS
  <2>. HIDE DEF c
  <2>2. A * f <= c * f /\ f * c <= N * c /\ A * f \in Nat
    BY <2>1, ProductMono
  <2>3. c * f = f * c /\ N * c = c * N
    BY <2>1
  <2>4. c * N = C
    BY DEF c
  <2>5. f * c \in Nat
    BY <2>1
  <2>. QED
    BY <2>2, <2>3, <2>4, <2>5
<1>7. E * E >= 0 /\ E * E \in Int /\ C \in Nat
  <2>1. E \in Int
    OBVIOUS
  <2>. QED
    BY <2>1
<1>. DEFINE e == E * E
<1>8. k \in Int /\ j \in Int /\ N * N * F \in Int
  OBVIOUS
<1>. HIDE DEF k, j, C
<1>9. e \in Nat /\ N * N * F = e + 4 * k - 4 * j
  BY <1>4, <1>7
<1>. HIDE DEF e
<1>10. N * N * F <= e + 4 * C /\ -(e + 4 * C) <= N * N * F
  BY <1>5, <1>6, <1>7, <1>8, <1>9
<1>. QED
  BY <1>10 DEF Squared, e, C

LEMMA IntCancel ==
    ASSUME NEW a \in Int, NEW b \in Int, NEW c \in Nat \ {0}, a * c <= b * c
    PROVE  a <= b
<1>1. SUFFICES ASSUME b + 1 <= a PROVE FALSE
  OBVIOUS
<1>. DEFINE d == b + 1
<1>2. d \in Int /\ d <= a /\ d * c = b * c + c /\ b * c \in Int
  BY <1>1
<1>. HIDE DEF d
<1>3. d * c <= a * c
  BY <1>2, IntProductMono
<1>. QED
  BY <1>2, <1>3

LEMMA SquareMono ==
    ASSUME NEW x \in Int, NEW y \in Nat, -y <= x, x <= y
    PROVE  x * x <= y * y
<1>1. CASE x >= 0
  <2>1. x * x <= y * x /\ x * y <= y * y /\ x * y = y * x
    BY <1>1, ProductMono
  <2>2. x * y \in Int
    OBVIOUS
  <2>. QED
    BY <2>1, <2>2
<1>2. CASE x < 0
  <2>. DEFINE z == -x
  <2>1. z \in Nat /\ z <= y /\ z * z = x * x
    BY <1>2
  <2>. HIDE DEF z
  <2>2. z * z <= y * z /\ z * y <= y * y /\ z * y = y * z /\ z * y \in Int
    BY <2>1, ProductMono
  <2>. QED
    BY <2>1, <2>2
<1>. QED
  BY <1>1, <1>2

\* How a bound on the error becomes the next one, d and b being a denominator and a
\* numerator of it.
LEMMA NextBound ==
    ASSUME NEW N \in Nat \ {0}, NEW d \in Nat \ {0}, NEW b \in Nat, NEW E \in Int, NEW F \in Int,
           d * E <= N * b, -(N * b) <= d * E,
           Squared(N, E, F)
    PROVE  d * d * F <= b * b + 4 * (d * d * N) /\ -(b * b + 4 * (d * d * N)) <= d * d * F
<1>. DEFINE x == d * E
            y == N * b
            D == d * d
            S == N * N
            e == E * E + 4 * (N * N * N)
            c == b * b + 4 * (d * d * N)
<1>1. x \in Int /\ y \in Nat /\ -y <= x /\ x <= y /\ D \in Nat \ {0} /\ S \in Nat \ {0} /\ e \in Int /\ c \in Int
  <2>1. D \in Nat \ {0} /\ S \in Nat \ {0}
    BY StrictProduct
  <2>. QED
    BY <2>1
<1>2. x * x <= y * y
  <2>. HIDE DEF x, y
  <2>. QED
    BY <1>1, SquareMono
<1>3. D * e = x * x + 4 * (D * (N * N * N)) /\ S * c = y * y + 4 * (D * (N * N * N))
  OBVIOUS
<1>4. D * e <= S * c
  <2>. DEFINE j == x * x
              k == y * y
              l == D * (N * N * N)
              m == D * e
              n == S * c
  <2>1. j \in Int /\ k \in Int /\ l \in Int /\ m \in Int /\ n \in Int
    OBVIOUS
  <2>2. j <= k /\ m = j + 4 * l /\ n = k + 4 * l
    BY <1>2, <1>3
  <2>. HIDE DEF j, k, l, m, n
  <2>3. m <= n
    BY <2>1, <2>2
  <2>. QED
    BY <2>3 DEF m, n
<1>5. S * F <= e /\ -e <= S * F
  BY DEF Squared
<1>. HIDE DEF x, y, D, S, e, c
<1>. DEFINE t == S * F
            v == D * F
            o == -e
            a == -c
<1>6. t \in Int /\ v \in Int /\ o \in Int /\ a \in Int
  BY <1>1
<1>7. t * D = v * S /\ e * D = D * e /\ c * S = S * c /\ o * D = -(D * e) /\ a * S = -(S * c)
  BY <1>1
<1>8. D * e \in Int /\ S * c \in Int
  BY <1>1
<1>9. t <= e /\ o <= t
  BY <1>5
<1>. HIDE DEF t, v, o, a
<1>10. t * D <= e * D /\ o * D <= t * D
  BY <1>1, <1>6, <1>9, IntProductMono
<1>11. v * S <= c * S /\ a * S <= v * S
  <2>. DEFINE j == D * e
              k == S * c
              l == v * S
              m == a * S
  <2>1. j \in Int /\ k \in Int /\ l \in Int /\ m \in Int /\ j <= k /\ m = -k
    BY <1>1, <1>4, <1>6, <1>7, <1>8
  <2>2. l <= j
    BY <1>7, <1>10
  <2>3. -j <= l
    BY <1>7, <1>10
  <2>. HIDE DEF j, k, l, m
  <2>4. l <= k /\ m <= l
    BY <2>1, <2>2, <2>3
  <2>. QED
    BY <1>7, <2>4 DEF k, l, m
<1>12. v <= c /\ a <= v
  BY <1>1, <1>6, <1>11, IntCancel
<1>. QED
  BY <1>12 DEF v, a, D, c

LEMMA SmallError ==
    ASSUME NEW N \in Nat \ {0}, NEW d \in Nat \ {0}, NEW b \in Nat, NEW E \in Int, b < d * N,
           d * E <= N * b, -(N * b) <= d * E
    PROVE  E < N * N /\ -(N * N) < E
<1>. DEFINE S == N * N
            T == -S
            c == d * N
<1>1. S \in Int /\ T \in Int /\ c \in Nat
  OBVIOUS
<1>0. b < c
  OBVIOUS
<1>2. b * N < c * N
  <2>. HIDE DEF c
  <2>. QED
    BY <1>0, <1>1, StrictProduct
<1>3. b * N = N * b /\ c * N = S * d /\ T * d = -(S * d) /\ E * d = d * E
  OBVIOUS
<1>4. N * b \in Int /\ S * d \in Int /\ d * E \in Int
  OBVIOUS
<1>. DEFINE j == N * b
            k == S * d
            l == d * E
<1>5. j < k /\ l <= j /\ -j <= l /\ j \in Int /\ k \in Int /\ l \in Int
  BY <1>2, <1>3, <1>4
<1>6. E * d = l /\ T * d = -k
  BY <1>3
<1>. HIDE DEF S, T, c, j, k, l
<1>7. ~(S <= E)
  <2>1. SUFFICES ASSUME S <= E PROVE FALSE
    OBVIOUS
  <2>2. S * d <= E * d
    BY <1>1, <2>1, IntProductMono
  <2>. QED
    BY <1>5, <1>6, <2>2 DEF k
<1>8. ~(E <= T)
  <2>1. SUFFICES ASSUME E <= T PROVE FALSE
    OBVIOUS
  <2>2. E * d <= T * d
    BY <1>1, <2>1, IntProductMono
  <2>. QED
    BY <1>5, <1>6, <2>2
<1>. QED
  BY <1>1, <1>7, <1>8 DEF T, S

\* The mantissa's one, and the words around it.
NrOne == 2 ^ (FXW - 1)
NrErr(m, r) == NrOne * NrOne - 2 * (m * r)

LEMMA NrFacts ==
    LET M == 2 ^ (FXW - 3)
    IN  /\ M \in Nat \ {0} /\ NrOne = 4 * M /\ 2 ^ (FXW - 2) = 2 * M /\ 2 ^ FXW = 8 * M
        /\ NrOne \in Nat \ {0} /\ 128 <= NrOne /\ NrOne <= 2147483648
<1>. DEFINE a == FXW - 3
            b == FXW - 2
            c == FXW - 1
<1>1. a \in Nat /\ b \in Nat /\ c \in Nat /\ b = a + 1 /\ c = b + 1 /\ FXW = c + 1 /\ 7 <= c /\ c <= 31
  BY FxAssumption
<1>. HIDE DEF a, b, c
<1>2. 2 ^ a \in Nat \ {0} /\ 2 ^ b = 2 * 2 ^ a /\ 2 ^ c = 2 * 2 ^ b /\ 2 ^ FXW = 2 * 2 ^ c
  BY <1>1, PowPos, PowSucc
<1>3. 2 ^ 7 <= 2 ^ c /\ 2 ^ c <= 2 ^ 31
  BY <1>1, PowMono
<1>4. 2 ^ 7 = 128 /\ 2 ^ 31 = 2147483648
  <2>1. 2 ^ 7 = 128 /\ 2 ^ 15 = 32768 /\ 2 ^ 16 = 65536
    OBVIOUS
  <2>2. 2 ^ (15 + 16) = 2 ^ 15 * 2 ^ 16
    BY PowAdd
  <2>3. 15 + 16 = 31 /\ 32768 * 65536 = 2147483648
    BY SMT
  <2>. QED
    BY <2>1, <2>2, <2>3, SMT
<1>. QED
  BY <1>2, <1>3, <1>4, SMT DEF NrOne, a, b, c

LEMMA StepIs ==
    ASSUME NEW m \in Nat, NrOne <= m, m < 2 * NrOne, NEW r \in Nat,
           NrErr(m, r) < NrOne * NrOne, -(NrOne * NrOne) < NrErr(m, r)
    PROVE  LET s == NewtonStep(m, r)
           IN  s \in Nat /\ NrErr(m, s) \in Int /\ Squared(NrOne, NrErr(m, r), NrErr(m, s))
<1>. DEFINE N == NrOne
            H == 2 ^ (FXW - 2)
            A == m * r
            p == A \div N
            f == A % N
            o == N - p
            B == r * o
            s == B \div H
            g == B % H
<1>1. N \in Nat \ {0} /\ H \in Nat \ {0} /\ N = 2 * H /\ 2 ^ FXW = 2 * N
  BY NrFacts
<1>2. A \in Nat /\ NrErr(m, r) = N * N - 2 * A
  BY DEF NrErr
<1>3. N <= m /\ m < 2 * N /\ NrErr(m, r) < N * N /\ -(N * N) < NrErr(m, r)
  OBVIOUS
<1>4. NewtonStep(m, r) = Wrap((r * Wrap(N - Wrap(p))) \div H)
  BY DEF NewtonStep, NrOne
<1>. HIDE DEF N, H
<1>5. A < N * N
  <2>. DEFINE S == N * N
  <2>1. S \in Int /\ -S < S - 2 * A
    BY <1>1, <1>2, <1>3
  <2>. HIDE DEF S, A
  <2>2. A < S
    BY <1>2, <2>1
  <2>. QED
    BY <2>2 DEF S
<1>6. r < N
  <2>1. SUFFICES ASSUME N <= r PROVE FALSE
    BY <1>1
  <2>2. N * m <= r * m /\ N * N <= m * N
    BY <1>1, <1>3, <2>1, ProductMono
  <2>3. N * m = m * N /\ r * m = A /\ N * m \in Int /\ N * N \in Int
    BY <1>1
  <2>. HIDE DEF A
  <2>. QED
    BY <1>2, <1>5, <2>2, <2>3
<1>. HIDE DEF A
<1>7. p \in Nat /\ p < N /\ f \in 0 .. N - 1 /\ A = N * p + f
  BY <1>1, <1>2, <1>5, DivMod, DivBelow
<1>. HIDE DEF p, f
<1>8. o \in Nat /\ o <= N /\ B \in Nat
  BY <1>1, <1>7
<1>9. B < N * N
  <2>1. o * r <= N * r /\ r * N < N * N
    BY <1>1, <1>6, <1>8, ProductMono, StrictProduct
  <2>2. B = o * r /\ N * r = r * N /\ r * N \in Int /\ N * N \in Int
    BY <1>1, <1>8
  <2>. HIDE DEF B, o
  <2>. QED
    BY <1>8, <2>1, <2>2
<1>. HIDE DEF o, B
<1>10. s \in Nat /\ s < 2 * N /\ g \in 0 .. H - 1 /\ B = H * s + g
  <2>. DEFINE c == 2 * N
  <2>1. c \in Nat /\ c * H = N * N
    BY <1>1
  <2>. HIDE DEF c
  <2>2. s < c
    BY <1>1, <1>8, <1>9, <2>1, DivBelow
  <2>. QED
    BY <1>1, <1>8, <2>2, DivMod DEF c
<1>. HIDE DEF s, g
<1>11. NewtonStep(m, r) = s
  <2>1. \A n \in Nat : n < 2 * N => Wrap(n) = n
    <3>. DEFINE c == 2 * N
    <3>1. c \in Nat \ {0}
      BY <1>1
    <3>2. \A n \in Nat : n < c => n % c = n
      <4>. HIDE DEF c
      <4>. QED
        BY <3>1
    <3>. QED
      BY <1>1, <3>2 DEF Wrap
  <2>2. Wrap(p) = p
    BY <1>1, <1>7, <2>1
  <2>3. Wrap(N - p) = o
    <3>1. N - p = o
      BY DEF o
    <3>. QED
      BY <1>1, <1>8, <2>1, <3>1
  <2>4. Wrap(s) = s
    BY <1>10, <2>1
  <2>5. (r * o) \div H = s
    BY DEF s, B
  <2>. QED
    BY <1>4, <2>2, <2>3, <2>4, <2>5
<1>12. Steps(H, N, m, r, A, p, f, s, g)
  <2>1. r * (N - p) = H * s + g
    BY <1>10 DEF B, o
  <2>2. A = m * r
    BY DEF A
  <2>. QED
    BY <1>1, <1>2, <1>3, <1>5, <1>7, <1>10, <2>1, <2>2 DEF Steps
<1>13. NrErr(m, s) = N * N - 2 * (m * s) /\ NrErr(m, s) \in Int
  <2>1. NrErr(m, s) = N * N - 2 * (m * s)
    BY DEF NrErr, N
  <2>. QED
    BY <1>1, <1>10, <2>1
<1>14. Squared(N, NrErr(m, r), NrErr(m, s))
  BY <1>2, <1>12, <1>13, NewtonError
<1>. QED
  BY <1>10, <1>11, <1>13, <1>14 DEF N

\* The linear estimate is off by a seventeenth at most, and what its constants and its
\* quotient truncate.
FirstBound(N, E) == 17 * E <= N * (N + 170) /\ -(N * (N + 170)) <= 17 * E
Divides(d, m, N, q, f) == d * m = N * q + f

LEMMA FirstError ==
    ASSUME NEW N \in Nat \ {0}, NEW m \in Nat, N <= m, m < 2 * N,
           NEW a \in -16 .. 17, NEW b \in -16 .. 17, NEW c \in Int, NEW d \in Int,
           34 * c = 24 * N + a, 34 * d = 8 * N + b,
           NEW q \in Int, NEW f \in 0 .. N - 1, Divides(d, m, N, q, f)
    PROVE  FirstBound(N, N * N - 2 * (m * (c - q)))
<1>. DEFINE r == c - q
            E == N * N - 2 * (m * r)
            S == N * N
            P == m * N
            M == m * m
            w == N * a - m * b + 34 * f
            x == m * w
            y == 17 * S - 24 * P + 8 * M
<1>0. d * m = N * q + f
  BY DEF Divides
<1>1. 34 * (N * r) = 24 * S - 8 * P + w
  <2>1. 34 * (N * r) = N * (34 * c) - 34 * (N * q)
    OBVIOUS
  <2>2. N * (34 * c) = 24 * S + N * a
    OBVIOUS
  <2>3. 34 * (N * q) = (34 * d) * m - 34 * f
    <3>1. (34 * d) * m = 34 * (d * m) /\ d * m \in Int /\ N * q \in Int
      OBVIOUS
    <3>. QED
      BY <1>0, <3>1
  <2>4. (34 * d) * m = 8 * P + m * b
    OBVIOUS
  <2>5. S \in Int /\ P \in Int /\ N * a \in Int /\ m * b \in Int
    OBVIOUS
  <2>. HIDE DEF r, S, P
  <2>. QED
    BY <2>1, <2>2, <2>3, <2>4, <2>5
<1>2. 17 * (N * E) = N * y - x
  <2>1. 17 * (N * E) = 17 * (N * S) - m * (34 * (N * r))
    OBVIOUS
  <2>2. m * (24 * S - 8 * P + w) = 24 * (m * S) - 8 * (m * P) + m * w
    OBVIOUS
  <2>3. N * y = 17 * (N * S) - 24 * (N * P) + 8 * (N * M)
    OBVIOUS
  <2>4. N * P = m * S /\ N * M = m * P
    OBVIOUS
  <2>5. N * S \in Int /\ m * S \in Int /\ m * P \in Int /\ m * w \in Int
    OBVIOUS
  <2>6. m * (34 * (N * r)) = m * (24 * S - 8 * P + w)
    BY <1>1
  <2>. HIDE DEF E, S, P, M, w, y, r
  <2>. QED
    BY <2>1, <2>2, <2>3, <2>4, <2>5, <2>6 DEF x
<1>3. y <= S /\ -S <= y
  <2>1. S \in Int /\ P \in Int /\ M \in Int
    OBVIOUS
  <2>2. 18 * S - 24 * P + 8 * M >= 0
    <3>. DEFINE z == 2 * m - 3 * N
    <3>1. z \in Int /\ 2 * (z * z) = 18 * S - 24 * P + 8 * M
      OBVIOUS
    <3>2. z * z >= 0 /\ z * z \in Int
      <4>1. z \in Int
        OBVIOUS
      <4>. HIDE DEF z
      <4>. QED
        BY <4>1
    <3>. HIDE DEF z, S, P, M
    <3>. QED
      BY <3>1, <3>2
  <2>3. 16 * S - 24 * P + 8 * M <= 0
    <3>. DEFINE u == m - N
                v == 2 * N - m
    <3>1. u \in Nat /\ v \in Nat /\ 8 * (u * v) = 24 * P - 16 * S - 8 * M
      OBVIOUS
    <3>2. u * v \in Nat
      BY <3>1
    <3>. HIDE DEF u, v, S, P, M
    <3>. QED
      BY <2>1, <3>1, <3>2
  <2>. HIDE DEF S, P, M
  <2>. QED
    BY <2>1, <2>2, <2>3
<1>4. w \in Int /\ w <= 83 * N /\ -(50 * N) <= w
  <2>1. N * a <= 17 * N /\ -(16 * N) <= N * a
    <3>1. a <= 17 /\ -16 <= a
      OBVIOUS
    <3>2. a * N <= 17 * N /\ (-16) * N <= a * N
      BY <3>1, IntProductMono
    <3>. QED
      BY <3>2
  <2>2. m * b <= 34 * N /\ -(32 * N) <= m * b
    <3>1. b <= 17 /\ -16 <= b
      OBVIOUS
    <3>2. b * m <= 17 * m /\ (-16) * m <= b * m
      BY <3>1, IntProductMono
    <3>3. b * m = m * b /\ m * b \in Int
      OBVIOUS
    <3>. QED
      BY <3>2, <3>3
  <2>. DEFINE i == N * a
              j == m * b
  <2>3. i \in Int /\ j \in Int /\ w = i - j + 34 * f
    OBVIOUS
  <2>. HIDE DEF i, j, w
  <2>4. i <= 17 * N /\ -(16 * N) <= i /\ j <= 34 * N /\ -(32 * N) <= j
    BY <2>1, <2>2 DEF i, j
  <2>. QED
    BY <2>3, <2>4
<1>5. x \in Int /\ x <= 170 * S /\ -(170 * S) <= x
  <2>. DEFINE h == 83 * N
              l == -h
              n == 2 * N
  <2>. HIDE DEF w
  <2>1. h \in Nat /\ l \in Int /\ n \in Nat /\ w <= h /\ l <= w /\ m <= n
    BY <1>4
  <2>2. h * n = 166 * S /\ l * m = -(h * m) /\ w * m = x
    BY <1>4
  <2>. HIDE DEF h, l, n
  <2>3. w * m <= h * m /\ l * m <= w * m /\ m * h <= n * h
    BY <1>4, <2>1, IntProductMono, ProductMono
  <2>4. m * h = h * m /\ n * h = h * n /\ h * m \in Int /\ x \in Int
    BY <1>4, <2>1
  <2>5. S \in Nat
    OBVIOUS
  <2>. HIDE DEF x, S
  <2>. QED
    BY <2>2, <2>3, <2>4, <2>5
<1>. DEFINE t == 17 * E
            e == N * (N + 170)
            o == -e
<1>6. t \in Int /\ e \in Int /\ o \in Int
  OBVIOUS
<1>7. t * N <= e * N /\ o * N <= t * N
  <2>. DEFINE j == N * y
              k == N * S
  <2>1. y * N <= S * N /\ (-S) * N <= y * N
    <3>1. y \in Int /\ S \in Int /\ -S \in Int
      OBVIOUS
    <3>. HIDE DEF y, S
    <3>. QED
      BY <1>3, <3>1, IntProductMono
  <2>2. y * N = j /\ S * N = k /\ (-S) * N = -k /\ j \in Int /\ k \in Int
    OBVIOUS
  <2>3. t * N = j - x
    <3>1. t * N = 17 * (N * E)
      OBVIOUS
    <3>. QED
      BY <1>2, <3>1
  <2>4. e * N = k + 170 * S /\ o * N = -(k + 170 * S) /\ S \in Int
    OBVIOUS
  <2>. HIDE DEF t, e, o, x, y, S, j, k
  <2>. QED
    BY <1>5, <2>1, <2>2, <2>3, <2>4
<1>8. t <= e /\ o <= t
  <2>. HIDE DEF t, e, o
  <2>. QED
    BY <1>6, <1>7, IntCancel
<1>. QED
  BY <1>8 DEF FirstBound

\* The error of r is at most the fraction n / d of the mantissa's one, over that one.
Bounded(d, n, E) == d * E <= NrOne * n /\ -(NrOne * n) <= d * E

Estimate(m) == Wrap(NR_C1 - (NR_C2 * m) \div NrOne)

LEMMA EstimateIs ==
    ASSUME NEW m \in Nat, NrOne <= m, m < 2 * NrOne
    PROVE  /\ Estimate(m) \in Nat
           /\ NrErr(m, Estimate(m)) \in Int /\ Bounded(17, NrOne + 170, NrErr(m, Estimate(m)))
<1>. DEFINE N == NrOne
            c == NR_C1
            d == NR_C2
            i == 24 * N + 17
            k == 8 * N + 17
            a == 17 - (i % 34)
            b == 17 - (k % 34)
            x == d * m
            q == x \div N
            f == x % N
            r == c - q
            E == N * N - 2 * (m * r)
<1>1. N \in Nat \ {0} /\ 128 <= N /\ 2 * 2 ^ (FXW - 2) = N /\ 2 ^ FXW = 2 * N /\ N <= m /\ m < 2 * N
  BY NrFacts
<1>2. 48 * 2 ^ (FXW - 2) = 24 * N /\ 16 * 2 ^ (FXW - 2) = 8 * N
  <2>. DEFINE h == 2 ^ (FXW - 2)
  <2>1. h \in Nat
    BY NrFacts
  <2>2. 2 * h = N
    BY <1>1
  <2>. HIDE DEF h, N
  <2>3. 48 * h = 24 * N /\ 16 * h = 8 * N
    BY <2>1, <2>2
  <2>. QED
    BY <2>3 DEF h
<1>3. c = i \div 34 /\ d = k \div 34
  BY <1>2 DEF NR_C1, NR_C2
<1>. HIDE DEF N, c, d
<1>4. i \in Nat /\ k \in Nat
  BY <1>1
<1>5. /\ c \in Nat /\ d \in Nat /\ a \in -16 .. 17 /\ b \in -16 .. 17
      /\ 34 * c = 24 * N + a /\ 34 * d = 8 * N + b
  BY <1>1, <1>3, <1>4
<1>. HIDE DEF i, k, a, b
<1>6. x \in Nat
  BY <1>5
<1>. HIDE DEF x
<1>7. q \in Nat /\ f \in 0 .. N - 1 /\ x = N * q + f
  BY <1>1, <1>6, DivMod
<1>. HIDE DEF q, f
<1>8. 17 * E <= N * (N + 170) /\ -(N * (N + 170)) <= 17 * E
  <2>1. Divides(d, m, N, q, f)
    BY <1>7 DEF x, Divides
  <2>2. c \in Int /\ d \in Int /\ q \in Int
    BY <1>5, <1>7
  <2>3. FirstBound(N, N * N - 2 * (m * (c - q)))
    BY <1>1, <1>5, <1>7, <2>1, <2>2, FirstError
  <2>. QED
    BY <2>3 DEF FirstBound
<1>9. r \in Int /\ E \in Int
  BY <1>1, <1>5, <1>7
<1>10. E < N * N /\ -(N * N) < E
  <2>. DEFINE n == N + 170
              e == 17
  <2>1. n \in Nat /\ e \in Nat \ {0} /\ n < e * N /\ e * E <= N * n /\ -(N * n) <= e * E
    BY <1>1, <1>8
  <2>. HIDE DEF n, e, E
  <2>. QED
    BY <1>1, <1>9, <2>1, SmallError
<1>11. r \in Nat /\ r < 2 * N
  <2>. DEFINE S == N * N
              t == m * r
  <2>1. S \in Int /\ t \in Int /\ E = S - 2 * t
    BY <1>1, <1>9
  <2>2. E < S /\ -S < E
    BY <1>10
  <2>. HIDE DEF S, t, E
  <2>3. t > 0 /\ t < S
    BY <2>1, <2>2
  <2>. HIDE DEF r
  <2>4. r >= 0
    <3>1. SUFFICES ASSUME r < 0 PROVE FALSE
      BY <1>9
    <3>. DEFINE z == 0
    <3>2. z \in Int /\ r <= z /\ z * m = 0
      BY <1>9, <3>1
    <3>. HIDE DEF z
    <3>3. r * m <= z * m
      BY <1>9, <3>2, IntProductMono
    <3>4. r * m = t /\ t \in Int
      BY <1>9, <2>1 DEF t
    <3>. QED
      BY <2>3, <3>2, <3>3, <3>4
  <2>5. ~(N <= r)
    <3>1. SUFFICES ASSUME N <= r PROVE FALSE
      OBVIOUS
    <3>2. N * m <= r * m /\ N * N <= m * N
      BY <1>1, <1>9, <2>4, <3>1, ProductMono
    <3>3. N * m = m * N /\ r * m = t /\ m * N \in Int
      BY <1>1, <1>9 DEF t
    <3>4. S = N * N
      BY DEF S
    <3>. QED
      BY <2>1, <2>3, <3>2, <3>3, <3>4
  <2>. QED
    BY <1>1, <1>9, <2>4, <2>5
<1>12. Estimate(m) = r
  <2>1. Estimate(m) = Wrap(r)
    BY DEF Estimate, r, q, x, c, d, N
  <2>. DEFINE t == 2 * N
  <2>2. t \in Nat \ {0} /\ r < t /\ 2 ^ FXW = t
    BY <1>1, <1>11
  <2>. HIDE DEF t, r
  <2>3. r % t = r
    BY <1>11, <2>2
  <2>. QED
    BY <2>1, <2>2, <2>3 DEF Wrap
<1>13. NrErr(m, r) = E
  BY DEF NrErr, N
<1>14. Bounded(17, N + 170, E)
  BY <1>8 DEF Bounded, N
<1>. QED
  BY <1>9, <1>11, <1>12, <1>13, <1>14 DEF N

\* One step of the chain.
LEMMA StepBounded ==
    ASSUME NEW m \in Nat, NrOne <= m, m < 2 * NrOne, NEW r \in Nat, NrErr(m, r) \in Int,
           NEW d \in Nat \ {0}, NEW n \in Nat, n < d * NrOne, Bounded(d, n, NrErr(m, r))
    PROVE  LET s == NewtonStep(m, r)
           IN  /\ s \in Nat /\ NrErr(m, s) \in Int
               /\ d * d * NrErr(m, s) <= n * n + 4 * (d * d * NrOne)
               /\ -(n * n + 4 * (d * d * NrOne)) <= d * d * NrErr(m, s)
<1>. DEFINE N == NrOne
            E == NrErr(m, r)
            s == NewtonStep(m, r)
            F == NrErr(m, s)
<1>1. N \in Nat \ {0} /\ E \in Int /\ n < d * N
  BY NrFacts
<1>2. d * E <= N * n /\ -(N * n) <= d * E
  BY DEF Bounded
<1>3. E < N * N /\ -(N * N) < E
  <2>. HIDE DEF N, E
  <2>. QED
    BY <1>1, <1>2, SmallError
<1>4. s \in Nat /\ F \in Int /\ Squared(N, E, F)
  <2>. HIDE DEF E, F, s
  <2>1. NrErr(m, r) < NrOne * NrOne /\ -(NrOne * NrOne) < NrErr(m, r)
    BY <1>3 DEF E
  <2>2. NewtonStep(m, r) \in Nat /\ NrErr(m, NewtonStep(m, r)) \in Int
        /\ Squared(NrOne, NrErr(m, r), NrErr(m, NewtonStep(m, r)))
    BY <2>1, StepIs
  <2>. QED
    BY <2>2 DEF E, F, s
<1>. HIDE DEF N, E, F, s
<1>5. d * d * F <= n * n + 4 * (d * d * N) /\ -(n * n + 4 * (d * d * N)) <= d * d * F
  BY <1>1, <1>2, <1>4, NextBound
<1>. QED
  BY <1>4, <1>5 DEF F, s, N

\* Three steps leave an error of less than four and a half units of the mantissa's one,
\* in words of up to 32 bits.
LEMMA RefinedIs ==
    ASSUME NEW m \in Nat, NrOne <= m, m < 2 * NrOne
    PROVE  LET r == Refined(m, Estimate(m))
           IN  /\ r \in Nat /\ NrErr(m, r) \in Int
               /\ 2 * NrErr(m, r) < 9 * NrOne /\ -(9 * NrOne) < 2 * NrErr(m, r)
<1>. DEFINE N == NrOne
            S == N * N
            r0 == Estimate(m)
            r1 == NewtonStep(m, r0)
            r2 == NewtonStep(m, r1)
            r3 == NewtonStep(m, r2)
            E0 == NrErr(m, r0)
            E1 == NrErr(m, r1)
            E2 == NrErr(m, r2)
            E3 == NrErr(m, r3)
            n0 == N + 170
            n1 == N + 1734
            n2 == N + 361043
            d0 == 17
            d1 == 289
            d2 == 83521
<1>1. N \in Nat \ {0} /\ 128 <= N /\ N <= 2147483648
  BY NrFacts
<1>2. S \in Nat /\ 128 * N <= S /\ S <= 2147483648 * N
  <2>. DEFINE i == 128
              j == 2147483648
  <2>1. i \in Nat /\ j \in Nat /\ i <= N /\ N <= j
    BY <1>1
  <2>. HIDE DEF N, i, j
  <2>2. i * N <= N * N /\ N * N <= j * N /\ N * N \in Nat
    BY <1>1, <2>1, ProductMono
  <2>. QED
    BY <2>2 DEF i, j
<1>3. r0 \in Nat /\ E0 \in Int /\ Bounded(d0, n0, E0)
  BY EstimateIs
<1>4. Refined(m, r0) = r3
  BY DEF Refined
<1>. HIDE DEF N, r0, S
<1>5. n0 \in Nat /\ n1 \in Nat /\ n2 \in Nat /\ d0 \in Nat \ {0} /\ d1 \in Nat \ {0} /\ d2 \in Nat \ {0}
      /\ n0 < d0 * N /\ n1 < d1 * N /\ n2 < d2 * N
  BY <1>1
<1>6. d0 * d0 = d1 /\ d1 * d1 = d2 /\ d2 * d2 = 6975757441
  BY SMT
<1>7. n0 * n0 = S + 340 * N + 28900 /\ n1 * n1 = S + 3468 * N + 3006756
      /\ n2 * n2 = S + 722086 * N + 130352047849
      /\ N * n1 = S + 1734 * N /\ N * n2 = S + 361043 * N
  BY <1>1, SMT DEF S
<1>. HIDE DEF n0, n1, n2, d0, d1, d2, r1, r2, r3, E0, E1, E2, E3
<1>8. r1 \in Nat /\ E1 \in Int /\ Bounded(d1, n1, E1)
  <2>1. r1 \in Nat /\ E1 \in Int /\ d0 * d0 * E1 <= n0 * n0 + 4 * (d0 * d0 * N)
        /\ -(n0 * n0 + 4 * (d0 * d0 * N)) <= d0 * d0 * E1
    BY <1>3, <1>5, StepBounded DEF r1, E0, E1, N
  <2>2. d1 * E1 <= N * n1 /\ -(N * n1) <= d1 * E1
    <3>1. d1 * E1 <= n0 * n0 + 4 * (d1 * N) /\ -(n0 * n0 + 4 * (d1 * N)) <= d1 * E1
      BY <1>6, <2>1
    <3>2. n0 * n0 + 4 * (d1 * N) <= N * n1
      BY <1>1, <1>2, <1>7 DEF d1
    <3>. DEFINE i == n0 * n0 + 4 * (d1 * N)
                j == N * n1
                k == d1 * E1
    <3>3. i \in Int /\ j \in Int /\ k \in Int /\ k <= i /\ -i <= k /\ i <= j
      BY <1>1, <1>5, <2>1, <3>1, <3>2
    <3>. HIDE DEF i, j, k
    <3>4. k <= j /\ -j <= k
      BY <3>3
    <3>. QED
      BY <3>4 DEF j, k
  <2>. QED
    BY <2>1, <2>2 DEF Bounded, N
<1>9. r2 \in Nat /\ E2 \in Int /\ Bounded(d2, n2, E2)
  <2>1. r2 \in Nat /\ E2 \in Int /\ d1 * d1 * E2 <= n1 * n1 + 4 * (d1 * d1 * N)
        /\ -(n1 * n1 + 4 * (d1 * d1 * N)) <= d1 * d1 * E2
    BY <1>5, <1>8, StepBounded DEF r2, E1, E2, N
  <2>2. d2 * E2 <= N * n2 /\ -(N * n2) <= d2 * E2
    <3>1. d2 * E2 <= n1 * n1 + 4 * (d2 * N) /\ -(n1 * n1 + 4 * (d2 * N)) <= d2 * E2
      BY <1>6, <2>1
    <3>2. n1 * n1 + 4 * (d2 * N) <= N * n2
      BY <1>1, <1>2, <1>7, SMT DEF d2
    <3>. DEFINE i == n1 * n1 + 4 * (d2 * N)
                j == N * n2
                k == d2 * E2
    <3>3. i \in Int /\ j \in Int /\ k \in Int /\ k <= i /\ -i <= k /\ i <= j
      BY <1>1, <1>5, <2>1, <3>1, <3>2
    <3>. HIDE DEF i, j, k
    <3>4. k <= j /\ -j <= k
      BY <3>3
    <3>. QED
      BY <3>4 DEF j, k
  <2>. QED
    BY <2>1, <2>2 DEF Bounded, N
<1>10. r3 \in Nat /\ E3 \in Int /\ 2 * E3 < 9 * N /\ -(9 * N) < 2 * E3
  <2>1. r3 \in Nat /\ E3 \in Int /\ d2 * d2 * E3 <= n2 * n2 + 4 * (d2 * d2 * N)
        /\ -(n2 * n2 + 4 * (d2 * d2 * N)) <= d2 * d2 * E3
    BY <1>5, <1>9, StepBounded DEF r3, E2, E3, N
  <2>. DEFINE D == d2 * d2
              k == D * E3
  <2>2. 2 * (n2 * n2) < D * N
    BY <1>1, <1>2, <1>6, <1>7, SMT
  <2>3. k <= n2 * n2 + 4 * (D * N) /\ -(n2 * n2 + 4 * (D * N)) <= k
    BY <2>1
  <2>4. D \in Nat \ {0} /\ D * N \in Int /\ n2 * n2 \in Int /\ k \in Int
    <3>1. D \in Nat \ {0}
      BY <1>6, SMT
    <3>. QED
      BY <1>1, <1>5, <2>1, <3>1
  <2>. DEFINE i == n2 * n2
              j == D * N
              a == 2 * E3
              b == 9 * N
              c == -b
  <2>. HIDE DEF D
  <2>5. a * D = 2 * k /\ b * D = 9 * j /\ c * D = -(9 * j) /\ a \in Int /\ b \in Int /\ c \in Int
    BY <1>1, <2>1, <2>4
  <2>6. 2 * k < 9 * j /\ -(9 * j) < 2 * k
    <3>1. i \in Int /\ j \in Int /\ k \in Int /\ 2 * i < j /\ k <= i + 4 * j /\ -(i + 4 * j) <= k
      BY <2>2, <2>3, <2>4
    <3>. HIDE DEF i, j, k
    <3>. QED
      BY <3>1
  <2>. HIDE DEF i, j, k, a, b, c
  <2>7. ~(b <= a) /\ ~(a <= c)
    <3>1. b <= a => b * D <= a * D
      BY <2>4, <2>5, IntProductMono
    <3>2. a <= c => a * D <= c * D
      BY <2>4, <2>5, IntProductMono
    <3>3. j \in Int /\ k \in Int
      BY <2>4 DEF j
    <3>. QED
      BY <2>5, <2>6, <3>1, <3>2, <3>3
  <2>8. a < b /\ c < a
    BY <2>5, <2>7
  <2>. QED
    BY <2>1, <2>8 DEF a, b, c
<1>. QED
  BY <1>4, <1>10 DEF r0, E3, N

\* A determinant is shifted to a mantissa.
LEMMA LeadingZeros ==
    ASSUME NEW det \in 1 .. 2 ^ (FXW - 1)
    PROVE  /\ clz32(det) \in 0 .. FXW - 1
           /\ NrOne <= det * 2 ^ clz32(det) /\ det * 2 ^ clz32(det) < 2 * NrOne
<1>. DEFINE S == {n \in Nat : det < 2 ^ n}
            W == FXW
            b == W - 1
            Fits(k) == 2 ^ (W - 1 - k) <= det /\ det < 2 ^ (W - k)
            k == clz32(det)
<1>1. W \in Nat /\ W >= 8 /\ b \in Nat /\ W = b + 1
  BY FxAssumption
<1>2. 2 ^ b \in Nat /\ 2 ^ W = 2 * 2 ^ b
  <2>. HIDE DEF W, b
  <2>. QED
    BY <1>1, PowNat, PowSucc
<1>3. det \in Nat /\ det # 0 /\ det <= 2 ^ b
  BY <1>2
<1>4. W \in S
  <2>. HIDE DEF W, b
  <2>1. det < 2 ^ W
    BY <1>2, <1>3
  <2>. QED
    BY <1>1, <2>1
<1>5. PICK n \in S : \A i \in S : n <= i
  BY <1>4, LeastNat
<1>6. n \in Nat /\ det < 2 ^ n /\ n <= W
  BY <1>4, <1>5
<1>7. n # 0
  <2>1. 2 ^ 0 = 1
    OBVIOUS
  <2>2. ~(det < 1)
    BY <1>3
  <2>. QED
    BY <1>6, <2>1, <2>2
<1>8. n - 1 \in Nat /\ 2 ^ (n - 1) <= det
  <2>1. n - 1 \in Nat /\ ~(n <= n - 1)
    BY <1>6, <1>7
  <2>2. n - 1 \notin S
    BY <1>5, <2>1
  <2>3. 2 ^ (n - 1) \in Nat /\ ~(det < 2 ^ (n - 1))
    BY <2>1, <2>2, PowNat
  <2>. QED
    BY <1>3, <2>1, <2>3
<1>9. \E i \in 0 .. W - 1 : Fits(i)
  <2>. DEFINE i == W - n
  <2>1. i \in 0 .. W - 1 /\ W - 1 - i = n - 1 /\ W - i = n
    BY <1>1, <1>6, <1>7
  <2>. HIDE DEF i
  <2>2. Fits(i)
    BY <1>6, <1>8, <2>1
  <2>. QED
    BY <2>1, <2>2
<1>10. k = CHOOSE i \in 0 .. W - 1 : Fits(i)
  BY <1>3 DEF clz32
<1>11. k \in 0 .. W - 1 /\ Fits(k)
  <2>. HIDE DEF W, Fits, k
  <2>. QED
    BY <1>9, <1>10
<1>. DEFINE x == W - 1 - k
            y == W - k
<1>. HIDE DEF k
<1>12. x \in Nat /\ k \in Nat /\ y = x + 1 /\ x + k = b /\ 2 ^ x <= det /\ det < 2 ^ y
  BY <1>1, <1>11
<1>. HIDE DEF W, b, x, y
<1>. DEFINE X == 2 ^ x
            K == 2 ^ k
<1>13. X \in Nat /\ K \in Nat \ {0} /\ 2 ^ y = 2 * X /\ X * K = 2 ^ b
  BY <1>12, PowNat, PowPos, PowSucc, PowAdd
<1>14. X <= det /\ det < 2 * X
  BY <1>12, <1>13
<1>. HIDE DEF X, K
<1>15. X * K <= det * K /\ det * K < (2 * X) * K
  BY <1>3, <1>13, <1>14, ProductMono, StrictProduct
<1>16. (2 * X) * K = 2 * (X * K)
  BY <1>13
<1>17. NrOne = X * K
  BY <1>13 DEF NrOne, b, W
<1>. QED
  BY <1>11, <1>15, <1>16, <1>17 DEF K, k, W

LEMMA LeastOfIs ==
    ASSUME NEW a \in Int, NEW b \in Int
    PROVE  LeastOf({a, b}) = IF a <= b THEN a ELSE b
<1>. DEFINE c == IF a <= b THEN a ELSE b
            Least(x) == \A y \in {a, b} : x <= y
<1>1. c \in {a, b} /\ Least(c)
  OBVIOUS
<1>2. \A x \in {a, b} : Least(x) => x = c
  OBVIOUS
<1>3. LeastOf({a, b}) = CHOOSE x \in {a, b} : Least(x)
  BY DEF LeastOf
<1>. HIDE DEF c, Least
<1>. QED
  BY <1>1, <1>2, <1>3 DEF c

\* From the mantissa's reciprocal to the determinant's.
LEMMA QuotientError ==
    ASSUME NEW M \in Nat \ {0}, NEW det \in Nat \ {0}, NEW K \in Nat, NEW r \in Nat,
           NEW E \in Int, E = (4 * M) * (4 * M) - 2 * ((det * K) * r),
           2 * E < 9 * (4 * M), -(9 * (4 * M)) < 2 * E,
           NEW g \in Nat, NEW f \in 0 .. M - 1, r * K = M * g + f
    PROVE  g * det - 8 * M <= 8 /\ -8 - det <= g * det - 8 * M
<1>. DEFINE y == g * det - 8 * M
            h == det * f
            l == M * det
            j == M * y
<1>1. 2 * j = -E - 2 * h
  <2>1. (det * K) * r = det * (r * K)
    OBVIOUS
  <2>2. det * (M * g + f) = M * (g * det) + det * f
    OBVIOUS
  <2>3. j = M * (g * det) - 8 * (M * M)
    OBVIOUS
  <2>4. (4 * M) * (4 * M) = 16 * (M * M)
    OBVIOUS
  <2>. DEFINE u == (det * K) * r
              v == M * (g * det)
              w == M * M
  <2>5. u \in Int /\ v \in Int /\ w \in Int /\ h \in Int /\ j \in Int
    OBVIOUS
  <2>6. u = v + h
    BY <2>1, <2>2
  <2>7. E = 16 * w - 2 * u /\ j = v - 8 * w
    BY <2>3, <2>4
  <2>. HIDE DEF u, v, w, h, j
  <2>. QED
    BY <2>5, <2>6, <2>7
<1>2. h \in Nat /\ h <= l /\ l \in Nat /\ j \in Int /\ y \in Int
  <2>1. f \in Nat /\ f <= M
    OBVIOUS
  <2>2. f * det <= M * det /\ f * det = h
    BY <2>1, ProductMono
  <2>. QED
    BY <2>1, <2>2
<1>. DEFINE a == 9
            b == -9 - det
<1>3. y * M = j /\ a * M = 9 * M /\ b * M = -(9 * M) - l /\ a \in Int /\ b \in Int
  OBVIOUS
<1>4. E < 18 * M /\ -(18 * M) < E
  OBVIOUS
<1>. HIDE DEF y, h, l, j, a, b
<1>5. j < 9 * M /\ -(9 * M) - l < j
  BY <1>1, <1>2, <1>4
<1>6. ~(a <= y) /\ ~(y <= b)
  <2>1. a <= y => a * M <= y * M
    BY <1>2, <1>3, IntProductMono
  <2>2. y <= b => y * M <= b * M
    BY <1>2, <1>3, IntProductMono
  <2>. QED
    BY <1>2, <1>3, <1>5, <2>1, <2>2
<1>7. y < 9 /\ -9 - det < y
  <2>1. y < a /\ b < y
    BY <1>2, <1>3, <1>6
  <2>. QED
    BY <2>1 DEF a, b
<1>. QED
  BY <1>2, <1>7 DEF y

LEMMA ReciprocalIs ==
    ASSUME NEW det \in 1 .. 2 ^ (FXW - 1)
    PROVE  AbsVal(Reciprocal(det) * det - 2 ^ FXW) <= 8 + det
<1>. DEFINE k == clz32(det)
            K == 2 ^ k
            m == det * K
            r == Refined(m, Estimate(m))
            M == 2 ^ (FXW - 3)
            b == r * K
            g == b \div M
            f == b % M
            t == 8 * M - 1
            y == g * det
            z == Reciprocal(det)
<1>1. M \in Nat \ {0} /\ NrOne = 4 * M /\ 2 ^ FXW = 8 * M
  BY NrFacts
<1>2. det \in Nat \ {0} /\ det <= 4 * M
  <2>1. det \in 1 .. NrOne
    BY DEF NrOne
  <2>. QED
    BY <1>1, <2>1
<1>3. k \in 0 .. FXW - 1 /\ NrOne <= m /\ m < 2 * NrOne
  BY LeadingZeros
<1>4. K \in Nat
  <2>1. FXW \in Nat
    BY FxAssumption
  <2>. HIDE DEF k
  <2>2. k \in Nat
    BY <1>3, <2>1
  <2>. QED
    BY <2>2, PowNat
<1>5. m \in Nat
  BY <1>2, <1>4
<1>6. z = LeastOf({g, t})
  <2>1. z = LeastOf({(r * K) \div 2 ^ (FXW - 3), 2 ^ FXW - 1})
    BY DEF Reciprocal, Estimate, NrOne
  <2>. QED
    BY <1>1, <2>1
<1>. HIDE DEF k, K, z
<1>7. NrErr(m, r) = (4 * M) * (4 * M) - 2 * (m * r)
  BY <1>1 DEF NrErr
<1>. DEFINE E == NrErr(m, r)
<1>8. r \in Nat /\ E \in Int /\ 2 * E < 9 * (4 * M) /\ -(9 * (4 * M)) < 2 * E
  <2>1. /\ r \in Nat /\ NrErr(m, r) \in Int
        /\ 2 * NrErr(m, r) < 9 * NrOne /\ -(9 * NrOne) < 2 * NrErr(m, r)
    <3>. HIDE DEF m
    <3>. QED
      BY <1>3, <1>5, RefinedIs
  <2>. QED
    BY <1>1, <2>1
<1>9. E = (4 * M) * (4 * M) - 2 * ((det * K) * r)
  BY <1>7 DEF m
<1>. HIDE DEF m, r, M, E
<1>10. b \in Nat
  BY <1>4, <1>8
<1>. HIDE DEF b
<1>11. g \in Nat /\ f \in 0 .. M - 1 /\ b = M * g + f
  BY <1>1, <1>10, DivMod
<1>. HIDE DEF g, f
<1>12. r * K = M * g + f
  BY <1>11 DEF b
<1>13. g * det - 8 * M <= 8 /\ -8 - det <= g * det - 8 * M
  BY <1>1, <1>2, <1>4, <1>8, <1>9, <1>11, <1>12, QuotientError
<1>14. z = IF g <= t THEN g ELSE t
  <2>1. g \in Int /\ t \in Int
    BY <1>1, <1>11
  <2>. HIDE DEF t
  <2>. QED
    BY <1>6, <2>1, LeastOfIs
<1>15. z * det - 8 * M <= 8 + det /\ -8 - det <= z * det - 8 * M /\ z \in Int
  <2>1. CASE g <= t
    <3>1. z = g
      BY <1>14, <2>1
    <3>2. g * det \in Int
      BY <1>2, <1>11
    <3>. DEFINE x == g * det
    <3>3. x \in Int /\ x - 8 * M <= 8 /\ -8 - det <= x - 8 * M /\ z * det = x
      BY <1>13, <3>1, <3>2
    <3>. HIDE DEF x
    <3>4. x - 8 * M <= 8 + det
      BY <1>1, <1>2, <3>3
    <3>. QED
      BY <1>11, <3>1, <3>3, <3>4
  <2>2. CASE t < g
    <3>1. z = t /\ t \in Nat /\ t = 8 * M - 1
      BY <1>1, <1>11, <1>14, <2>2
    <3>. DEFINE one == 1
    <3>2. one \in Nat /\ one <= det
      BY <1>2
    <3>. HIDE DEF one, t
    <3>3. one * t <= det * t /\ t * det <= g * det
      BY <1>2, <1>11, <2>2, <3>1, <3>2, ProductMono
    <3>. DEFINE x == t * det
                w == g * det
    <3>4. det * t = x /\ x \in Int /\ w \in Int /\ one * t = t /\ x <= w
      BY <1>2, <1>11, <3>1, <3>3 DEF one
    <3>5. t <= x /\ w - 8 * M <= 8
      BY <1>13, <3>3, <3>4
    <3>. HIDE DEF x, w
    <3>6. x - 8 * M <= 8 + det /\ -8 - det <= x - 8 * M
      BY <1>1, <1>2, <3>1, <3>4, <3>5
    <3>. QED
      BY <3>1, <3>6 DEF x
  <2>. QED
    BY <1>1, <1>11, <2>1, <2>2
<1>16. z * det \in Int
  BY <1>2, <1>15
<1>. DEFINE x == z * det - 8 * M
<1>17. x \in Int /\ x <= 8 + det /\ -8 - det <= x
  BY <1>1, <1>15, <1>16
<1>. HIDE DEF x
<1>18. AbsVal(x) <= 8 + det
  BY <1>2, <1>17 DEF AbsVal
<1>. QED
  BY <1>1, <1>18 DEF x, z

\* Whatever the word size up to 32 bits: no step of the reciprocal overflows a word, and
\* the answer to every determinant is the quotient up to its truncation and eight units.
THEOREM ReciprocalAlwaysConverges == RtSpec => []ReciprocalConverges
<1>1. RtCallable(query) /\ RtAnswer => ReciprocalConverges
  <2>1. SUFFICES ASSUME RtCallable(query), RtAnswer, Asked({"recip"})
                 PROVE  AbsVal(Got * query.det - 2 ^ FXW) <= RECIPROCAL_ERROR + query.det
    BY DEF ReciprocalConverges
  <2>2. query.k = "recip" /\ Got = Reciprocal(query.det)
    BY <2>1 DEF RtAnswer, Asked, Got
  <2>3. query.det \in 1 .. 2 ^ (FXW - 1)
    BY <2>1, <2>2 DEF RtCallable
  <2>4. AbsVal(Reciprocal(query.det) * query.det - 2 ^ FXW) <= 8 + query.det
    BY <2>3, ReciprocalIs
  <2>. QED
    BY <2>2, <2>4 DEF RECIPROCAL_ERROR
<1>. QED
  BY <1>1, RtAnswered, PTL
===============================================================================
