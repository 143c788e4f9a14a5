------------------------------- MODULE RtFixed -------------------------------
(***************************************************************************)
(* The arithmetic of the golden model of the ray-tracing hardware          *)
(* (tb/uvm/rt_ref.py): fixed-point numbers, the Newton-Raphson reciprocal, *)
(* ray-triangle and ray-box intersection.                                  *)
(*                                                                         *)
(* A fixed-point number has FXW bits, half of them fraction; 32 in the     *)
(* program, whose constants are those of FXW = 32.  Points and directions  *)
(* are triples of signed numbers.                                          *)
(***************************************************************************)
EXTENDS Integers

CONSTANT FXW            \* bits of a fixed-point number

ASSUME FxAssumption == FXW \in 8..32 /\ FXW % 2 = 0

FX_ONE == 2 ^ (FXW \div 2)
FX_MAX == 2 ^ (FXW - 1) - 1
NR_C1 == (48 * 2 ^ (FXW - 2) + 17) \div 34      \* round(24/17 * 2^(FXW-2))
NR_C2 == (16 * 2 ^ (FXW - 2) + 17) \div 34      \* round( 8/17 * 2^(FXW-2))

Wrap(x) == x % 2 ^ FXW
se32(x) == IF Wrap(x) > FX_MAX THEN Wrap(x) - 2 ^ FXW ELSE Wrap(x)

fx_mul(a, b) == se32((a * b) \div FX_ONE)

Axes == 1..3
Minus(v, w) == [i \in Axes |-> se32(v[i] - w[i])]
FxDot(v, w) == se32(fx_mul(v[1], w[1]) + fx_mul(v[2], w[2]) + fx_mul(v[3], w[3]))
FxCross(v, w) ==
    <<se32(fx_mul(v[2], w[3]) - fx_mul(v[3], w[2])),
      se32(fx_mul(v[3], w[1]) - fx_mul(v[1], w[3])),
      se32(fx_mul(v[1], w[2]) - fx_mul(v[2], w[1]))>>

LeastOf(S) == CHOOSE x \in S : \A y \in S : x <= y
GreatestOf(S) == CHOOSE x \in S : \A y \in S : x >= y

\* Reciprocal direction, saturated.
fx_inv_dir(d) ==
    LET r == LeastOf({2 ^ FXW \div (IF d < 0 THEN -d ELSE d), FX_MAX})
    IN  IF d = 0 THEN FX_MAX ELSE IF d > 0 THEN r ELSE -r

clz32(x) == IF x = 0 THEN FXW ELSE CHOOSE k \in 0 .. FXW - 1 : 2 ^ (FXW - 1 - k) <= x /\ x < 2 ^ (FXW - k)

\* Newton-Raphson reciprocal of an unsigned number other than zero: three steps from
\* a linear estimate, saturated to a word.
NewtonStep(m, r) ==
    LET p == Wrap((m * r) \div 2 ^ (FXW - 1))
    IN  Wrap((r * Wrap(2 ^ (FXW - 1) - p)) \div 2 ^ (FXW - 2))

\* Mutant: one step.
RefinedOnce(m, r) == NewtonStep(m, r)

Refined(m, r) == NewtonStep(m, NewtonStep(m, NewtonStep(m, r)))

Reciprocal(det) ==
    LET k == clz32(det)
        m == det * 2 ^ k
        r0 == Wrap(NR_C1 - (NR_C2 * m) \div 2 ^ (FXW - 1))
        r == Refined(m, r0)
    IN  LeastOf({(r * 2 ^ k) \div 2 ^ (FXW - 3), 2 ^ FXW - 1})

Miss == [hit |-> FALSE, t |-> 0, u |-> 0, v |-> 0]

\* Mutant: the sign of the determinant is ignored.
AsIs(det, n) == n

Oriented(det, n) == IF det < 0 THEN se32(-n) ELSE n

\* Moeller-Trumbore.  The numerators and the determinant are signed words, and the
\* sign of the determinant is moved to the numerators.
tri_isect(o, d, v0, v1, v2) ==
    LET e1 == Minus(v1, v0)
        e2 == Minus(v2, v0)
        s == Minus(o, v0)
        h == FxCross(d, e2)
        q == FxCross(s, e1)
        det == FxDot(e1, h)
        unum == Oriented(det, FxDot(s, h))
        vnum == Oriented(det, FxDot(d, q))
        tnum == Oriented(det, FxDot(e2, q))
        ndet == Wrap(Oriented(det, det))
        Out(n) == LeastOf({(Wrap(n) * Reciprocal(ndet)) \div FX_ONE, FX_MAX})
    IN  IF det # 0 /\ unum >= 0 /\ vnum >= 0 /\ unum + vnum <= ndet /\ tnum > 0
        THEN [hit |-> TRUE, t |-> Out(tnum), u |-> Out(unum), v |-> Out(vnum)]
        ELSE Miss

\* Slab test: whether the ray meets the box at or before t_max, and not behind it.
box_isect(o, inv, t_max, bmin, bmax) ==
    LET T(i, b) == fx_mul(se32(b[i] - o[i]), inv[i])
        lo == GreatestOf({LeastOf({T(i, bmin), T(i, bmax)}) : i \in Axes})
        hi == LeastOf({GreatestOf({T(i, bmin), T(i, bmax)}) : i \in Axes})
    IN  lo <= hi /\ hi >= 0 /\ lo <= t_max
==============================================================================
