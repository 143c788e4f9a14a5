-------------------------------- MODULE FpRef --------------------------------
(***************************************************************************)
(* The exact floating-point reference model of the FPU testbenches         *)
(* (tb/uvm/fp_ref.py): add, multiply and fused multiply-add of any binary  *)
(* format, in integer arithmetic, with the exception flags.                *)
(*                                                                         *)
(* A number is its bits, a natural number below 2^WIDTH; the flags are the *)
(* set of those raised.                                                    *)
(***************************************************************************)
EXTENDS Integers, FiniteSets

RM_RNE == 0
RM_RTZ == 1
RM_RDN == 2
RM_RUP == 3
RoundingModes == {RM_RNE, RM_RTZ, RM_RDN, RM_RUP}

\* FpFormat(exp_bits, mant_bits)
FpFormat(e, m) ==
    [EXP |-> e, MANT |-> m,
     BIAS |-> 2 ^ (e - 1) - 1,
     EMAX_FIELD |-> 2 ^ e - 1,
     WIDTH |-> 1 + e + m,
     MIN_SCALE |-> 1 - (2 ^ (e - 1) - 1) - m]    \* scale of the last subnormal bit

Pack(fmt, sign, e, f) == (sign * 2 ^ fmt.EXP + e) * 2 ^ fmt.MANT + f
QNAN(fmt) == Pack(fmt, 0, fmt.EMAX_FIELD, 2 ^ (fmt.MANT - 1))
inf(fmt, sign) == Pack(fmt, sign, fmt.EMAX_FIELD, 0)
max_finite(fmt, sign) == Pack(fmt, sign, fmt.EMAX_FIELD - 1, 2 ^ fmt.MANT - 1)
zero(fmt, sign) == Pack(fmt, sign, 0, 0)

Sign(fmt, bits) == bits \div 2 ^ (fmt.WIDTH - 1)
ExpField(fmt, bits) == (bits \div 2 ^ fmt.MANT) % 2 ^ fmt.EXP
Fraction(fmt, bits) == bits % 2 ^ fmt.MANT

\* kind, sign, and for a finite number mant and scale: (-1)^sign * mant * 2^scale.
Decode(fmt, bits) ==
    LET e == ExpField(fmt, bits)
        f == Fraction(fmt, bits)
        kind == CASE e = fmt.EMAX_FIELD /\ f = 0 -> "inf"
                  [] e = fmt.EMAX_FIELD /\ f \in 1 .. 2 ^ (fmt.MANT - 1) - 1 -> "snan"
                  [] e = fmt.EMAX_FIELD /\ f >= 2 ^ (fmt.MANT - 1) -> "nan"
                  [] e = 0 /\ f = 0 -> "zero"
                  [] OTHER -> "fin"
    IN  [kind |-> kind, sign |-> Sign(fmt, bits),
         mant |-> IF e = 0 THEN f ELSE f + 2 ^ fmt.MANT,
         scale |-> IF e = 0 THEN fmt.MIN_SCALE ELSE e - fmt.BIAS - fmt.MANT]

IsNan(d) == d.kind \in {"nan", "snan"}

\* The interval only bounds the search.
BitLength(n) ==
    IF n = 0 THEN 0
    ELSE CHOOSE k \in 1 .. (IF n \div 2 ^ 30 < 2 THEN 31 ELSE n) :
            2 ^ (k - 1) <= n /\ n \div 2 ^ (k - 1) < 2

Max2(a, b) == IF a > b THEN a ELSE b
Min2(a, b) == IF a < b THEN a ELSE b

Outcome(bits, flags) == [bits |-> bits, flags |-> flags]
If(flag, raised) == IF raised THEN {flag} ELSE {}

\* Mutant: ties always away from zero.
TiesAway(rm, sign, kept, round_bit, sticky) ==
    CASE rm = RM_RNE -> round_bit = 1
      [] rm = RM_RTZ -> FALSE
      [] rm = RM_RDN -> sign = 1 /\ (round_bit = 1 \/ sticky)
      [] rm = RM_RUP -> sign = 0 /\ (round_bit = 1 \/ sticky)

\* Whether the kept bits of a magnitude are incremented.
RoundsUp(rm, sign, kept, round_bit, sticky) ==
    CASE rm = RM_RNE -> round_bit = 1 /\ (sticky \/ kept % 2 = 1)
      [] rm = RM_RTZ -> FALSE
      [] rm = RM_RDN -> sign = 1 /\ (round_bit = 1 \/ sticky)
      [] rm = RM_RUP -> sign = 0 /\ (round_bit = 1 \/ sticky)

\* The result of an overflow: infinity, or the largest number on its near side.
Overflowed(rm, sign, fmt) ==
    IF rm = RM_RNE \/ (rm = RM_RDN /\ sign = 1) \/ (rm = RM_RUP /\ sign = 0)
    THEN inf(fmt, sign) ELSE max_finite(fmt, sign)

\* A rounded significand whose last bit has the scale lsb, packed: it may have carried
\* into the next binade, and past the largest number.
PackRounded(sign, kept1, lsb, inexact, rm, fmt) ==
    LET carry == kept1 >= 2 ^ (fmt.MANT + 1)
        kept == IF carry THEN kept1 \div 2 ELSE kept1
        biased == lsb + (IF carry THEN 1 ELSE 0) + fmt.MANT + fmt.BIAS
    IN  CASE kept = 0 -> Outcome(zero(fmt, sign), If("underflow", inexact) \union If("inexact", inexact))
          [] kept >= 2 ^ fmt.MANT /\ biased >= fmt.EMAX_FIELD ->
                Outcome(Overflowed(rm, sign, fmt), {"overflow", "inexact"})
          [] kept >= 2 ^ fmt.MANT /\ biased < fmt.EMAX_FIELD ->
                Outcome(Pack(fmt, sign, biased, kept % 2 ^ fmt.MANT), If("inexact", inexact))
          [] OTHER -> Outcome(Pack(fmt, sign, 0, kept),
                              If("underflow", inexact) \union If("inexact", inexact))

\* Round the magnitude mant * 2^scale, mant > 0, into the format.
RoundPack(sign, mant, scale, rm, fmt) ==
    LET lsb == Max2(scale + BitLength(mant) - 1 - fmt.MANT, fmt.MIN_SCALE)
        shift == lsb - scale
        kept0 == IF shift > 0 THEN mant \div 2 ^ shift ELSE mant * 2 ^ (-shift)
        round_bit == IF shift > 0 THEN (mant \div 2 ^ (shift - 1)) % 2 ELSE 0
        sticky == shift > 0 /\ mant % 2 ^ (shift - 1) # 0
        up == IF RoundsUp(rm, sign, kept0, round_bit, sticky) THEN 1 ELSE 0
    IN  PackRounded(sign, kept0 + up, lsb, round_bit = 1 \/ sticky, rm, fmt)

Signed(sign, n) == IF sign = 1 THEN -n ELSE n
SignOf(n) == IF n < 0 THEN 1 ELSE 0

ZeroSum(rm, fmt) == Outcome(zero(fmt, IF rm = RM_RDN THEN 1 ELSE 0), {})

\* Two signed magnitudes at their scales, added exactly and rounded once.
RoundedSum(s1, m1, c1, s2, m2, c2, rm, fmt) ==
    LET scale == Min2(c1, c2)
        s == Signed(s1, m1 * 2 ^ (c1 - scale)) + Signed(s2, m2 * 2 ^ (c2 - scale))
    IN  IF s = 0 THEN ZeroSum(rm, fmt)
        ELSE RoundPack(SignOf(s), IF s < 0 THEN -s ELSE s, scale, rm, fmt)

fp_add(a_bits, b_bits, rm, fmt) ==
    LET a == Decode(fmt, a_bits)
        b == Decode(fmt, b_bits)
    IN  CASE IsNan(a) \/ IsNan(b) ->
                Outcome(QNAN(fmt), If("invalid", "snan" \in {a.kind, b.kind}))
          [] ~(IsNan(a) \/ IsNan(b)) /\ "inf" \in {a.kind, b.kind} ->
                IF a.kind = b.kind /\ a.sign # b.sign THEN Outcome(QNAN(fmt), {"invalid"})
                ELSE Outcome(inf(fmt, IF a.kind = "inf" THEN a.sign ELSE b.sign), {})
          [] {a.kind, b.kind} = {"zero"} ->
                IF a.sign = b.sign THEN Outcome(zero(fmt, a.sign), {}) ELSE ZeroSum(rm, fmt)
          [] OTHER -> RoundedSum(a.sign, a.mant, a.scale, b.sign, b.mant, b.scale, rm, fmt)

fp_mul(a_bits, b_bits, rm, fmt) ==
    LET a == Decode(fmt, a_bits)
        b == Decode(fmt, b_bits)
        sign == (a.sign + b.sign) % 2
        kinds == {a.kind, b.kind}
    IN  CASE kinds \intersect {"nan", "snan"} # {} ->
                Outcome(QNAN(fmt), If("invalid", "snan" \in kinds))
          [] kinds = {"inf", "zero"} -> Outcome(QNAN(fmt), {"invalid"})
          [] kinds \in {{"inf"}, {"inf", "fin"}} -> Outcome(inf(fmt, sign), {})
          [] kinds \in {{"zero"}, {"zero", "fin"}} -> Outcome(zero(fmt, sign), {})
          [] kinds = {"fin"} -> RoundPack(sign, a.mant * b.mant, a.scale + b.scale, rm, fmt)

\* a * b + c with one rounding.  0 * Inf is invalid whatever c is.
fp_fma(a_bits, b_bits, c_bits, rm, fmt) ==
    LET a == Decode(fmt, a_bits)
        b == Decode(fmt, b_bits)
        c == Decode(fmt, c_bits)
        ps == (a.sign + b.sign) % 2
        mul_inv == {a.kind, b.kind} = {"inf", "zero"}
        kinds == {a.kind, b.kind, c.kind}
    IN  IF kinds \intersect {"nan", "snan"} # {}
        THEN Outcome(QNAN(fmt), If("invalid", "snan" \in kinds \/ mul_inv))
        ELSE IF mul_inv THEN Outcome(QNAN(fmt), {"invalid"})
        ELSE IF "inf" \in {a.kind, b.kind}
        THEN IF c.kind = "inf" /\ c.sign # ps THEN Outcome(QNAN(fmt), {"invalid"})
                                              ELSE Outcome(inf(fmt, ps), {})
        ELSE IF c.kind = "inf" THEN Outcome(inf(fmt, c.sign), {})
        ELSE IF "zero" \in {a.kind, b.kind} /\ c.kind = "zero"
        THEN IF ps = c.sign THEN Outcome(zero(fmt, ps), {}) ELSE ZeroSum(rm, fmt)
        ELSE RoundedSum(ps, a.mant * b.mant, a.scale + b.scale, c.sign, c.mant, c.scale, rm, fmt)
=============================================================================
