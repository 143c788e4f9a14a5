----------------------------- MODULE TensorArith -----------------------------
(***************************************************************************)
(* The arithmetic of one processing element in the golden model of the     *)
(* tensor core array (tb/uvm/tensor_ref.py): the multiplier of each        *)
(* floating-point operand format and the truncating accumulator adder.     *)
(*                                                                         *)
(* An fp32 word is the record of its three fields.                         *)
(***************************************************************************)
EXTENDS FpRef

FP16 == FpFormat(5, 10)

fp32(s, e, f) == [s |-> s, e |-> e, f |-> f]
FP32_ZERO == fp32(0, 0, 0)

\* Mutant: halves round up.
_rshift_half_up(v, s) == IF s <= 0 THEN v * 2 ^ (-s) ELSE (v + 2 ^ (s - 1)) \div 2 ^ s

\* Round-to-nearest-even right shift of a positive integer.
_rshift_rne(v, s) ==
    LET q == v \div 2 ^ s
        rem == v % 2 ^ s
        half == 2 ^ (s - 1)
    IN  IF s <= 0 THEN v * 2 ^ (-s)
        ELSE IF rem > half \/ (rem = half /\ q % 2 = 1) THEN q + 1 ELSE q

\* The array's half-precision multiply: RNE, subnormals kept.  Written here for any
\* format, of which the program's is FP16.
fp16_mul(fmt, a, b) ==
    LET da == Decode(fmt, a)
        db == Decode(fmt, b)
        sr == (da.sign + db.sign) % 2
        kinds == {da.kind, db.kind}
        mp == da.mant * db.mant
        ep == da.scale + db.scale
        pos == BitLength(mp) - 1 + ep
        mant == _rshift_rne(mp, BitLength(mp) - 1 - fmt.MANT)
        e_field == pos + fmt.BIAS + (IF mant >= 2 ^ (fmt.MANT + 1) THEN 1 ELSE 0)
        n == _rshift_rne(mp, fmt.MIN_SCALE - ep)
    IN  CASE kinds \intersect {"nan", "snan"} # {} \/ kinds = {"inf", "zero"} -> QNAN(fmt)
          [] kinds \in {{"inf"}, {"inf", "fin"}} -> inf(fmt, sr)
          [] kinds \in {{"zero"}, {"zero", "fin"}} -> zero(fmt, sr)
          [] kinds = {"fin"} /\ pos >= 1 - fmt.BIAS ->      \* normal
                IF e_field >= fmt.EMAX_FIELD THEN inf(fmt, sr)
                ELSE Pack(fmt, sr, e_field,
                          (IF mant >= 2 ^ (fmt.MANT + 1) THEN mant \div 2 ELSE mant) % 2 ^ fmt.MANT)
          [] kinds = {"fin"} /\ pos < 1 - fmt.BIAS ->       \* subnormal, or rounded up to normal
                IF n >= 2 ^ fmt.MANT THEN Pack(fmt, sr, 1, n % 2 ^ fmt.MANT) ELSE Pack(fmt, sr, 0, n)

\* The PE's widening: a subnormal is flushed, an infinity becomes 2^16.
fp16_to_fp32(h) ==
    LET s == Sign(FP16, h)
        e == ExpField(FP16, h)
    IN  IF h % 2 ^ 15 = 0 THEN fp32(s, 0, 0)
        ELSE IF e = 0 THEN FP32_ZERO
        ELSE fp32(s, e + 112, Fraction(FP16, h) * 2 ^ 13)

\* E4M3 (fmt 0) and E5M2 (fmt 1) operands: sign, exponent field, fraction scaled to
\* three bits, bias, and whether it is a number.
Fp8(b, fmt) ==
    IF fmt = 1
    THEN [s |-> b \div 128, e |-> (b \div 4) % 32, f |-> (b % 4) * 2, bias |-> 15,
          number |-> (b \div 4) % 32 # 31]
    ELSE [s |-> b \div 128, e |-> (b \div 8) % 16, f |-> b % 8, bias |-> 7,
          number |-> b % 128 # 127]

\* Mutant: a subnormal keeps the exponent its field says.
FieldExponent(v) == v.e - v.bias

Exponent(v) == (IF v.e = 0 THEN 1 ELSE v.e) - v.bias

\* Exact product of two FP8 numbers; anything that is not a number counts as zero.
fp8_mul_to_fp32(a, b, fmt) ==
    LET x == Fp8(a, fmt)
        y == Fp8(b, fmt)
        Mant(v) == (IF v.e = 0 THEN 0 ELSE 8) + v.f
        prod == Mant(x) * Mant(y)
        p == BitLength(prod) - 1
        sign == (x.s + y.s) % 2
    IN  IF ~x.number \/ ~y.number \/ prod = 0 THEN fp32(sign, 0, 0)
        ELSE fp32(sign, (Exponent(x) + Exponent(y) - 6 + p + 127) % 256, (prod * 2 ^ (23 - p)) % 2 ^ 23)

\* The accumulator's adder: truncating, no subnormals, exponents modulo 256.
ShiftOut(m, n) == IF n > 24 THEN 0 ELSE m \div 2 ^ n
Significand(x) == IF x.e = 0 THEN 0 ELSE 2 ^ 23 + x.f

\* Mutant: the carry is dropped.
NoCarry(s, e, sum) == fp32(s, e, sum % 2 ^ 23)

WithCarry(s, e, sum) ==
    IF sum >= 2 ^ 24 THEN fp32(s, (e + 1) % 256, (sum \div 2) % 2 ^ 23) ELSE fp32(s, e, sum % 2 ^ 23)

fp32_add(a, b) ==
    LET er == Max2(a.e, b.e)
        ma == ShiftOut(Significand(a), er - a.e)
        mb == ShiftOut(Significand(b), er - b.e)
        sum == ma + mb
        diff == IF ma > mb THEN ma - mb ELSE mb - ma
        shift == 24 - BitLength(diff)
    IN  IF a = FP32_ZERO THEN b
        ELSE IF b = FP32_ZERO THEN a
        ELSE IF a.s = b.s
        THEN WithCarry(a.s, er, sum)
        ELSE IF diff = 0 THEN FP32_ZERO
        ELSE fp32(IF ma > mb THEN a.s ELSE b.s, (er - shift) % 256, (diff * 2 ^ shift) % 2 ^ 23)
=============================================================================
