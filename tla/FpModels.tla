------------------------------- MODULE FpModels -------------------------------
(***************************************************************************)
(* The golden models of floating-point arithmetic, asked one question      *)
(* each, and what their answers have to satisfy.                           *)
(***************************************************************************)
EXTENDS TensorArith, Fp8Codec, Questions

CONSTANT REF            \* the format of the queries that are checked against IEEE-754

IsFormat(fmt) ==
    /\ fmt.EXP \in Nat \ {0, 1} /\ fmt.MANT \in Nat \ {0}
    /\ fmt = FpFormat(fmt.EXP, fmt.MANT)

Codes(fmt) == 0 .. 2 ^ fmt.WIDTH - 1
Fp32Words == [s : 0..1, e : 0..255, f : 0 .. 2 ^ 23 - 1]

\* The calls a testbench or the compiler can make.
Callable(q) ==
    /\ q.k \in {"add", "mul", "fma", "fp16"} =>
          IsFormat(q.fmt) /\ q.a \in Codes(q.fmt) /\ q.b \in Codes(q.fmt)
    /\ q.k \in {"add", "mul", "fma"} => q.rm \in RoundingModes
    /\ q.k = "fma" => q.c \in Codes(q.fmt)
    /\ q.k = "fp8" => q.a \in 0..255 /\ q.b \in 0..255 /\ q.fmt \in 0..1
    /\ q.k = "fp8round" => q.x \in Int
    /\ q.k = "acc" => q.a \in Fp32Words /\ q.b \in Fp32Words

ASSUME RefAssumption == IsFormat(REF)
ASSUME QueriesAssumption == \A calls \in Queries : \A q \in calls : Callable(q)

FpAdd == Ask("add") /\ answer' = <<fp_add(query.a, query.b, query.rm, query.fmt)>>
FpMul == Ask("mul") /\ answer' = <<fp_mul(query.a, query.b, query.rm, query.fmt)>>
FpFma == Ask("fma") /\ answer' = <<fp_fma(query.a, query.b, query.c, query.rm, query.fmt)>>
Fp16Mul == Ask("fp16") /\ answer' = <<fp16_mul(query.fmt, query.a, query.b)>>
Fp8Mul == Ask("fp8") /\ answer' = <<fp8_mul_to_fp32(query.a, query.b, query.fmt)>>
Fp8Round == Ask("fp8round") /\ answer' = <<float_to_fp8(query.x)>>
AccumulatorAdd == Ask("acc") /\ answer' = <<fp32_add(query.a, query.b)>>

FpNext == FpAdd \/ FpMul \/ FpFma \/ Fp16Mul \/ Fp8Mul \/ Fp8Round \/ AccumulatorAdd
FpSpec == Asking /\ [][FpNext]_<<query, answer>>

-----------------------------------------------------------------------------
(* IEEE-754 rounding, for the format of the exhaustive queries.  Values are *)
(* integers in units of 2^(2 * MIN_SCALE), in which products are whole.     *)

FpValue(fmt, bits) ==
    LET d == Decode(fmt, bits) IN Signed(d.sign, d.mant * 2 ^ (d.scale - 2 * fmt.MIN_SCALE))

\* The numbers and the infinities of REF, in order: infinity is one unit past the
\* largest number for the nearest-number rule, and past everything for the others.
Candidates == {b \in Codes(REF) : ~IsNan(Decode(REF, b))}
Place == [b \in Candidates |-> FpValue(REF, b)]
Far == [b \in Candidates |->
          IF Decode(REF, b).kind = "inf" THEN Signed(Sign(REF, b), 2 ^ (2 * (REF.MANT + REF.EMAX_FIELD)))
                                         ELSE Place[b]]
MaxPlus == Place[inf(REF, 0)]
Largest == Place[max_finite(REF, 0)]

IsLeastAbove(v, bits) ==
    Far[bits] >= v /\ \A c \in Candidates : Far[c] >= v => Far[c] >= Far[bits]
IsGreatestBelow(v, bits) ==
    Far[bits] <= v /\ \A c \in Candidates : Far[c] <= v => Far[c] <= Far[bits]
IsNearest(v, bits) ==
    LET x == IF AbsVal(v) > MaxPlus THEN Signed(SignOf(v), MaxPlus) ELSE v
        Gap(b) == AbsVal(x - Place[b])
    IN  \A c \in Candidates :
            \/ Gap(bits) < Gap(c) \/ Place[c] = Place[bits]
            \/ Gap(bits) = Gap(c) /\ Fraction(REF, bits) % 2 = 0

IsRounded(v, rm, bits) ==
    CASE rm = RM_RNE -> IsNearest(v, bits)
      [] rm = RM_RTZ -> IF v > 0 THEN IsGreatestBelow(v, bits) ELSE IsLeastAbove(v, bits)
      [] rm = RM_RDN -> IsGreatestBelow(v, bits)
      [] rm = RM_RUP -> IsLeastAbove(v, bits)

\* The magnitude, rounded as if exponents had no limit, is past the largest number.
Overflows(v, rm) ==
    CASE rm = RM_RNE -> 2 * AbsVal(v) >= MaxPlus + Largest
      [] rm = RM_RTZ -> AbsVal(v) >= MaxPlus
      [] rm \in {RM_RDN, RM_RUP} ->
            IF (rm = RM_RUP) = (v > 0) THEN AbsVal(v) > Largest ELSE AbsVal(v) >= MaxPlus

\* The operation's exact value, when its operands are numbers.
Operands2 == {query.a, query.b} \union (IF query.k = "fma" THEN {query.c} ELSE {})
Product == (FpValue(REF, query.a) \div 2 ^ (-REF.MIN_SCALE)) * (FpValue(REF, query.b) \div 2 ^ (-REF.MIN_SCALE))
Exact ==
    CASE query.k = "add" -> FpValue(REF, query.a) + FpValue(REF, query.b)
      [] query.k = "mul" -> Product
      [] query.k = "fma" -> Product + FpValue(REF, query.c)

ExhaustiveFp == Asked({"add", "mul", "fma"}) /\ query.fmt = REF
OnNumbers == \A x \in Operands2 : Decode(REF, x).kind \in {"zero", "fin"}

\* The flags of a rounding of v to bits (tininess after rounding).
FlagsOf(v, rm, bits) ==
    LET lost == Overflows(v, rm) \/ Place[bits] # v
    IN  If("overflow", Overflows(v, rm)) \union If("inexact", lost)
        \union If("underflow", lost /\ ExpField(REF, bits) = 0)

\* fp_ref.py: every operation rounds its exact result once, to the number IEEE-754
\* prescribes for the mode, keeps the sign of what rounds to zero, and raises the
\* flags that say what the rounding did.  Only an invalid operation or a NaN operand
\* gives a NaN.
FpRefRoundsOnce ==
    ExhaustiveFp =>
        IF OnNumbers
        THEN /\ IsRounded(Exact, query.rm, Got.bits)
             /\ Exact # 0 => Sign(REF, Got.bits) = SignOf(Exact)
             /\ Got.flags = FlagsOf(Exact, query.rm, Got.bits)
        ELSE LET kinds == {Decode(REF, x).kind : x \in Operands2}
             IN  /\ Got.flags \in {{}, {"invalid"}}
                 /\ "snan" \in kinds => Got.flags = {"invalid"}
                 /\ (Got.flags # {} \/ "nan" \in kinds) <=> Got.bits = QNAN(REF)

-----------------------------------------------------------------------------
(* The tensor array's models. *)

\* tensor_ref.py's half-precision multiply, written another way, is fp_ref.py's: two
\* golden models of one multiplier do not disagree on a rounding or a subnormal.
MultipliersAgree ==
    Asked({"fp16"}) => Got = fp_mul(query.a, query.b, RM_RNE, query.fmt).bits

\* The FP8 product is exact: no pair of operands of either format, subnormals
\* included, loses a bit or an exponent, and the compiler's simulator reads the same
\* number from an E4M3 byte.
E4M3 == FpFormat(4, 3)
Fp8ProductIsExact ==
    Asked({"fp8"}) =>
        LET x == IF query.fmt = 1 THEN Decode(FP16, query.a * 256) ELSE Decode(E4M3, query.a)
            y == IF query.fmt = 1 THEN Decode(FP16, query.b * 256) ELSE Decode(E4M3, query.b)
            n == x.scale + y.scale - (Got.e - 150)
        IN  IF Fp8(query.a, query.fmt).number /\ Fp8(query.b, query.fmt).number /\ x.mant * y.mant # 0
            THEN /\ Got.s = (x.sign + y.sign) % 2
                 /\ n \in 0..23 /\ x.mant * y.mant * 2 ^ n = 2 ^ 23 + Got.f
                 /\ query.fmt = 0 => fp8_to_float(query.a) = Signed(x.sign, x.mant * 2 ^ (x.scale + 9))
            ELSE Got = fp32((x.sign + y.sign) % 2, 0, 0)

\* float_to_fp8 gives the nearest FP8 number from the smallest subnormal to the
\* largest number, and every FP8 number comes back as itself.
Fp8RoundsToNearest ==
    Asked({"fp8round"}) =>
        LET Gap(b) == AbsVal(query.x - 8 * fp8_to_float(b))
        IN  AbsVal(query.x) \in 8 .. FP8_LARGEST =>
                \A b \in (0..255) \ {FP8_NAN, FP8_NAN + 128} : Gap(Got) <= Gap(b)

\* The accumulator's adder is off by at most one unit of its larger operand's last
\* place, two when the sum carries, while the exponent keeps its range.  Values are in
\* units of 2^low, to which the smaller operand of a wide gap is cut off.
AdderLosesLessThanAnUlp ==
    (Asked({"acc"}) /\ Max2(query.a.e, query.b.e) \in 24..253) =>
        LET low == Max2(Min2(query.a.e, query.b.e), Max2(query.a.e, query.b.e) - 4)
            At_(x, sig) == IF x.e >= low THEN sig * 2 ^ (x.e - low) ELSE ShiftOut(sig, low - x.e)
            V(x) == Signed(x.s, At_(x, Significand(x)))
            exact == V(query.a) + V(query.b)
            top == Max2(Max2(query.a.e, query.b.e), Got.e)
        IN  AbsVal(V(Got) - exact) <= 2 ^ (top - low)
===============================================================================
