------------------------------ MODULE GenVectors ------------------------------
(***************************************************************************)
(* The stimulus corpora of the FPU and LSU testbenches                     *)
(* (tb/vectors/gen_vectors.py) and the coverage bins they are counted in   *)
(* (tb/uvm/coverage_util.py).                                              *)
(*                                                                         *)
(* A random draw of the generator is any value of its range, so a corpus   *)
(* is the set of the operand pairs some seed produces.  A category is a    *)
(* numbered group of fp_pairs; the last group but one has two comments,    *)
(* and two categories.                                                     *)
(***************************************************************************)
EXTENDS FpRef

enc(fmt, s, e, f) == Pack(fmt, s % 2, e % 2 ^ fmt.EXP, f % 2 ^ fmt.MANT)

MMASK(fmt) == 2 ^ fmt.MANT - 1
qnan(fmt) == enc(fmt, 0, fmt.EMAX_FIELD, 2 ^ (fmt.MANT - 1))
snan(fmt) == enc(fmt, 0, fmt.EMAX_FIELD, 1)
min_sub(fmt) == enc(fmt, 0, 0, 1)
max_sub(fmt) == enc(fmt, 0, 0, MMASK(fmt))
min_norm(fmt) == enc(fmt, 0, 1, 0)
max_fin(fmt) == enc(fmt, 0, fmt.EMAX_FIELD - 1, MMASK(fmt))
one(fmt) == enc(fmt, 0, fmt.BIAS, 0)
neg(fmt, v) == (v + 2 ^ (fmt.WIDTH - 1)) % 2 ^ fmt.WIDTH

rand_norm(fmt, emin, emax) == {enc(fmt, s, e, f) : s \in 0..1, e \in emin..emax, f \in 0 .. MMASK(fmt)}
rand_sub(fmt) == {enc(fmt, s, 0, f) : s \in 0..1, f \in 1 .. MMASK(fmt)}

both(pairs) == pairs \union {<<p[2], p[1]>> : p \in pairs}
Signs(fmt, S) == S \union {neg(fmt, v) : v \in S}

Categories ==
    {"nan", "inf", "zero", "sub", "cross", "cancel", "tie", "overflow", "border", "near", "align"}

\* Mutant: one binade up.
ulp_e_high(fmt) == fmt.EMAX_FIELD - fmt.MANT

ulp_e(fmt) == fmt.EMAX_FIELD - 1 - fmt.MANT      \* exponent of ulp(max_fin)

nan_pairs(fmt) ==
    both(({qnan(fmt), neg(fmt, qnan(fmt)), max_sub(fmt) + enc(fmt, 0, fmt.EMAX_FIELD, 0), snan(fmt),
           qnan(fmt) + (291 % 2 ^ fmt.MANT), snan(fmt) + 2 ^ (fmt.MANT - 2), neg(fmt, snan(fmt))}
          \X (Signs(fmt, {0, inf(fmt, 0)}) \union {one(fmt), min_sub(fmt), max_fin(fmt), qnan(fmt), snan(fmt)})))

inf_pairs(fmt, op) ==
    LET infs == Signs(fmt, {inf(fmt, 0)})
    IN  (IF op = "mul" THEN both(infs \X Signs(fmt, {0})) ELSE {}) \union
        (infs \X infs) \union both(infs \X Signs(fmt, {one(fmt), max_fin(fmt), min_norm(fmt), min_sub(fmt)}))

zero_pairs(fmt) ==
    LET zeros == Signs(fmt, {0})
    IN  (zeros \X zeros) \union both(zeros \X (Signs(fmt, {one(fmt)}) \union {min_sub(fmt), max_fin(fmt)}))

sub_pairs(fmt) ==
    (rand_sub(fmt) \X rand_sub(fmt))
    \union both({min_sub(fmt)} \X {one(fmt), max_fin(fmt), min_norm(fmt), inf(fmt, 0)})

\* add: a + (-a +/- k ulp), and the neighbour one exponent below
cancel_pairs(fmt) ==
    {<<a, (IF a < 2 ^ (fmt.WIDTH - 1) THEN neg(fmt, a) + k ELSE neg(fmt, a) - k) % 2 ^ fmt.WIDTH>> :
        a \in rand_norm(fmt, 2, fmt.EMAX_FIELD - 1), k \in 0..2}
    \union {<<enc(fmt, 0, e, 0), enc(fmt, 1, e - 1, MMASK(fmt))>> : e \in 2 .. fmt.EMAX_FIELD - 2}

\* add: a number and exactly half its ulp
tie_add_pairs(fmt) ==
    both({<<enc(fmt, 0, e, f), enc(fmt, 0, e - fmt.MANT - 1, 0)>> :
            e \in fmt.MANT + 2 .. fmt.EMAX_FIELD - 2, f \in 0 .. MMASK(fmt)})

\* mul: "mantissa products with a lone guard bit"
tie_mul_pairs(fmt) ==
    both(({enc(fmt, 0, fmt.BIAS, f) : f \in 1..2} \union {enc(fmt, 0, e, 1) : e \in 2 .. fmt.EMAX_FIELD - 2})
         \X {enc(fmt, 0, fmt.BIAS, 2 ^ (fmt.MANT - 1))})

\* The boundary pairs marked as going to infinity, and the others of their group.
overflow_pairs(fmt, op) ==
    IF op = "add"
    THEN {<<max_fin(fmt), max_fin(fmt)>>, <<max_fin(fmt), enc(fmt, 0, ulp_e(fmt), 0)>>,
          <<max_fin(fmt), enc(fmt, 0, ulp_e(fmt) - 1, 0)>>, <<neg(fmt, max_fin(fmt)), neg(fmt, max_fin(fmt))>>}
    ELSE {<<max_fin(fmt), enc(fmt, 0, fmt.BIAS, 1)>>}

boundary_pairs(fmt, op) ==
    LET half == fmt.EMAX_FIELD \div 2
        root == enc(fmt, 0, half + fmt.BIAS \div 2, 0)
    IN  IF op = "add"
        THEN {<<max_fin(fmt), enc(fmt, 0, ulp_e(fmt) - 2, 0)>>}
        ELSE {<<max_fin(fmt), one(fmt)>>, <<max_fin(fmt), enc(fmt, 0, fmt.BIAS - 1, MMASK(fmt))>>,
              <<root, root>>, <<enc(fmt, 0, fmt.EMAX_FIELD - 2, 0), enc(fmt, 0, fmt.BIAS + 1, 0)>>}

\* mul: "large multiplier pushes the product back over the normal threshold"
cross_pairs(fmt) ==
    both(rand_sub(fmt) \X rand_norm(fmt, fmt.BIAS + 2, fmt.BIAS + fmt.MANT + 2))

\* mul: "(1 - ulp) * min_norm and neighbors"
border_pairs(fmt) == both({enc(fmt, 0, fmt.BIAS - 1, MMASK(fmt) - k) : k \in 0..1} \X {min_norm(fmt)})

\* mul: "products landing within a few ulp of the subnormal/normal border"
near_border_pairs(fmt) ==
    both({enc(fmt, s, fmt.BIAS - 1, MMASK(fmt) - k) : s \in 0..1, k \in 0..3}
         \X {enc(fmt, s, 1, k) : s \in 0..1, k \in 0..3})

\* add: exponents d apart, a subnormal number where there is no such exponent
align_pairs(fmt) ==
    LET Exponents(d) == Min2(d + 1, fmt.EMAX_FIELD - 2) .. fmt.EMAX_FIELD - 2
        Apart(d) == UNION {rand_norm(fmt, e, e) \X
                           (IF e > d THEN rand_norm(fmt, e - d, e - d) ELSE rand_sub(fmt)) : e \in Exponents(d)}
    IN  both(UNION {Apart(d) : d \in {0, 1, fmt.MANT, fmt.MANT + 1, fmt.MANT + 2, fmt.MANT + 3, 60}})

Vectors(fmt, op, category) ==
    CASE category = "nan" -> nan_pairs(fmt)
      [] category = "inf" -> inf_pairs(fmt, op)
      [] category = "zero" -> zero_pairs(fmt)
      [] category = "sub" -> sub_pairs(fmt)
      [] category = "tie" -> IF op = "add" THEN tie_add_pairs(fmt) ELSE tie_mul_pairs(fmt)
      [] category = "overflow" -> overflow_pairs(fmt, op) \union boundary_pairs(fmt, op)
      [] category = "cancel" /\ op = "add" -> cancel_pairs(fmt)
      [] category = "align" /\ op = "add" -> align_pairs(fmt)
      [] category = "cross" /\ op = "mul" -> cross_pairs(fmt)
      [] category = "border" /\ op = "mul" -> border_pairs(fmt)
      [] category = "near" /\ op = "mul" -> near_border_pairs(fmt)
      [] OTHER -> {}

-----------------------------------------------------------------------------
(* LSU patterns: a lane mask and the address of every lane.                *)

Lanes == 0..31

LINE == 128
LIMIT == 262144

Strided(base, stride) == [i \in Lanes |-> base + stride * i]
Seq0 == Strided(4096, 4)

Pattern(kind, mask, addrs) == [kind |-> kind, mask |-> mask, addrs |-> addrs]

DirectedPatterns ==
    {Pattern("converged", Lanes, Seq0), Pattern("sequential", Lanes, Strided(8192, 4)),
     Pattern("stride-2", Lanes, Strided(12288, 8)), Pattern("stride-4", Lanes, Strided(16384, 16)),
     Pattern("stride-8", Lanes, Strided(20480, 32)), Pattern("same", Lanes, [i \in Lanes |-> 24640]),
     Pattern("straddle", Lanes, Strided(28672 + 64, 4)), Pattern("scatter", Lanes, Strided(32768, LINE)),
     Pattern("single", {13}, Seq0), Pattern("alternating", {i \in Lanes : i % 2 = 0}, Seq0),
     Pattern("random sparse", {0, 5, 31}, Seq0),
     Pattern("outlier", Lanes, [i \in Lanes |-> IF i = 7 THEN 36864 + 8192 ELSE 36864]),
     Pattern("reverse", Lanes, [i \in Lanes |-> 40960 + 4 * (31 - i)])}

\* The extreme draws of the four random styles, the same for every lane.
RandomPatterns ==
    {Pattern("random", Lanes, [i \in Lanes |-> a]) : a \in
        {b + 4 * x : b \in {0, LIMIT - 260}, x \in {0, 63}} \union {0, LIMIT - 4}
        \union {b + LINE * x + 4 * y : b \in {0, LIMIT - LINE * 40 - 4}, x \in {0, 7}, y \in {0, 31}}}
    \union {Pattern("random", Lanes, Strided(b, 4)) : b \in {0, LIMIT - 4 * 40 - 4}}
    \union {Pattern("random", {i \in Lanes : i < 20}, [i \in Lanes |-> LIMIT - 4 - 4096 * i])}

\* The lines the active lanes of a pattern touch.
Transactions(p) == Cardinality({p.addrs[i] \div LINE : i \in p.mask})

-----------------------------------------------------------------------------
(* Coverage bins a vector or a pattern is counted in.                      *)

FP_CLASSES == {"zero", "sub", "norm", "inf", "nan"}

fp_class(fmt, bits) ==
    LET e == ExpField(fmt, bits)
        f == Fraction(fmt, bits)
    IN  CASE e = fmt.EMAX_FIELD -> IF f # 0 THEN "nan" ELSE "inf"
          [] e = 0 -> IF f # 0 THEN "sub" ELSE "zero"
          [] OTHER -> "norm"

\* Operand classes crossed, and the flags a vector raises.
sample_fpu_op(fmt, a, b, flags) ==
    {<<"cls", fp_class(fmt, a), fp_class(fmt, b)>>}
    \union (IF flags = {} THEN {<<"flag", "none">>} ELSE {<<"flag", f>> : f \in flags})

_mask_kind(mask) ==
    CASE mask = {} -> "empty"
      [] Cardinality(mask) = 1 -> "single"
      [] Cardinality(mask) = 32 -> "full"
      [] OTHER -> "sparse"

_xact_bin(n) ==
    CASE n \in 0..2 -> n
      [] n \in 3..8 -> 8
      [] n \in 9..31 -> 31
      [] OTHER -> 32

sample_lsu_warp(p) == {<<"mask", _mask_kind(p.mask)>>, <<"xactions", _xact_bin(Transactions(p))>>}

\* What a corpus is there to cover: every pair of classes and every flag; every mask
\* with a lane in it, and the transaction counts but for none and 9-31, which are left
\* to the random patterns.
FpuBins ==
    {<<"cls", a, b>> : a \in FP_CLASSES, b \in FP_CLASSES}
    \union {<<"flag", f>> : f \in {"invalid", "overflow", "underflow", "inexact", "none"}}

LsuBins ==
    {<<"mask", kind>> : kind \in {"single", "sparse", "full"}}
    \union {<<"xactions", n>> : n \in {1, 2, 8, 32}}
=============================================================================
