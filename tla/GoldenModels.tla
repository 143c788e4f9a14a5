----------------------------- MODULE GoldenModels -----------------------------
(***************************************************************************)
(* The golden models of the testbenches, asked one question each, and what *)
(* their answers have to satisfy: every property compares an answer with a *)
(* statement of the result that does not compute it the model's way.  The  *)
(* calls and the properties of scalar floating point are in FpModels,      *)
(* those of fixed point in RtModels.                                       *)
(***************************************************************************)
EXTENDS PyKernel, TensorRef, RtRef, GenVectors, FpModels, RtModels

NoQuery == [k |-> "none"]

TensorProduct ==
    Ask("wmma") /\ answer' = <<wmma_golden(query.A, query.B, query.M, query.N, query.K, query.mode, 0)>>
TraceRay ==
    /\ Ask("scene")
    /\ LET inv == [i \in Axes |-> fx_inv_dir(query.d[i])]
       IN  answer' = <<traverse(build_bvh(query.tris), query.o, query.d, inv)>>
CountLines == Ask("pattern") /\ answer' = <<Transactions(query.p)>>

\* A testbench samples the bins of everything in its corpus.
SampleFpu ==
    /\ Ask("fpu coverage")
    /\ LET Flags(op, v) == IF op = "add" THEN fp_add(v[1], v[2], RM_RNE, query.fmt).flags
                                         ELSE fp_mul(v[1], v[2], RM_RNE, query.fmt).flags
       IN  answer' = <<UNION {UNION {sample_fpu_op(query.fmt, v[1], v[2], Flags(op, v)) :
                                v \in UNION {Vectors(query.fmt, op, c) : c \in query.categories}} :
                                op \in {"add", "mul"}}>>
SampleLsu ==
    Ask("lsu coverage") /\ answer' = <<UNION {sample_lsu_warp(p_) : p_ \in DirectedPatterns}>>

Answer ==
    \/ FpNext \/ RtNext
    \/ TensorProduct \/ TraceRay \/ CountLines \/ SampleFpu \/ SampleLsu

\* One behaviour is a kernel, compiled and run, or one call of a golden model.
KernelSession == Init /\ query = NoQuery /\ answer = <<>>

GoldenCall ==
    /\ Asking
    /\ status = "idle" /\ steps = 0 /\ pc = 0 /\ code = <<>> /\ r = <<>> /\ p = <<>>
    /\ mem = <<>> /\ bytes = <<>> /\ job = NoQuery

ToolsInit == KernelSession \/ GoldenCall

ToolsNext ==
    \/ Step /\ UNCHANGED <<query, answer>>
    \/ Answer /\ UNCHANGED vars

ToolsVars == <<vars, query, answer>>

\* A simulation runs until it returns or raises.
ToolsSpec == ToolsInit /\ [][ToolsNext]_ToolsVars /\ WF_ToolsVars(Step /\ UNCHANGED <<query, answer>>)

-----------------------------------------------------------------------------
(* The tensor array. *)

\* A matrix product folded by the array's model is the sum of the products of the
\* operands' values: integers and exactly representable sums lose nothing, whatever
\* the order of the terms.
HalfValue(h) ==
    LET d == Decode(FP16, h)
    IN  IF d.kind = "zero" THEN 0 ELSE Signed(d.sign, d.mant * 2 ^ (d.scale + 12))
FullValue(x) ==                                     \* in units of 2^-18
    IF x.e = 0 THEN 0 ELSE Signed(x.s, Significand(x) \div 2 ^ (132 - x.e))

TensorGoldenIsTheProduct ==
    Asked({"wmma"}) =>
        \A c \in DOMAIN Got :
            LET Term(k) ==
                    LET x == query.A[<<c[1], k>>]
                        y == query.B[<<k, c[2]>>]
                    IN  CASE query.mode = 0 -> (HalfValue(x) * HalfValue(y)) \div 64
                          [] query.mode = 1 -> fp8_to_float(x) * fp8_to_float(y)
                          [] query.mode = 3 -> SignedByte(x % 256) * SignedByte(y % 256)
                                               + SignedByte(x \div 256) * SignedByte(y \div 256)
                sum == FoldLeft(LAMBDA acc, k : acc + Term(k), 0, [k \in 1 .. query.K |-> k])
            IN  (IF query.mode = 3 THEN s32(Got[c]) ELSE FullValue(Got[c])) = sum

-----------------------------------------------------------------------------
(* Ray tracing. *)

\* Traversal of the tree the builder made finds the hit a search of all triangles
\* finds, as long as the stack holds the tree's depth: the boxes enclose what is
\* below them and pruning by the nearest hit so far loses nothing.
TraversalFindsNearest ==
    (Asked({"scene"}) /\ Len(query.tris) <= 2 ^ STACK_DEPTH) =>
        LET hits == {h \in {tri_isect(query.o, query.d, t[2], t[3], t[4]) : t \in ToSet(query.tris)} : h.hit}
        IN  /\ Got.hit <=> hits # {}
            /\ hits # {} => Got.t = LeastOf({h.t : h \in hits})

-----------------------------------------------------------------------------
(* Stimulus. *)

FromCorpus == Asked({"add", "mul"}) /\ "category" \in DOMAIN query
Pair == <<query.a, query.b>>
Round(rm) ==
    (IF query.k = "add" THEN fp_add(query.a, query.b, rm, query.fmt)
                        ELSE fp_mul(query.a, query.b, rm, query.fmt)).bits

\* Rounded to even from halfway: a product shows it by its even result, and a sum by
\* lying in the middle as well.
IsTie ==
    LET Val(b) == FpValue(query.fmt, b)
    IN  /\ Round(RM_RDN) # Round(RM_RUP) /\ Fraction(query.fmt, Got.bits) % 2 = 0
        /\ query.k = "add" => Val(Round(RM_RDN)) + Val(Round(RM_RUP)) = 2 * (Val(query.a) + Val(query.b))

\* In the top binade or past it.
IsAtTheTop == ExpField(query.fmt, Got.bits) >= query.fmt.EMAX_FIELD - 1

\* Within three units of the smallest normal number: codes beside it are one unit apart.
IsAtTheBorder == AbsVal((Got.bits % 2 ^ (query.fmt.WIDTH - 1)) - min_norm(query.fmt)) <= 3

\* Zeroes above the leading bit of a subnormal operand, and what its factor makes up for.
IsNormalIfOutweighed ==
    LET sub == IF ExpField(query.fmt, query.a) = 0 THEN query.a ELSE query.b
        factor == IF sub = query.a THEN query.b ELSE query.a
        zeroes == query.fmt.MANT + 1 - BitLength(Fraction(query.fmt, sub))
    IN  zeroes <= ExpField(query.fmt, factor) - query.fmt.BIAS =>
            ExpField(query.fmt, Got.bits) \in 1 .. query.fmt.EMAX_FIELD - 1

\* The products that are not where their comments put them: gen_vectors.py:173 is not
\* "a lone guard bit" (:169) but exact, :190 is not "straddling max finite" (:185) but a
\* power of two below the top binade, :197 does not "round back up to min_norm" (:194)
\* but is exactly the largest subnormal.
OffCorner(fmt, op, category) ==
    LET half == fmt.EMAX_FIELD \div 2
        root == enc(fmt, 0, half + fmt.BIAS \div 2, 0)
    IN  CASE op = "mul" /\ category = "tie" ->
                both({<<enc(fmt, 0, fmt.BIAS, 2), enc(fmt, 0, fmt.BIAS, 2 ^ (fmt.MANT - 1))>>})
          [] op = "mul" /\ category = "overflow" -> {<<root, root>>}
          [] op = "mul" /\ category = "border" ->
                both({<<enc(fmt, 0, fmt.BIAS - 1, MMASK(fmt) - 1), min_norm(fmt)>>})
          [] OTHER -> {}

Corner(fmt, op, category) ==
    LET kind == Decode(fmt, Got.bits).kind
    IN  CASE category = "nan" -> kind = "nan"
          [] category = "sub" ->
                (\A x \in {query.a, query.b} : ExpField(fmt, x) = 0) =>
                    IF op = "add" THEN Got.flags = {} ELSE kind = "zero" /\ "underflow" \in Got.flags
          [] category = "cross" -> IsNormalIfOutweighed
          [] category = "cancel" -> Decode(fmt, query.b).kind = "fin" => Got.flags = {}
          [] category = "tie" -> IsTie
          [] category = "overflow" ->
                /\ IsAtTheTop
                /\ Pair \in overflow_pairs(fmt, op) <=> "overflow" \in Got.flags
                /\ kind = "inf" <=> "overflow" \in Got.flags
                /\ (op = "add" /\ kind # "inf") => Got.bits = max_fin(fmt)
          [] category = "border" -> Got.bits = min_norm(fmt)
          [] category = "near" -> IsAtTheBorder
          [] category = "align" ->
                LET e == ExpField(fmt, query.a)
                    f == ExpField(fmt, query.b)
                    far == fmt.MANT + 3
                IN  /\ e >= f + far => Got.bits = query.a
                    /\ f >= e + far => Got.bits = query.b
          [] OTHER -> TRUE

PatternLines(kind) ==
    CASE kind \in {"stride-2", "straddle", "outlier"} -> {2}
      [] kind = "stride-4" -> {4}
      [] kind = "stride-8" -> {8}
      [] kind = "scatter" -> {32}
      [] kind = "random" -> 1..32
      [] OTHER -> {1}

\* Every vector is where gen_vectors.py's comments put it, the three of OffCorner are
\* not: NaN operands give NaNs, sums of subnormals are exact and products of them
\* underflow to zero, cancellations of numbers lose nothing, ties are exact halves,
\* exactly the overflow pairs marked so overflow and the others stay in the top binade,
\* the border products round up to the smallest normal or land within three units of
\* it, the widest alignment leaves the larger operand, and a subnormal is pushed back
\* to normal when the factor outweighs its leading zeroes.  A lane pattern costs the
\* lines it is named for and stays inside memory.  The categories whose operand classes
\* no draw changes cover every pair of classes and every flag.
StimulusHitsItsCorner ==
    /\ FromCorpus =>
        (Corner(query.fmt, query.k, query.category) <=> Pair \notin OffCorner(query.fmt, query.k, query.category))
    /\ Asked({"pattern"}) =>
        /\ Got \in PatternLines(query.p.kind)
        /\ \A i \in Lanes : query.p.addrs[i] \in 0 .. LIMIT - 4 /\ query.p.addrs[i] % 4 = 0
    /\ Asked({"fpu coverage"}) => FpuBins \subseteq Got
    /\ Asked({"lsu coverage"}) => LsuBins \subseteq Got
=============================================================================
