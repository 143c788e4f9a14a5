------------------------------- MODULE MCTools -------------------------------
(***************************************************************************)
(* Kernels for the compiler, and the questions for the golden models.      *)
(***************************************************************************)
EXTENDS GoldenModels, MCKernels

SixBits == FpFormat(3, 2)

AddMulQueries ==
    {[k |-> op, fmt |-> REF, a |-> a, b |-> b, rm |-> rm] :
        op \in {"add", "mul"}, a \in 0..63, b \in 0..63, rm \in RoundingModes}

\* Multipliers and addends around the corners: zeroes, subnormals, one, ties, the
\* largest number, infinity and both NaNs.
FmaQueries ==
    {[k |-> "fma", fmt |-> REF, a |-> a, b |-> b, c |-> c, rm |-> rm] :
        a \in {0, 1, 7, 13, 27, 28, 29, 32, 35, 45, 59, 60}, b \in {0, 3, 13, 27, 33, 46, 60},
        c \in {0, 1, 2, 5, 12, 20, 27, 28, 29, 31, 32, 34, 41, 52, 59, 60}, rm \in RoundingModes}

CorpusQueries(fmt, op, category) ==
    {[k |-> op, category |-> category, fmt |-> fmt, a |-> v[1], b |-> v[2], rm |-> RM_RNE] :
        v \in Vectors(fmt, op, category)}

\* Every corpus at E4M3, in place of FP32, and the vectors of fp16_vectors.json that
\* have no free fraction.
VectorQueries ==
    {CorpusQueries(E4M3, op, category) : op \in {"add", "mul"}, category \in Categories}
    \union {CorpusQueries(FP16, "mul", category) : category \in {"nan", "tie", "overflow", "border", "near"}}

\* Signed zeroes, subnormals, the normal border, one and its neighbours, large ones.
HalfOperands ==
    {0, 32768, 1, 2, 3, 511, 512, 1022, 1023, 1024, 1025, 2047, 2048, 5120, 9216, 13312,
     14336, 14337, 15359, 15360, 15361, 15362, 15871, 15872, 16383, 16384, 20479, 30719,
     30720, 31743, 31744, 64511, 64512, 31745, 32256, 48129, 33791, 33793}
Fp16Queries ==
    {[k |-> "fp16", fmt |-> FP16, a |-> a, b |-> b] : a \in HalfOperands, b \in HalfOperands}
    \union {[k |-> "fp16", fmt |-> REF, a |-> a, b |-> b] : a \in 0..63, b \in 0..63}

Fp8Queries ==
    {[k |-> "fp8", a |-> a, b |-> b, fmt |-> fmt] : a \in 0..255, fmt \in 0..1,
        b \in {0, 1, 2, 3, 5, 7, 8, 15, 56, 57, 123, 124, 126, 127, 129, 183, 254}}

\* Every FP8 number, the halves between neighbours, and the points beside both.
Fp8RoundQueries ==
    {[k |-> "fp8round", x |-> sign * x] : sign \in {-1, 1}, x \in
        UNION {{8 * fp8_to_float(b) + e, 4 * (fp8_to_float(b) + fp8_to_float(b + 1)) + e} :
                  b \in 1..125, e \in {-1, 0, 1}}
        \union {0, 1, 7, FP8_LARGEST, FP8_LARGEST + 1, 2 * FP8_LARGEST}}

Fractions == {0, 1, 4194304, 4194305, 8388607}
AccQueries ==
    {[k |-> "acc", a |-> fp32(s, e, f), b |-> fp32(t, x, g)] :
        s \in 0..1, t \in 0..1, e \in {24, 100}, x \in 96..104, f \in Fractions, g \in Fractions}

Square == (1..2) \X (1..2)
Lanes3 == {[c \in Square |-> m[2 * c[1] + c[2] - 2]] : m \in
             {<<257, 65535, 32640, 513>>, <<32896, 127, 0, 33023>>, <<1, 65280, 254, 128>>}}
Lanes1 == {[c \in Square |-> m[2 * c[1] + c[2] - 2]] : m \in
             {<<56, 188, 40, 0>>, <<64, 176, 57, 184>>, <<128, 8, 60, 1>>}}
Lanes0 == {[c \in Square |-> m[2 * c[1] + c[2] - 2]] : m \in
             {<<15360, 48640, 14336, 0>>, <<16384, 47104, 15360, 15872>>, <<32768, 48128, 13312, 15616>>}}
WmmaQueries ==
    UNION {{[k |-> "wmma", A |-> a, B |-> b, M |-> 2, N |-> 2, K |-> 2, mode |-> mode] :
              a \in ls, b \in ls} : <<mode, ls>> \in {<<0, Lanes0>>, <<1, Lanes1>>, <<3, Lanes3>>}}

RecipQueries == {[k |-> "recip", det |-> n] : n \in 1 .. 2 ^ (FXW - 1)}

Point(x, y, z) == <<x * FX_ONE, y * FX_ONE, z * FX_ONE>>
Corners == {Point(x, y, z) : x \in 0..1, y \in 0..1, z \in 0..1}
TriQueries ==
    {[k |-> "tri", o |-> o, d |-> d, v |-> v] :
        o \in {Point(0, 0, -1), Point(2, 1, 1), Point(1, 0, 0)},
        d \in {Point(0, 0, 1), Point(-1, 0, 0), Point(1, 1, 1), Point(-1, 1, 2)},
        v \in Corners \X Corners \X Corners}

\* Long rays from behind a corner, where a partial product needs more bits than a word.
WideQueries ==
    UNION {{[k |-> "tri", o |-> Diff(x, d), d |-> d, v |-> v] : x \in {v[1], v[2], v[3], Point(0, 1, 1)}} :
        d \in {Point(10, 0, 1), Point(-7, 9, 1), Point(0, -8, 5)},
        v \in {Point(0, 0, 0), Point(1, 0, 1), Point(8, 0, 1)}
              \X {Point(0, 0, 0), Point(1, 0, 0), Point(9, 0, 2), Point(0, 0, 1)}
              \X {Point(0, 1, 4), Point(0, 9, 4), Point(-1, 7, 0)}}

\* Triangles across the rays at several distances, one of them behind.
Tri(id, z, x, y) == <<id, Point(x - 2, y - 2, z), Point(x + 3, y - 2, z + 1), Point(x, y + 3, z)>>
Pool == {Tri(1, 3, 0, 0), Tri(2, 1, 1, 0), Tri(3, 5, -1, 1), Tri(4, 2, 3, 3), Tri(5, -3, 0, 0)}
Scenes ==
    UNION {{s \in [1..n -> Pool] : \A i, j \in 1..n : i # j => s[i] # s[j]} : n \in 1..5}
SceneQueries ==
    {[k |-> "scene", tris |-> s, o |-> o, d |-> d] : s \in Scenes,
        o \in {Point(0, 0, 0), Point(1, 1, -2)},
        d \in {Point(1, 1, 1), Point(-1, 1, 2), Point(2, -1, 1)}}

PatternQueries == {[k |-> "pattern", p |-> p_] : p_ \in DirectedPatterns \union RandomPatterns}

CoverageQueries ==
    {[k |-> "fpu coverage", fmt |-> E4M3,
      categories |-> {"nan", "inf", "zero", "sub", "cross", "border", "tie", "overflow"}],
     [k |-> "lsu coverage"]}

AllQueries ==
    {AddMulQueries, FmaQueries, Fp16Queries, Fp8Queries, Fp8RoundQueries, AccQueries,
     WmmaQueries, RecipQueries, TriQueries, WideQueries, SceneQueries, PatternQueries, CoverageQueries}
    \union VectorQueries
=============================================================================
