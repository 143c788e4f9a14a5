------------------------------ MODULE MCKernels ------------------------------
(***************************************************************************)
(* Kernels for the compiler to compile and the simulator to run.           *)
(***************************************************************************)
EXTENDS PyKernel

\* Syntax.
N(id) == Name(id)
C(v) == [k |-> "const", v |-> v]
B(op, l, r_) == [k |-> "bin", op |-> op, l |-> l, r |-> r_]
Neg(e) == [k |-> "neg", e |-> e]
At(arr, i) == [k |-> "sub", arr |-> arr, i |-> i]
Assign(tgt, val) == [k |-> "assign", tgts |-> <<tgt>>, val |-> val]
Aug(op, tgt, val) == [k |-> "aug", op |-> op, tgt |-> tgt, val |-> val]
For(var, args, body) ==
    [k |-> "for", var |-> var, args |-> args, body |-> body, orelse |-> FALSE, range |-> TRUE]
Return == [k |-> "return", value |-> FALSE]
Doc == [k |-> "doc"]
Pass == [k |-> "pass"]

Scalar(params, body, arrays, scalars) ==
    [fn |-> [params |-> params, body |-> body], backend |-> "scalar",
     arrays |-> arrays, scalars |-> scalars]

-----------------------------------------------------------------------------
(* A[0] = <expression of x and y> *)

Ops == DOMAIN BINOPS \union {"Mod"}
Division == {"FloorDiv", "Mod"}

\* Operands an operator is defined on: no negative division, shift counts in the word.
Operands(op) ==
    CASE op \in Division -> {0, 1, 7, 4100, 70000} \X {1, 3, 4096}
      [] op \in {"LShift", "RShift"} -> {-9, 0, 1, 4100} \X {0, 1, 6}
      [] op = "Mult" -> {-9, 0, 3, 4100} \X {-5, 1, 4100}
      [] OTHER -> {-70000, -1, 0, 4100, 16777300} \X {-4097, 0, 7, 16777301}

Shapes(op) ==
    {B(op, N("x"), N("y")), B(op, N("x"), C(5)), B(op, C(4096), N("y")),
     B("Sub", B(op, N("x"), N("y")), At("A", C(1))), B("Add", B(op, N("x"), C(3)), N("x")),
     B("BitXor", Neg(N("y")), B(op, N("x"), N("y")))}

ExprKernels ==
    {Scalar(<<"A", "x", "y">>, <<Assign(At("A", C(0)), e)>>, [A |-> <<0, 13>>],
            [x |-> v[1], y |-> v[2]]) : <<e, v>> \in
        UNION {Shapes(op) \X Operands(op) : op \in Ops}}

ConstKernels ==
    {Scalar(<<"A">>, <<Assign(At("A", C(0)), e)>>, [A |-> <<7>>], [x |-> 0]) :
        e \in {C(v) : v \in {0, 4095, 4096, 70000, 16777221, ModW - 1, ModW - 4095, ModW - 4096}}
              \union {Neg(C(4096)), B("Add", C(1), C(4096)), N("undefined"), B("Pow", C(2), C(3))}}

\* (-x) + ((-x) + ( ... )) holds a register a level; with 46 parameters ten are left.
DeepSum[n \in 0..20] == IF n = 0 THEN Neg(N("x")) ELSE B("Add", Neg(N("x")), DeepSum[n - 1])
ManyParams == <<"A", "x">> \o [i \in 1..44 |-> "p" \o ToString(i)]
DeepKernels ==
    {Scalar(ManyParams, <<Assign(At("A", C(0)), DeepSum[n])>>, [A |-> <<0>>],
            [i \in ToSet(ManyParams) \ {"A"} |-> 3]) : n \in {2, 7, 8, 9, 10, 20}}

-----------------------------------------------------------------------------
(* Loops. *)

Loop(body) ==
    {Scalar(<<"A", "n", "m">>, body, [A |-> <<3, 1, 4, 2>>], [n |-> n, m |-> m]) :
        n \in {0, 1, 3}, m \in {1, 2}}

LoopKernels ==
    UNION {Loop(body) : body \in {
        \* sum of a prefix
        <<Doc, Assign(N("s"), C(0)),
          For("i", <<N("n")>>, <<Aug("Add", N("s"), At("A", N("i")))>>),
          Assign(At("A", C(3)), N("s"))>>,
        \* start, stop and step; a subscript as target of an augmented assignment
        <<For("i", <<N("m"), B("Add", N("n"), C(1)), C(2)>>,
              <<Aug("Mult", At("A", N("i")), B("Add", N("i"), C(10))), Pass>>)>>,
        \* the body writes the variable the bound was read from
        <<For("i", <<N("n")>>, <<Assign(N("n"), B("Sub", N("n"), C(1))),
                                 Assign(At("A", N("i")), N("n"))>>)>>,
        \* two loops, one variable bound by an expression of the other
        <<For("i", <<N("n")>>, <<For("j", <<N("i"), B("Add", N("i"), N("m"))>>,
              <<Aug("Add", At("A", N("j")), B("Mult", N("i"), N("j")))>>)>>)>>,
        \* a gather through an index in memory, and an early return
        <<Assign(At("A", C(0)), At("A", At("A", C(1)))),
          For("i", <<C(2)>>, <<Assign(At("A", N("m")), Neg(At("A", N("n")))), Return>>),
          Assign(At("A", C(3)), C(99))>>,
        \* the same loop variable twice
        <<For("i", <<N("n")>>, <<Aug("Sub", At("A", N("i")), N("m"))>>),
          For("i", <<N("m"), C(4)>>, <<Aug("BitOr", At("A", N("i")), C(8))>>)>>}}

\* Not promised: the bound reads the loop variable, the body writes it (the second
\* never ends), a store runs off the array; and sources the compiler rejects.
OddKernels ==
    UNION {Loop(body) : body \in {
        <<Assign(N("i"), N("n")),
          For("i", <<N("i")>>, <<Aug("Add", At("A", C(0)), C(1))>>)>>,
        <<For("i", <<N("n")>>, <<Assign(N("i"), C(0))>>)>>,
        <<Assign(At("A", B("Add", N("n"), C(2))), N("m"))>>,
        <<For("i", <<C(0), N("n"), C(0)>>, <<Pass>>)>>,
        <<For("i", <<>>, <<Pass>>)>>,
        <<[For("i", <<N("n")>>, <<Pass>>) EXCEPT !.orelse = TRUE]>>,
        <<[For("i", <<N("n")>>, <<Pass>>) EXCEPT !.range = FALSE]>>,
        <<[Assign(N("s"), C(0)) EXCEPT !.tgts = <<N("s"), N("t")>>]>>,
        <<Assign(At("Z", C(0)), C(0))>>, <<Assign(C(1), C(0))>>,
        <<[Return EXCEPT !.value = TRUE]>>, <<[k |-> "while"]>>}}

-----------------------------------------------------------------------------
(* Matrix products: the canonical one and its neighbours. *)

Affine(row, stride, col) ==
    {B("Add", B("Mult", N(row), N(stride)), N(col)), B("Add", N(col), B("Mult", N(stride), N(row)))}

AIndexes == Affine("i", "K", "k") \union {B("Add", B("Mult", N("i"), N("N")), N("k")),
                                          B("Add", B("Mult", N("k"), N("K")), N("i"))}
BIndexes == Affine("k", "N", "j") \union {B("Add", B("Mult", N("j"), N("N")), N("k")),
                                          B("Add", B("Mult", N("k"), N("K")), N("j"))}
CIndexes == Affine("i", "N", "j") \union {B("Add", B("Mult", N("i"), N("M")), N("j")),
                                          B("Add", B("Mult", N("j"), N("N")), N("i"))}

Accumulate(form, product) ==
    CASE form = 1 -> Aug("Add", N("acc"), product)
      [] form = 2 -> Assign(N("acc"), B("Add", N("acc"), product))
      [] form = 3 -> Assign(N("acc"), B("Add", product, N("acc")))
      [] form = 4 -> Aug("Sub", N("acc"), product)
      [] form = 5 -> Assign(N("acc"), B("Add", product, N("s")))

Matmul(params, init, form, product, cindex) ==
    [params |-> params,
     body |-> <<Doc, For("i", <<N("M")>>, <<For("j", <<N("N")>>,
        <<Assign(N("acc"), C(init)),
          For("k", <<N("K")>>, <<Accumulate(form, product)>>),
          Assign(At("C", cindex), N("acc"))>>)>>)>>]

Params == <<"A", "B", "C", "M", "N", "K">>

Products ==
    {Matmul(params, init, form, B("Mult", o[1], o[2]), c) :
        params \in {Params, <<"K", "C", "A", "N", "M", "B">>, <<"A", "B", "C", "M", "N">>},
        init \in {0, 1}, form \in 1..5,
        o \in UNION {{<<At("A", a), At("B", b)>>, <<At("B", b), At("A", a)>>} :
                        a \in AIndexes, b \in BIndexes},
        c \in CIndexes}

Canonical == Matmul(Params, 0, 1,
    B("Mult", At("A", CHOOSE e \in Affine("i", "K", "k") : TRUE),
              At("B", CHOOSE e \in Affine("k", "N", "j") : TRUE)),
    CHOOSE e \in Affine("i", "N", "j") : TRUE)

TensorJob(fn, backend, m, n, kk, a, b, c) ==
    [fn |-> fn, backend |-> backend,
     arrays |-> [A |-> [x \in 1 .. m * kk |-> a[x % 5]], B |-> [x \in 1 .. kk * n |-> b[x % 7]],
                 C |-> [x \in 1 .. m * n |-> c]],
     scalars |-> [M |-> m, N |-> n, K |-> kk]]

IntA == [x \in 0..4 |-> <<3, -128, 127, 0, -1>>[x + 1]]
IntB == [x \in 0..6 |-> <<1, -7, 127, 2, -128, 0, 5>>[x + 1]]
\* 1, -1.5, 0.25, 0, 2^-9   and   1, 2, -0.5, 0, -0, 1.125, 2^-6
Fp8A == [x \in 0..4 |-> <<56, 188, 40, 0, 1>>[x + 1]]
Fp8B == [x \in 0..6 |-> <<56, 64, 176, 0, 128, 57, 8>>[x + 1]]

TensorKernels ==
    {TensorJob(fn, "int8", 4, 6, 2, IntA, IntB, 0) : fn \in Products}
    \union {TensorJob(Canonical, backend, m, n, kk, IF backend = "fp8" THEN Fp8A ELSE IntA,
                      IF backend = "fp8" THEN Fp8B ELSE IntB, c) :
                backend \in {"int8", "fp8"}, m \in {0, 2, 3, 4}, n \in {2, 4}, kk \in {0, 2, 4}, c \in {0, 9}}
    \union {[TensorJob(Canonical, "scalar", m, n, kk, IntA, IntB, 5) EXCEPT !.backend = "scalar"] :
                m \in {1, 2}, n \in {1, 3}, kk \in {0, 2}}

AllJobs ==
    ExprKernels \union ConstKernels \union DeepKernels \union LoopKernels \union OddKernels
    \union TensorKernels
=============================================================================
