---------------------------- MODULE TitanCompiler ----------------------------
(***************************************************************************)
(* The Titan compute compiler (compiler/titan_compiler.py): lowering of a  *)
(* kernel's syntax tree to instruction words, by the scalar backend for    *)
(* any kernel of the language and by the tensor backend for a recognised   *)
(* matrix multiplication.                                                  *)
(*                                                                         *)
(* A syntax tree is a record with a kind k, as Python's ast builds it.     *)
(* The state of a compilation is a record that the operators thread        *)
(* through; an exception sets err, after which nothing is emitted.         *)
(***************************************************************************)
EXTENDS TitanIsa, SequencesExt, TLC

-----------------------------------------------------------------------------
(* Assembler: words, labels and branch fixups. *)

Unbound == -1

EmptyCode ==
    [words |-> <<>>,        \* instructions emitted so far
     fixups |-> <<>>,       \* <<word index, label>> of the branches to patch
     labels |-> <<>>,       \* pc of each label, or Unbound
     free |-> R_POOL,       \* registers not in use
     vars |-> [n \in {} |-> R_ZERO],    \* variable name -> register
     err |-> ""]

Fail(c, what) == IF c.err = "" THEN [c EXCEPT !.err = what] ELSE c
Refuse(c, bad, what) == IF bad THEN Fail(c, what) ELSE c

Here(c) == Len(c.words)

Emit(c, word) == IF c.err = "" THEN [c EXCEPT !.words = Append(@, word)] ELSE c

AsmR(c, op, rd, a, b) == Emit(c, enc_r(op, rd, a, b, 0, 0))

AsmI(c, op, rd, a, imm) ==
    IF imm \in 0 .. IMM_MAX THEN Emit(c, enc_i(op, rd, a, imm, 0))
                            ELSE Fail(c, "imm12 out of range")

\* A new label is the last of c.labels.
NewLabel(c) == [c EXCEPT !.labels = Append(@, Unbound)]
Bind(c, label) == [c EXCEPT !.labels[label] = Here(c)]

Branch(c, label, pred) ==
    Emit([c EXCEPT !.fixups = Append(@, <<Here(c), label>>)], enc_i("BRANCH", 0, 0, 0, pred))

Setp(c, cond, pdst, a, b) == AsmR(c, "SETP", cond * 4 + pdst, a, b)

\* Materialise a constant: one instruction for a small one, two for a small
\* negative one, else five that shift it in from the top.
Li(c, rd, value) ==
    LET v == Word(value)
        c1 == AsmI(c, "ADD", rd, R_ZERO, (v \div 2 ^ 24) % 256)
        c2 == AsmI(AsmI(c1, "SHL", rd, rd, 12), "OR", rd, rd, (v \div 2 ^ 12) % 2 ^ 12)
    IN  IF v <= IMM_MAX
        THEN AsmI(c, "ADD", rd, R_ZERO, v)
        ELSE IF ModW - v <= IMM_MAX
        THEN AsmR(AsmI(c, "ADD", rd, R_ZERO, ModW - v), "SUB", rd, R_ZERO, rd)
        ELSE AsmI(AsmI(c2, "SHL", rd, rd, 12), "OR", rd, rd, v % 2 ^ 12)

Mov(c, rd, rs) == IF rd = rs THEN c ELSE AsmI(c, "ADD", rd, rs, 0)

Exit(c) == AsmI(c, "BARRIER", 0, 0, EXIT_IMM)

\* Patch every branch with the pc of its label.
Finalize(c) ==
    LET Target(i) == c.labels[c.fixups[i][2]]
        fixed == [i \in DOMAIN c.words |->
                     LET f == {j \in DOMAIN c.fixups : c.fixups[j][1] = i - 1}
                     IN  IF f = {} THEN c.words[i]
                         ELSE [c.words[i] EXCEPT !.imm = Target(CHOOSE j \in f : TRUE)]]
    IN  IF c.err # "" THEN c
        ELSE IF \E i \in DOMAIN c.fixups : Target(i) = Unbound THEN Fail(c, "unbound label")
        ELSE IF \E i \in DOMAIN c.fixups : Target(i) > IMM_MAX
        THEN Fail(c, "branch target beyond imm12 range")
        ELSE [c EXCEPT !.words = fixed, !.fixups = <<>>]

-----------------------------------------------------------------------------
(* Registers of a compilation. *)

\* Take the first free register: <<compilation, register>>.
Alloc(c) ==
    IF c.err # "" \/ c.free = <<>>
    THEN <<Fail(c, "register pressure too high"), R_ZERO>>
    ELSE <<[c EXCEPT !.free = Tail(@)], Head(c.free)>>

\* Give a temporary back; the registers of variables stay.
Release(c, reg) ==
    IF c.err = "" /\ reg \in ToSet(R_POOL) /\ \A n \in DOMAIN c.vars : c.vars[n] # reg
    THEN [c EXCEPT !.free = <<reg>> \o @]
    ELSE c

\* Mutant: the temporary is forgotten.
KeepTemporary(c, reg, tmp) == c

ReleaseIf(c, reg, tmp) == IF tmp THEN Release(c, reg) ELSE c

\* The register of a variable, allocated at its first assignment.
VarReg(c, name) ==
    IF name \in DOMAIN c.vars THEN <<c, c.vars[name]>>
    ELSE LET a == Alloc(c) IN <<[a[1] EXCEPT !.vars = @ @@ (name :> a[2])], a[2]>>

-----------------------------------------------------------------------------
(* Expressions.  Lowering one gives [c, reg, tmp]: the register that holds *)
(* its value, and whether it is a temporary the caller has to release.     *)

BINOPS ==
    [Add |-> "ADD", Sub |-> "SUB", Mult |-> "MUL", LShift |-> "SHL", RShift |-> "SRA",
     BitAnd |-> "AND", BitOr |-> "OR", BitXor |-> "XOR", FloorDiv |-> "DIV"]

Lowered(c, reg, tmp) == [c |-> c, reg |-> reg, tmp |-> tmp]

SmallConst(e) == e.k = "const" /\ e.v \in 0 .. IMM_MAX

RECURSIVE gen_expr(_, _), gen_binop(_, _), gen_subscript(_, _)

gen_expr(c, e) ==
    CASE e.k = "const" ->
            LET t == Alloc(c) IN Lowered(Li(t[1], t[2], e.v), t[2], TRUE)
      [] e.k = "name" /\ e.id \in DOMAIN c.vars ->
            Lowered(c, c.vars[e.id], FALSE)
      [] e.k = "name" /\ e.id \notin DOMAIN c.vars ->
            Lowered(Fail(c, "undefined variable"), R_ZERO, FALSE)
      [] e.k = "neg" ->
            LET src == gen_expr(c, e.e)
                t == Alloc(src.c)
                c1 == AsmR(t[1], "SUB", t[2], R_ZERO, src.reg)
            IN  Lowered(ReleaseIf(c1, src.reg, src.tmp), t[2], TRUE)
      [] e.k = "bin" -> gen_binop(c, e)
      [] e.k = "sub" ->
            LET at == gen_subscript(c, e)
                t == Alloc(at.c)
                c1 == AsmR(t[1], "LOAD", t[2], at.base, at.off)
            IN  Lowered(Release(c1, at.off), t[2], TRUE)
      [] OTHER -> Lowered(Fail(c, "unsupported expression"), R_ZERO, FALSE)

gen_binop(c, e) ==
    LET a == gen_expr(c, e.l)
        ti == Alloc(a.c)
        ci == AsmI(ti[1], BINOPS[e.op], ti[2], a.reg, e.r.v)
        b == gen_expr(a.c, e.r)
        t == Alloc(b.c)
        mod1 == AsmR(t[1], "DIV", t[2], a.reg, b.reg)
        mod2 == AsmR(mod1, "MUL", t[2], t[2], b.reg)
        c1 == IF e.op = "Mod" THEN AsmR(mod2, "SUB", t[2], a.reg, t[2])
                              ELSE AsmR(t[1], BINOPS[e.op], t[2], a.reg, b.reg)
    IN  IF e.op \notin DOMAIN BINOPS \union {"Mod"}
        THEN Lowered(Fail(c, "unsupported operator"), R_ZERO, FALSE)
        ELSE IF SmallConst(e.r) /\ e.op # "Mod"
        THEN Lowered(ReleaseIf(ci, a.reg, a.tmp), ti[2], TRUE)
        ELSE Lowered(ReleaseIf(ReleaseIf(c1, a.reg, a.tmp), b.reg, b.tmp), t[2], TRUE)

\* The array's base register and a fresh register with the byte offset of the element.
gen_subscript(c, e) ==
    LET idx == gen_expr(c, e.i)
        off == Alloc(idx.c)
        c1 == AsmI(off[1], "SHL", off[2], idx.reg, 2)
    IN  IF e.arr \notin DOMAIN c.vars
        THEN [c |-> Fail(c, "unknown array"), base |-> R_ZERO, off |-> R_ZERO]
        ELSE [c |-> ReleaseIf(c1, idx.reg, idx.tmp), base |-> c.vars[e.arr], off |-> off[2]]

-----------------------------------------------------------------------------
(* Loops.  A counted loop is opened with its test and closed with its step; *)
(* both backends build their loops this way.                                *)

OpenLoop(c, ivar, stop) ==
    LET c1 == NewLabel(NewLabel(c))
        top == Len(c1.labels) - 1
    IN  [c |-> Branch(Setp(Bind(c1, top), CMP_GE, 1, ivar, stop), top + 1, 1), top |-> top]

\* Mutant: the loop goes round without its step.
CloseLoopUnstepped(c, ivar, step, top) == Bind(AsmI(Branch(c, top, 0), "ADD", ivar, ivar, step), top + 1)

CloseLoop(c, ivar, step, top) ==
    Bind(Branch(AsmI(c, "ADD", ivar, ivar, step), top, 0), top + 1)

\* Mutant: the variable itself is tested.
BoundInPlace(bound) == <<bound.c, bound.reg>>

\* The bound of a loop, in a private register if the value is a variable's: the body
\* may write the variable.
HoldBound(bound) ==
    LET held == Alloc(bound.c)
    IN  IF bound.tmp THEN <<bound.c, bound.reg>>
                     ELSE <<Mov(held[1], held[2], bound.reg), held[2]>>

-----------------------------------------------------------------------------
(* Statements. *)

\* start, stop and step of a range() call, or an error.
RangeOf(args) ==
    LET zero == [k |-> "const", v |-> 0]
    IN  CASE Len(args) = 1 -> [err |-> "", start |-> zero, stop |-> args[1], step |-> 1]
          [] Len(args) = 2 -> [err |-> "", start |-> args[1], stop |-> args[2], step |-> 1]
          [] Len(args) = 3 /\ args[3].k = "const" /\ args[3].v > 0 ->
                [err |-> "", start |-> args[1], stop |-> args[2], step |-> args[3].v]
          [] OTHER -> [err |-> "bad range"]

InitLoopVar(first, ivar) == ReleaseIf(Mov(first.c, ivar, first.reg), first.reg, first.tmp)

RECURSIVE gen_stmt(_, _), gen_body(_, _), gen_for(_, _), LoopOver(_, _, _, _)

gen_body(c, stmts) ==
    IF stmts = <<>> THEN c ELSE gen_body(gen_stmt(c, Head(stmts)), Tail(stmts))

\* Move an evaluated value to its target and give its register back.
AssignTo(src, tgt) ==
    LET dst == VarReg(src.c, tgt.id)
        at == gen_subscript(src.c, tgt)
    IN  CASE tgt.k = "name" ->
                ReleaseIf(Mov(dst[1], dst[2], src.reg), src.reg, src.tmp)
          [] tgt.k = "sub" ->
                LET c1 == AsmR(at.c, "STORE", src.reg, at.base, at.off)
                IN  Release(ReleaseIf(c1, src.reg, src.tmp), at.off)
          [] OTHER -> Fail(src.c, "unsupported assignment target")

gen_assign(c, tgt, value) == AssignTo(gen_expr(c, value), tgt)

gen_stmt(c, s) ==
    CASE s.k = "for" -> gen_for(c, s)
      [] s.k = "assign" /\ Len(s.tgts) = 1 -> gen_assign(c, s.tgts[1], s.val)
      [] s.k = "aug" ->          \* t op= v is lowered as t = t op v
            gen_stmt(c, [k |-> "assign", tgts |-> <<s.tgt>>,
                         val |-> [k |-> "bin", op |-> s.op, l |-> s.tgt, r |-> s.val]])
      [] s.k = "return" /\ ~s.value -> Exit(c)
      [] s.k \in {"doc", "pass"} -> c
      [] OTHER -> Fail(c, "unsupported statement")

\* The loop proper, its bound held in a register.
LoopOver(held, ivar, step, s) ==
    LET loop == OpenLoop(held[1], ivar, held[2])
        body == Refuse(gen_body(loop.c, s.body), s.orelse, "for/else")
    IN  Release(CloseLoop(body, ivar, step, loop.top), held[2])

gen_for(c, s) ==
    LET range == RangeOf(s.args)
        ivar == VarReg(c, s.var)
        start == InitLoopVar(gen_expr(ivar[1], range.start), ivar[2])
        held == HoldBound(gen_expr(start, range.stop))
    IN  CASE ~s.range -> Fail(c, "only range() loops")
          [] s.range /\ range.err # "" -> Fail(c, range.err)
          [] OTHER -> LoopOver(held, ivar[2], range.step, s)

\* ScalarCodegen.compile: load the parameters, lower the body, exit.
LoadParams(c, params) ==
    IF Len(params) > Len(c.free) THEN Fail(c, "register pressure too high")
    ELSE [c EXCEPT
            !.vars = [n \in ToSet(params) |-> c.free[CHOOSE i \in DOMAIN params : params[i] = n]],
            !.free = SubSeq(@, Len(params) + 1, Len(@)),
            !.words = [i \in DOMAIN params |-> enc_i("LOAD", c.free[i], R_PARAM, 4 * (i - 1), 0)]]

CompileScalar(fn) ==
    Finalize(Exit(gen_body(LoadParams(EmptyCode, fn.params), fn.body)))

-----------------------------------------------------------------------------
(* Tensor backend.  A matcher gives the set of what it recognised: empty,  *)
(* or the one match.                                                       *)

IsName(e) == e.k = "name"
IsBin(e, op) == e.k = "bin" /\ e.op = op
Name(id) == [k |-> "name", id |-> id]
Orders(e) == {<<e.l, e.r>>, <<e.r, e.l>>}

\* for <var> in range(<name>) around a body of n statements
RangeLoop(s, n) ==
    s.k = "for" /\ s.range /\ Len(s.args) = 1 /\ IsName(s.args[1]) /\ Len(s.body) = n

\* row * stride + col, in any order: the stride's name
_match_affine(e, row, col) ==
    IF ~IsBin(e, "Add") THEN {}
    ELSE UNION {{f[2].id : f \in {g \in Orders(s[1]) : g[1] = Name(row) /\ IsName(g[2])}} :
                   s \in {o \in Orders(e) : IsBin(o[1], "Mult") /\ o[2] = Name(col)}}

\* A[i*s + k] * B[k*t + j] in either order: <<A, s, B, t>>
_match_prod(e, i, k, j) ==
    LET In(a, b) == IF a.k = "sub" /\ b.k = "sub"
                    THEN {<<a.arr, s, b.arr, t>> : s \in _match_affine(a.i, i, k),
                                                   t \in _match_affine(b.i, k, j)}
                    ELSE {}
    IN  IF ~IsBin(e, "Mult") THEN {}
        ELSE IF In(e.l, e.r) # {} THEN In(e.l, e.r) ELSE In(e.r, e.l)

\* The term added to acc by  acc += e,  acc = acc + e  or  acc = e + acc.
Addend(s, acc) ==
    CASE s.k = "aug" -> IF s.op = "Add" /\ s.tgt = Name(acc) THEN {s.val} ELSE {}
      [] s.k = "assign" ->
            IF s.tgts = <<Name(acc)>> /\ IsBin(s.val, "Add")
            THEN IF s.val.l = Name(acc) THEN {s.val.r}
                 ELSE IF s.val.r = Name(acc) THEN {s.val.l} ELSE {}
            ELSE {}
      [] OTHER -> {}

\* Mutant: B is taken to be laid out like A.
AStrideOnly(prod, K, N) == prod[2] = K

\* Whether A[.. * s ..] * B[.. * t ..] has the strides of a row-major product.
RowMajor(prod, K, N) == prod[2] = K /\ prod[4] = N

\* acc = 0;  for k in range(K): acc += A[i*K+k] * B[k*N+j];  C[i*N+j] = acc
MatchInner(jbody, i, M, j, N) ==
    LET init == jbody[1]
        loop == jbody[2]
        store == jbody[3]
        acc == init.tgts[1].id
        K == loop.args[1].id
        prods == UNION {_match_prod(e, i, loop.var, j) : e \in Addend(loop.body[1], acc)}
    IN  IF /\ init.k = "assign" /\ Len(init.tgts) = 1 /\ IsName(init.tgts[1])
           /\ init.val.k = "const" /\ init.val.v = 0
           /\ RangeLoop(loop, 1)
           /\ store.k = "assign" /\ Len(store.tgts) = 1 /\ store.tgts[1].k = "sub"
           /\ store.val = Name(acc) /\ _match_affine(store.tgts[1].i, i, j) = {N}
        THEN {[A |-> p[1], B |-> p[3], C |-> store.tgts[1].arr, M |-> M, N |-> N, K |-> K] :
                 p \in {q \in prods : RowMajor(q, K, N)}}
        ELSE {}

match_matmul(fn) ==
    LET body == SelectSeq(fn.body, LAMBDA s : s.k # "doc")
        outer == body[1]
        inner == outer.body[1]
    IN  IF Len(body) = 1 /\ RangeLoop(outer, 1) /\ RangeLoop(inner, 3)
        THEN MatchInner(inner.body, outer.var, outer.args[1].id, inner.var, inner.args[1].id)
        ELSE {}

\* dst := base + (row * stride + col) * 2^shift, by way of the scratch register
TilePointer(c, dst, base, row, stride, col, scratch, shift) ==
    LET c1 == AsmR(AsmR(c, "MUL", scratch, row, stride), "ADD", scratch, scratch, col)
        c2 == IF shift = 0 THEN c1 ELSE AsmI(c1, "SHL", scratch, scratch, shift)
    IN  AsmR(c2, "ADD", dst, base, scratch)

\* The tile loops of a matched product, its parameters in registers 2, 3, ...
TileLoops(c, reg, mm, fp8) ==
    LET R(n) == c.free[n]
        i0 == R(1)
        j0 == R(2)
        k0 == R(3)
        t0 == R(4)
        t1 == R(5)
        ap == R(6)
        bp == R(7)
        cp == R(8)
        c1 == Mov(Mov(Mov(c, R_LDA, reg[mm.K]), R_LDB, reg[mm.N]), R_LDC, reg[mm.N])
        li == OpenLoop(Li(c1, i0, 0), i0, reg[mm.M])
        lj == OpenLoop(Li(li.c, j0, 0), j0, reg[mm.N])
        c2 == TilePointer(lj.c, cp, reg[mm.C], i0, reg[mm.N], j0, t0, 2)
        lk == OpenLoop(Li(c2, k0, 0), k0, reg[mm.K])
        c3 == TilePointer(lk.c, ap, reg[mm.A], i0, reg[mm.K], k0, t0, 0)
        c4 == TilePointer(c3, bp, reg[mm.B], k0, reg[mm.N], j0, t1, 0)
        c5 == Emit(c4, enc_r("WMMA", cp, ap, bp, IF fp8 THEN WMMA_FLAG_FP8 ELSE 0, 0))
        c6 == CloseLoop(c5, k0, WMMA_TILE, lk.top)
        c7 == CloseLoop(c6, j0, WMMA_TILE, lj.top)
    IN  CloseLoop(c7, i0, WMMA_TILE, li.top)

compile_tensor(fn, fp8) ==
    LET mm == CHOOSE m \in match_matmul(fn) : TRUE
        c == LoadParams(EmptyCode, fn.params)
    IN  IF match_matmul(fn) = {} THEN Fail(EmptyCode, "not the canonical matmul")
        ELSE IF {mm.A, mm.B, mm.C, mm.M, mm.N, mm.K} \subseteq ToSet(fn.params)
        THEN Finalize(Exit(TileLoops(c, c.vars, mm, fp8)))
        ELSE Fail(EmptyCode, "matmul symbol is not a parameter")
=============================================================================
