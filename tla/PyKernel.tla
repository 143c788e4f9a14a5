------------------------------- MODULE PyKernel -------------------------------
(***************************************************************************)
(* What a kernel means: the Python function its source is, interpreted on  *)
(* unbounded integers, with arrays as functions from an index to an        *)
(* integer.  This is what the compiler's output is compared with.          *)
(***************************************************************************)
EXTENDS TitanMachine

\* A state of the interpreter: stop is set by return, and by a store outside of its
\* array, which also clears ok.
Env(values, contents) == [vars |-> values, arrays |-> contents, stop |-> FALSE, ok |-> TRUE]

\* Bitwise operators of integers, through their two's complement.
Bits(op, x, y) == s32(Alu(op, Word(x), Word(y)))

RECURSIVE Eval(_, _)
Eval(env, e) ==
    LET x == Eval(env, e.l)
        y == Eval(env, e.r)
    IN  CASE e.k = "const" -> e.v
          [] e.k = "name" -> env.vars[e.id]
          [] e.k = "neg" -> -Eval(env, e.e)
          [] e.k = "sub" -> env.arrays[e.arr][Eval(env, e.i)]
          [] e.k = "bin" ->
                CASE e.op = "Add" -> x + y
                  [] e.op = "Sub" -> x - y
                  [] e.op = "Mult" -> x * y
                  [] e.op = "FloorDiv" -> x \div y
                  [] e.op = "Mod" -> x % y
                  [] e.op = "LShift" -> x * 2 ^ y
                  [] e.op = "RShift" -> x \div 2 ^ y
                  [] e.op = "BitAnd" -> Bits("AND", x, y)
                  [] e.op = "BitOr" -> Bits("OR", x, y)
                  [] e.op = "BitXor" -> Bits("XOR", x, y)

\* list(range(start, stop, step))
PyRange(start, stop, step) ==
    IF stop <= start THEN <<>>
    ELSE [i \in 1 .. (stop - start + step - 1) \div step |-> start + (i - 1) * step]

Put(env, tgt, v) ==
    IF tgt.k = "name" THEN [env EXCEPT !.vars = (tgt.id :> v) @@ @]
    ELSE IF Eval(env, tgt.i) \in DOMAIN env.arrays[tgt.arr]
    THEN [env EXCEPT !.arrays[tgt.arr][Eval(env, tgt.i)] = v]
    ELSE [env EXCEPT !.stop = TRUE, !.ok = FALSE]

RECURSIVE Exec(_, _), ExecBody(_, _), ExecFor(_, _, _)

ExecBody(env, stmts) ==
    IF stmts = <<>> THEN env ELSE ExecBody(Exec(env, Head(stmts)), Tail(stmts))

\* The loop variable takes the values of the range, whatever the body does to it.
ExecFor(env, s, values) ==
    IF values = <<>> \/ env.stop THEN env
    ELSE ExecFor(ExecBody(Put(env, Name(s.var), Head(values)), s.body), s, Tail(values))

Exec(env, s) ==
    LET range == RangeOf(s.args)
    IN  CASE env.stop -> env
          [] ~env.stop /\ s.k = "for" ->
                ExecFor(env, s, PyRange(Eval(env, range.start), Eval(env, range.stop), range.step))
          [] ~env.stop /\ s.k = "assign" -> Put(env, s.tgts[1], Eval(env, s.val))
          [] ~env.stop /\ s.k = "aug" ->
                Put(env, s.tgt, Eval(env, [k |-> "bin", op |-> s.op, l |-> s.tgt, r |-> s.val]))
          [] ~env.stop /\ s.k = "return" -> [env EXCEPT !.stop = TRUE]
          [] OTHER -> env

\* The interpreter after the call.  The 8-bit operands of a tensor kernel are read as
\* signed bytes or FP8 numbers.
Result(j) ==
    LET Element(n, v) == IF n \in ByteArrays(j) /\ j.backend = "fp8" THEN fp8_to_float(v) ELSE v
        arrays == [n \in DOMAIN j.arrays |->
                      [i \in 0 .. Len(j.arrays[n]) - 1 |-> Element(n, j.arrays[n][i + 1])]]
    IN  ExecBody(Env(j.scalars, arrays), j.fn.body)

-----------------------------------------------------------------------------
(* The kernels for which the compiler promises Python's meaning.  Outside   *)
(* of them lie the places where a lowered loop or division differs from     *)
(* Python's; the README lists them.                                         *)

RECURSIVE Reads(_)
Reads(e) ==
    CASE e.k = "name" -> {e.id}
      [] e.k = "neg" -> Reads(e.e)
      [] e.k = "bin" -> Reads(e.l) \union Reads(e.r)
      [] e.k = "sub" -> {e.arr} \union Reads(e.i)
      [] OTHER -> {}

Target(t) == IF t.k = "name" THEN {t.id} ELSE {}

RECURSIVE Writes(_)
Writes(stmts) ==
    UNION {CASE stmts[i].k = "for" -> {stmts[i].var} \union Writes(stmts[i].body)
             [] stmts[i].k = "assign" -> Target(stmts[i].tgts[1])
             [] stmts[i].k = "aug" -> Target(stmts[i].tgt)
             [] OTHER -> {} : i \in DOMAIN stmts}

\* A loop's variable is its own: its bound does not read it, its body does not write
\* it, and no statement after the loop uses what the loop left in it.
RECURSIVE OwnLoops(_)
OwnLoops(stmts) ==
    \A i \in {n \in DOMAIN stmts : stmts[n].k = "for"} :
        /\ stmts[i].var \notin Writes(stmts[i].body)
        /\ stmts[i].range => stmts[i].var \notin Reads(RangeOf(stmts[i].args).stop)
        /\ OwnLoops(stmts[i].body)
        /\ \A n \in i + 1 .. Len(stmts) :
               stmts[n].k = "assign" => stmts[i].var \notin Reads(stmts[n].val)

\* The names a tensor kernel is matched on are different names, and its sizes whole tiles.
TiledProduct(j) ==
    \A mm \in match_matmul(j.fn) :
        /\ Cardinality({mm.A, mm.B, mm.C, mm.M, mm.N, mm.K} \union Writes(j.fn.body)) = 10
        /\ \A n \in {mm.M, mm.N, mm.K} : j.scalars[n] % WMMA_TILE = 0
        /\ \A i \in DOMAIN j.arrays[mm.C] : j.arrays[mm.C][i] = 0

Plain(j) ==
    /\ OwnLoops(j.fn.body) /\ Result(j).ok
    /\ j.backend # "scalar" => TiledProduct(j)

-----------------------------------------------------------------------------
(* Properties. *)

\* A kernel that has run leaves in every array what the Python function would:
\* the lowering of expressions, loops and matched products (gen_expr, gen_for,
\* compile_tensor) loses nothing on the way to the instructions.
KernelKeepsItsMeaning ==
    (status = "exit" /\ job.backend = "scalar" /\ Plain(job)) =>
        \A n \in DOMAIN job.arrays : \A i \in DOMAIN job.arrays[n] :
            mem[ArrayAddr(job.fn, n) + 4 * (i - 1)] = Word(Result(job).arrays[n][i - 1])

\* A kernel the tensor backend accepts computes, with its tiles, the matrix the
\* triple loop computes: match_matmul accepts no loop nest that means something
\* else, and the tile pointers visit every tile once.
TilesComputeTheProduct ==
    (status = "exit" /\ job.backend # "scalar" /\ Plain(job)) =>
        \A n \in DOMAIN job.arrays \ ByteArrays(job) : \A i \in DOMAIN job.arrays[n] :
            mem[ArrayAddr(job.fn, n) + 4 * (i - 1)] = Word(Result(job).arrays[n][i - 1])

\* A compilation gives every temporary back exactly once: at its end the free
\* registers and the variables' are the pool, none of them twice.
RegistersAreReturned ==
    (status = "running" /\ steps = 0 /\ job.backend = "scalar") =>
        /\ ToSet(code.free) \union {code.vars[n] : n \in DOMAIN code.vars} = ToSet(R_POOL)
        /\ Len(code.free) + Cardinality(DOMAIN code.vars) = Len(R_POOL)

\* A compiled kernel reaches its EXIT: the branches a loop is patched with bring it
\* to its end, and no access leaves the arrays.
KernelsExit == (status = "running" /\ steps = 0 /\ Plain(job)) ~> status = "exit"
=============================================================================
