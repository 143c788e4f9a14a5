----------------------------- MODULE TitanMachine -----------------------------
(***************************************************************************)
(* One thread of the compiler's reference simulator (simulate() of         *)
(* compiler/titan_compiler.py) running a compiled kernel, one instruction  *)
(* a step.                                                                 *)
(*                                                                         *)
(* Memory is the parameter block and the kernel's arrays: mem holds the    *)
(* 32-bit cells, bytes the cells of the 8-bit operands of WMMA.  An access *)
(* outside of them ends the run as "stray"; the program would read or      *)
(* overwrite whatever lies there.                                          *)
(***************************************************************************)
EXTENDS TitanCompiler, Fp8Codec

CONSTANTS
    Jobs,           \* compilations to run: see Job below
    MAX_STEPS       \* the simulator's watchdog

VARIABLES
    job,            \* [fn, backend, arrays, scalars]
    code,           \* the finished compilation
    pc, r, p,       \* program counter, registers, predicates
    mem, bytes,     \* memory cells by byte address
    steps,
    status          \* "rejected", "running", "exit", "stray" or "watchdog"

vars == <<job, code, pc, r, p, mem, bytes, steps, status>>

Job ==
    [fn : [params : Seq(STRING), body : Seq([k : STRING])],
     backend : {"scalar", "int8", "fp8"},
     arrays : [STRING -> Seq(Int)],          \* contents, as the memory holds them
     scalars : [STRING -> Int]]

-----------------------------------------------------------------------------
(* The image main() and selftest() set up: a parameter block of one word   *)
(* per parameter, then the arrays, four bytes an element but for the two   *)
(* operands of a tensor kernel.                                            *)

PARAM_ADDR == 512
ArrayAddr(fn, name) == 1024 * (CHOOSE i \in DOMAIN fn.params : fn.params[i] = name)

\* The 8-bit arrays of a job.
ByteArrays(j) ==
    IF j.backend = "scalar" THEN {}
    ELSE UNION {{mm.A, mm.B} : mm \in match_matmul(j.fn)}

Cells(j, names, size) ==
    [a \in UNION {{ArrayAddr(j.fn, n) + size * (i - 1) : i \in DOMAIN j.arrays[n]} : n \in names} |->
        LET n == CHOOSE n \in names : ArrayAddr(j.fn, n) = 1024 * (a \div 1024)
        IN  j.arrays[n][(a - ArrayAddr(j.fn, n)) \div size + 1] % (IF size = 1 THEN 256 ELSE ModW)]

ParamBlock(j) ==
    [a \in {PARAM_ADDR + 4 * (i - 1) : i \in DOMAIN j.fn.params} |->
        LET n == j.fn.params[(a - PARAM_ADDR) \div 4 + 1]
        IN  IF n \in DOMAIN j.arrays THEN ArrayAddr(j.fn, n) ELSE Word(j.scalars[n])]

Compiled(j) ==
    IF j.backend = "scalar" THEN CompileScalar(j.fn)
                            ELSE compile_tensor(j.fn, j.backend = "fp8")

Init ==
    /\ job \in Jobs
    /\ code = Compiled(job)
    /\ status = IF code.err = "" THEN "running" ELSE "rejected"
    /\ pc = 0
    /\ r = [i \in 0..63 |-> IF i = R_PARAM THEN PARAM_ADDR ELSE 0]
    /\ p = [i \in 0..3 |-> i = 0]
    /\ mem = ParamBlock(job) @@ Cells(job, DOMAIN job.arrays \ ByteArrays(job), 4)
    /\ bytes = Cells(job, ByteArrays(job), 1)
    /\ steps = 0

-----------------------------------------------------------------------------
(* The current instruction. *)

I == code.words[pc + 1]
OperandA == r[I.rs1]
OperandB == IF I.uimm THEN I.imm ELSE r[rs2(I)]
Addr == OperandA + OperandB
SignedByte(b) == IF b >= 128 THEN b - 256 ELSE b

\* What one element of A contributes times one of B.  FP8 sums are kept in units of
\* 2^-18; the rounding to float32 changes none that has at most 24 bits.
ByteProduct(fp8, x, y) ==
    IF fp8 THEN fp8_to_float(x) * fp8_to_float(y) ELSE SignedByte(x) * SignedByte(y)

TileIndex == 0 .. WMMA_TILE - 1
TileCells == {<<i, j>> : i \in TileIndex, j \in TileIndex}

TileA(i, k) == OperandA + i * r[R_LDA] + k
TileB(k, j) == OperandB + k * r[R_LDB] + j
TileC(i, j) == r[I.rd] + 4 * (i * r[R_LDC] + j)

TileInMemory ==
    \A i, j \in TileIndex :
        TileA(i, j) \in DOMAIN bytes /\ TileB(i, j) \in DOMAIN bytes /\ TileC(i, j) \in DOMAIN mem

\* C tile += A tile x B tile, cell after cell in row order (rows overlap in memory
\* when ldc is smaller than the tile).
WmmaMem ==
    LET Cell(m, n) ==
            LET i == n \div WMMA_TILE
                j == n % WMMA_TILE
                Term(acc, k) ==
                    acc + ByteProduct(rs3(I) = WMMA_FLAG_FP8, bytes[TileA(i, k)], bytes[TileB(k, j)])
                sum == FoldLeft(Term, s32(m[TileC(i, j)]), [k \in 1 .. WMMA_TILE |-> k - 1])
            IN  [m EXCEPT ![TileC(i, j)] = Word(sum)]
    IN  FoldLeft(Cell, mem, [n \in 1 .. WMMA_TILE * WMMA_TILE |-> n - 1])

-----------------------------------------------------------------------------
(* One pass of the loop of simulate().                                     *)

Running == status = "running" /\ steps < MAX_STEPS

Enabled(ops) == Running /\ I.op \in ops /\ p[I.pred]

Advance(next) == steps' = steps + 1 /\ pc' = next /\ UNCHANGED <<job, code>>

Skip ==
    /\ Running /\ ~p[I.pred]
    /\ Advance(pc + 1)
    /\ UNCHANGED <<r, p, mem, bytes, status>>

Arithmetic ==
    /\ Enabled(AluOps)
    /\ r' = [r EXCEPT ![I.rd] = Alu(I.op, OperandA, OperandB)]
    /\ Advance(pc + 1)
    /\ UNCHANGED <<p, mem, bytes, status>>

SetPredicate ==
    /\ Enabled({"SETP"})
    /\ p' = IF I.rd % 4 = 0 THEN p
            ELSE [p EXCEPT ![I.rd % 4] = Compare(I.rd \div 4, OperandA, OperandB)]
    /\ Advance(pc + 1)
    /\ UNCHANGED <<r, mem, bytes, status>>

Load ==
    /\ Enabled({"LOAD"}) /\ Addr \in DOMAIN mem
    /\ r' = [r EXCEPT ![I.rd] = mem[Addr]]
    /\ Advance(pc + 1)
    /\ UNCHANGED <<p, mem, bytes, status>>

Store ==
    /\ Enabled({"STORE"}) /\ Addr \in DOMAIN mem
    /\ mem' = [mem EXCEPT ![Addr] = r[I.rd]]
    /\ Advance(pc + 1)
    /\ UNCHANGED <<r, p, bytes, status>>

TakeBranch ==
    /\ Enabled({"BRANCH"})
    /\ Advance(I.imm)
    /\ UNCHANGED <<r, p, mem, bytes, status>>

Wmma ==
    /\ Enabled({"WMMA"}) /\ TileInMemory
    /\ mem' = WmmaMem
    /\ Advance(pc + 1)
    /\ UNCHANGED <<r, p, bytes, status>>

ExitThread ==
    /\ Enabled({"BARRIER"}) /\ I.uimm /\ I.imm = EXIT_IMM
    /\ status' = "exit"
    /\ Advance(pc)
    /\ UNCHANGED <<r, p, mem, bytes>>

Stray ==
    /\ \/ Enabled({"LOAD", "STORE"}) /\ Addr \notin DOMAIN mem
       \/ Enabled({"WMMA"}) /\ ~TileInMemory
    /\ status' = "stray"
    /\ Advance(pc)
    /\ UNCHANGED <<r, p, mem, bytes>>

Watchdog ==
    /\ status = "running" /\ steps = MAX_STEPS
    /\ status' = "watchdog"
    /\ UNCHANGED <<job, code, pc, r, p, mem, bytes, steps>>

Step ==
    \/ Skip \/ Arithmetic \/ SetPredicate \/ Load \/ Store \/ TakeBranch
    \/ Wmma \/ ExitThread \/ Stray \/ Watchdog

Next == Step
Spec == Init /\ [][Next]_vars
\* The loop of simulate() runs until it returns or raises.
LiveSpec == Spec /\ WF_vars(Step)
=============================================================================
