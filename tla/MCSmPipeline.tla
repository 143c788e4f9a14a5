---------------------------- MODULE MCSmPipeline ----------------------------
(***************************************************************************)
(* Programs for SmPipeline.                                                *)
(***************************************************************************)
EXTENDS SmPipeline

CONSTANTS r1, r2

Instr(op, rd, rs)   == [op |-> op, rd |-> rd, rs |-> rs, pred |-> FALSE, target |-> 0]
Branch(target, cond) == [Instr("BRANCH", R0, {}) EXCEPT !.pred = cond, !.target = target]

\* A counted loop: a load and an operation that uses it and makes the next address,
\* a conditional branch back, a branch over an instruction that must not execute.
\* An instruction and its operand's producer have another one between them.
Loop == <<
    Instr("LOAD", r1, {r2}),
    Instr("SETP", R0, {}),
    Instr("ALU", r2, {r1}),
    Branch(0, TRUE),
    Branch(6, FALSE),
    Instr("ALU", r1, {}),
    Instr("EXIT", R0, {})>>

\* The loop is a program that OperandsCorrect and DrainsCorrect speak of.
ASSUME LoopAssumption == Program = Loop => NoStores /\ NoWmmas /\ Spaced

\* Back to back: the third instruction reads what the second one computes.
BackToBack == <<
    Instr("LOAD", r1, {}),
    Instr("ALU", r2, {}),
    Instr("ALU", r1, {r2}),
    Instr("EXIT", R0, {})>>

\* A store of r1, which leaves r1 alone.
Stores == <<
    Instr("STORE", r1, {}),
    Instr("ALU", r2, {}),
    Instr("EXIT", R0, {})>>
=============================================================================
