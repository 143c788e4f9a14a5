----------------------------- MODULE SmPipeline -----------------------------
(***************************************************************************)
(* The instruction pipeline of a streaming multiprocessor, clock by clock: *)
(*                                                                         *)
(*   rtl/core/titan_x5_pc_unit.v          program counters                 *)
(*   rtl/core/titan_x5_warp_scheduler.v   scoreboard, warps that may fetch *)
(*   rtl/core/titan_x5_pipeline.v         fetch, FIFO, ID, EX, MEM, WB     *)
(*   rtl/core/titan_x5_alu.v              the integer pipe, 3 stages       *)
(*   rtl/memory/titan_x5_lsu.v            handshake and response           *)
(*                                                                         *)
(* Every register is clocked, so the one action is a clock edge: Clock     *)
(* conjoins what each unit does on it.  What the environment decides is    *)
(* quantified: which ready warp the scheduler offers when the fetch is     *)
(* granted, when memory answers, how a comparison comes out.               *)
(*                                                                         *)
(* A value is the name of the register it was computed for, and whether it *)
(* is what the last instruction committed for that register computes; any  *)
(* other word (an address, the data of a store's response) is Junk.        *)
(***************************************************************************)
EXTENDS Integers, Sequences, FiniteSets

CONSTANTS
    Warps,
    NoWarp,       \* no warp
    Regs,         \* registers a program names, r0 left out
    R0,           \* register 0, on which nothing depends
    FIFO_DEPTH,   \* entries of the instruction FIFO
    ALU_STAGES,   \* latency of the integer pipe
    Program,      \* the instructions in memory, from address 0
    Junk,         \* a word that no register is owed
    NoResult      \* an ALU stage without an operation

Ops       == {"ALU", "LOAD", "STORE", "WMMA", "SETP", "BRANCH", "BARRIER", "EXIT"}
\* The instructions that launch into EX; the others resolve in ID.
Launching == {"ALU", "LOAD", "STORE", "WMMA"}
Writing   == {"ALU", "LOAD"}

Insts == [op : Ops, rd : Regs \union {R0}, rs : SUBSET Regs, pred : BOOLEAN,
          target : Nat]

Values   == [warp : Warps, rd : Regs, latest : BOOLEAN] \union {Junk}
Latest(w, r) == [warp |-> w, rd |-> r, latest |-> TRUE]

ASSUME PipelineAssumption ==
    /\ FIFO_DEPTH \in Nat \ {0}
    /\ ALU_STAGES \in Nat \ {0}
    /\ NoWarp \notin Warps /\ R0 \notin Regs /\ NoResult \notin Values
    /\ Program \in Seq(Insts)

\* Memory past the program is zero, which decodes as ADD r0, r0, r0.
Padding == [op |-> "ALU", rd |-> R0, rs |-> {}, pred |-> FALSE, target |-> 0]
Inst(p) == IF p < Len(Program) THEN Program[p + 1] ELSE Padding

VARIABLES
    pc, active,             \* pc_unit
    warp_epoch,             \* control-flow epoch of each warp
    if_pending, if_tag,     \* the fetch in flight: if_warp, if_epoch
    imem,                   \* fetches memory has accepted
    fifo,                   \* instruction FIFO
    pred,                   \* P1 of each warp
    scoreboard,
    id,                     \* ID register
    ex, mem_pending,        \* EX
    alu,                    \* stages of the integer pipe
    lsu, resp,              \* load/store unit and its response pulse
    mem, wb,                \* MEM and WB registers
    rf,                     \* register file
    \* ---- history: the program executed in order ----
    isa_pc,                 \* next instruction of each warp
    exited                  \* warps that have executed EXIT

frontvars == <<pc, active, warp_epoch, if_pending, if_tag, imem, fifo, pred,
               scoreboard>>
backvars  == <<id, ex, mem_pending, alu, lsu, resp, mem, wb, rf>>
vars      == <<frontvars, backvars, isa_pc, exited>>

NoInst == [valid |-> FALSE, warp |-> NoWarp, op |-> "ALU", rd |-> R0, val |-> Junk]
NoTag  == [warp |-> NoWarp, epoch |-> FALSE]

\* The state after reset and the launch pulse, which starts every warp.
Init ==
    /\ pc = [w \in Warps |-> 0]
    /\ active = [w \in Warps |-> TRUE]
    /\ warp_epoch = [w \in Warps |-> FALSE]
    /\ if_pending = FALSE
    /\ if_tag = NoTag
    /\ imem = <<>>
    /\ fifo = <<>>
    /\ pred = [w \in Warps |-> FALSE]
    /\ scoreboard = [w \in Warps |-> {}]
    /\ id = NoInst
    /\ ex = NoInst
    /\ mem_pending = FALSE
    /\ alu = [s \in 1 .. ALU_STAGES |-> NoResult]
    /\ lsu = [state |-> "IDLE", val |-> Junk]
    /\ resp = [valid |-> FALSE, val |-> Junk]
    /\ mem = NoInst
    /\ wb = NoInst
    /\ rf = [w \in Warps |-> [r \in Regs |-> Latest(w, r)]]
    /\ isa_pc = [w \in Warps |-> 0]
    /\ exited = {}

----------------------------------------------------------------------------
(* Combinational signals. *)

fifo_full == Len(fifo) = FIFO_DEPTH

\* The instruction at the head of the FIFO: the one in ID.
head      == fifo[1]
head_inst == Inst(head.pc)

\* Fetched under an epoch its warp has left: popped, never executed.
id_stale == head.epoch # warp_epoch[head.warp]

\* The operand interlock looks at an EX stage that is valid, and EX is busy
\* exactly as long as it is valid.
id_ready  == ~ex.valid
fifo_pop  == fifo # <<>> /\ id_ready
id_commit == fifo_pop /\ ~id_stale
id_exec   == id_commit /\ (head_inst.pred => pred[head.warp])

pc_redirect_valid == id_exec /\ head_inst.op = "BRANCH"
pc_retire_valid   == id_exec /\ head_inst.op = "EXIT"

\* A store reads its data from the register its rd field names.
Sources == head_inst.rs \union
             (IF head_inst.op = "STORE" THEN {head_inst.rd} \ {R0} ELSE {})

Holds(stage, w, r) == stage.valid /\ stage.warp = w /\ stage.rd = r

\* Mutant of Operand: the MEM stage is not forwarded.
OperandNoMem(w, r) == IF Holds(wb, w, r) THEN wb.val ELSE rf[w][r]

\* The forwarding network; EX never forwards, since ID waits for it.
Operand(w, r) == IF Holds(mem, w, r) THEN mem.val
                 ELSE IF Holds(wb, w, r) THEN wb.val
                 ELSE rf[w][r]

\* Mutant of id_valid_out: register 0 is tracked like any other.
id_valid_outAny == id.valid

id_valid_out == id.valid /\ id.rd # R0
ex_launch    == id.valid /\ id_ready
alu_valid_out == alu[ALU_STAGES] # NoResult

\* Mutant of has_hazard: the scheduler does not look at the FIFO.
has_hazardNotFull(w) ==
    /\ id_valid_out /\ id.warp = w
    /\ fifo # <<>> /\ head_inst.rs \intersect scoreboard[w] # {}

\* The scheduler throttles the warp of the instruction in the ID register while
\* the instruction at the FIFO head reads a register with a write pending.
has_hazard(w) ==
    \/ fifo_full
    \/ /\ id_valid_out /\ id.warp = w
       /\ fifo # <<>> /\ head_inst.rs \intersect scoreboard[w] # {}

warp_ready(w) == active[w] /\ ~has_hazard(w)

\* The warps whose fetch the interconnect may accept on this edge.
Fetchable == {w \in Warps : warp_ready(w) /\ ~if_pending}

\* The instruction that commits on this edge defines its register anew, so what
\* was computed for it before is the latest no longer.
Redefined == IF id_exec /\ head_inst.op \in Writing
             THEN {<<head.warp, head_inst.rd>>} ELSE {}
Now(v) == IF v \notin {Junk, NoResult} /\ <<v.warp, v.rd>> \in Redefined
          THEN [v EXCEPT !.latest = FALSE] ELSE v

----------------------------------------------------------------------------
(* What each unit does on a clock edge.  fetched is the warp whose fetch is  *)
(* accepted, or NoWarp; answered says whether memory answers a fetch.        *)

\* Mutant of PcUnit: an accepted fetch wins over the redirect.
PcUnitAdvanceWins(fetched) ==
    /\ pc' = [w \in Warps |->
                IF ~active[w] THEN pc[w]
                ELSE IF fetched = w THEN pc[w] + 1
                ELSE IF pc_redirect_valid /\ head.warp = w THEN head_inst.target
                ELSE pc[w]]
    /\ active' = IF pc_retire_valid THEN [active EXCEPT ![head.warp] = FALSE]
                                    ELSE active

\* A redirect wins over the advance; a retired warp stops fetching.
PcUnit(fetched) ==
    /\ pc' = [w \in Warps |->
                IF ~active[w] THEN pc[w]
                ELSE IF pc_redirect_valid /\ head.warp = w THEN head_inst.target
                ELSE IF fetched = w THEN pc[w] + 1
                ELSE pc[w]]
    /\ active' = IF pc_retire_valid THEN [active EXCEPT ![head.warp] = FALSE]
                                    ELSE active

\* A redirect starts a new epoch of its warp.
Epochs ==
    warp_epoch' = IF pc_redirect_valid
                  THEN [warp_epoch EXCEPT ![head.warp] = ~@] ELSE warp_epoch

\* Mutant of Fetch: a redirect hides the answer that arrives with it.
FetchLosesAnswer(fetched, answered) ==
    /\ if_pending' = IF fetched # NoWarp THEN TRUE
                     ELSE IF answered /\ ~pc_redirect_valid THEN FALSE
                     ELSE if_pending
    /\ if_tag' = IF fetched # NoWarp
                 THEN [warp |-> fetched, epoch |-> warp_epoch[fetched]]
                 ELSE IF answered THEN NoTag ELSE if_tag
    /\ imem' = (IF answered THEN Tail(imem) ELSE imem)
                  \o (IF fetched # NoWarp THEN <<pc[fetched]>> ELSE <<>>)

\* IF: one fetch in flight, tagged with its warp and the warp's epoch.
Fetch(fetched, answered) ==
    /\ if_pending' = IF fetched # NoWarp THEN TRUE
                     ELSE IF answered THEN FALSE ELSE if_pending
    /\ if_tag' = IF fetched # NoWarp
                 THEN [warp |-> fetched, epoch |-> warp_epoch[fetched]]
                 ELSE IF answered THEN NoTag ELSE if_tag
    /\ imem' = (IF answered THEN Tail(imem) ELSE imem)
                  \o (IF fetched # NoWarp THEN <<pc[fetched]>> ELSE <<>>)

\* The FIFO: a word that arrives when it is full is dropped.
Fifo(answered) ==
    fifo' = (IF fifo_pop THEN Tail(fifo) ELSE fifo)
              \o (IF answered /\ ~fifo_full
                  THEN <<[warp |-> if_tag.warp, epoch |-> if_tag.epoch,
                          pc |-> Head(imem)]>>
                  ELSE <<>>)

\* SETP resolves in ID.
Predicates(outcome) ==
    pred' = IF id_exec /\ head_inst.op = "SETP"
            THEN [pred EXCEPT ![head.warp] = outcome] ELSE pred

\* ID: the register takes the head of the FIFO, or a bubble.
Decode ==
    id' = IF ~id_ready THEN id
          ELSE IF id_exec /\ head_inst.op \in Launching
          THEN [valid |-> TRUE, warp |-> head.warp, op |-> head_inst.op,
                rd |-> head_inst.rd,
                val |-> IF head_inst.op \in Writing /\ head_inst.rd # R0
                        THEN Latest(head.warp, head_inst.rd) ELSE Junk]
          ELSE NoInst

\* The write-back clears a bit, the instruction in ID sets its own.
Scoreboard ==
    scoreboard' =
        [w \in Warps |->
            (IF wb.valid /\ wb.warp = w THEN scoreboard[w] \ {wb.rd}
                                        ELSE scoreboard[w])
              \union (IF id_valid_out /\ id.warp = w THEN {id.rd} ELSE {})]

\* An address for a load or a store, the result for an ALU operation.
Alu ==
    alu' = [s \in 1 .. ALU_STAGES |->
              IF s > 1 THEN Now(alu[s - 1])
              ELSE IF ex_launch /\ id.op = "ALU" THEN Now(id.val)
              ELSE IF ex_launch /\ id.op \in {"LOAD", "STORE"} THEN Junk
              ELSE NoResult]

\* A memory request is held until the LSU takes it.
mem_accept == mem_pending /\ lsu.state = "IDLE"

\* Mutant of ExDone: a load, too, retires at its acceptance.
ExDoneAccepted == CASE ex.op = "ALU"  -> alu_valid_out
                    [] ex.op = "WMMA" -> TRUE
                    [] ex.op \in {"STORE", "LOAD"} -> mem_accept

\* What ends the operation in EX: the result, the acceptance of a store, the
\* response of a load.
ExDone == CASE ex.op = "ALU"   -> alu_valid_out
            [] ex.op = "WMMA"  -> TRUE
            [] ex.op = "STORE" -> mem_accept
            [] ex.op = "LOAD"  -> resp.valid

Execute ==
    /\ ex' = IF ex_launch THEN [id EXCEPT !.val = Now(@)]
             ELSE IF ex.valid /\ ExDone THEN [ex EXCEPT !.valid = FALSE, !.val = Now(@)]
             ELSE [ex EXCEPT !.val = Now(@)]
    /\ mem_pending' = IF ex.valid /\ ex.op \in {"LOAD", "STORE"}
                      THEN (mem_pending \/ alu_valid_out) /\ ~mem_accept
                      ELSE mem_pending

\* The LSU answers stores as well as loads; served says that the L1 has done
\* its part.
LoadStore(served) ==
    /\ lsu' = CASE lsu.state = "IDLE" ->
                     IF mem_pending
                     THEN [state |-> "BUSY",
                           val |-> IF ex.op = "STORE" THEN Junk ELSE Now(ex.val)]
                     ELSE lsu
                [] lsu.state = "BUSY" ->
                     [state |-> IF served THEN "RESP" ELSE "BUSY", val |-> Now(lsu.val)]
                [] lsu.state = "RESP" -> [state |-> "IDLE", val |-> Junk]
    /\ resp' = IF lsu.state = "RESP" THEN [valid |-> TRUE, val |-> Now(lsu.val)]
                                     ELSE [valid |-> FALSE, val |-> Junk]

\* MEM takes the operation in EX when the ALU has its result or address.
Memory ==
    mem' = IF alu_valid_out \/ (ex.valid /\ ex.op = "WMMA")
           THEN [valid |-> ex.valid /\ ex.op \notin {"WMMA", "STORE"},
                 warp |-> ex.warp, op |-> ex.op, rd |-> ex.rd,
                 val |-> IF alu_valid_out THEN Now(alu[ALU_STAGES]) ELSE Junk]
           ELSE [mem EXCEPT !.valid = FALSE, !.val = Junk]

\* WB: a result from MEM, or else a response of the LSU for whatever MEM holds.
WriteBack ==
    wb' = IF mem.valid /\ mem.op # "LOAD" THEN [mem EXCEPT !.val = Now(@)]
          ELSE IF resp.valid THEN [mem EXCEPT !.valid = TRUE, !.val = Now(resp.val)]
          ELSE NoInst

RegisterFile ==
    rf' = [w \in Warps |-> [r \in Regs |->
              IF Holds(wb, w, r) THEN Now(wb.val) ELSE Now(rf[w][r])]]

\* The program in order: what commits is executed, until EXIT.
ProgramOrder ==
    IF id_commit /\ head.warp \notin exited
    THEN /\ isa_pc' = [isa_pc EXCEPT ![head.warp] =
                         IF pc_redirect_valid THEN head_inst.target ELSE @ + 1]
         /\ exited' = IF pc_retire_valid THEN exited \union {head.warp} ELSE exited
    ELSE UNCHANGED <<isa_pc, exited>>

\* What the environment does on an edge: the warp whose fetch the interconnect
\* accepts, whether memory answers a fetch, whether the L1 has served the LSU, and
\* how the comparison of a SETP comes out.
Inputs ==
    [fetched  : Fetchable \union {NoWarp},
     answered : {imem # <<>>, FALSE},
     served   : {lsu.state = "BUSY", FALSE},
     outcome  : {id_exec /\ head_inst.op = "SETP", FALSE}]

Edge(in) ==
    /\ PcUnit(in.fetched)
    /\ Epochs
    /\ Fetch(in.fetched, in.answered)
    /\ Fifo(in.answered)
    /\ Predicates(in.outcome)
    /\ Decode
    /\ Scoreboard
    /\ Alu
    /\ Execute
    /\ LoadStore(in.served)
    /\ Memory
    /\ WriteBack
    /\ RegisterFile
    /\ ProgramOrder

Clock == \E in \in Inputs : Edge(in)

Spec == Init /\ [][Clock]_vars

\* The clock runs, and the environment does not stop altogether: as long as a fetch
\* could be accepted or answered, or the LSU served, one of them happens in the end.
Served == \E in \in Inputs : /\ in.fetched # NoWarp \/ in.answered \/ in.served
                             /\ Edge(in)

Fairness == WF_vars(Clock) /\ WF_vars(Served)

LiveSpec == Spec /\ Fairness

----------------------------------------------------------------------------
(* Properties. *)

Stages == [valid : BOOLEAN, warp : Warps \union {NoWarp}, op : Ops,
           rd : Regs \union {R0}, val : Values]

\* Every register holds a value of its declared width; one fetch is in flight.
TypeOK ==
    /\ pc \in [Warps -> Nat]
    /\ active \in [Warps -> BOOLEAN]
    /\ warp_epoch \in [Warps -> BOOLEAN]
    /\ if_pending \in BOOLEAN
    /\ if_tag \in [warp : Warps \union {NoWarp}, epoch : BOOLEAN]
    /\ imem \in Seq(Nat) /\ Len(imem) = (IF if_pending THEN 1 ELSE 0)
    /\ fifo \in Seq([warp : Warps, epoch : BOOLEAN, pc : Nat])
    /\ pred \in [Warps -> BOOLEAN]
    /\ scoreboard \in [Warps -> SUBSET Regs]
    /\ id \in Stages /\ ex \in Stages /\ mem \in Stages /\ wb \in Stages
    /\ mem_pending \in BOOLEAN
    /\ alu \in [1 .. ALU_STAGES -> Values \union {NoResult}]
    /\ lsu \in [state : {"IDLE", "BUSY", "RESP"}, val : Values]
    /\ resp \in [valid : BOOLEAN, val : Values]
    /\ rf \in [Warps -> [Regs -> Values]]
    /\ isa_pc \in [Warps -> Nat]
    /\ exited \in SUBSET Warps

\* One epoch bit is enough: until a warp exits, what commits for it is exactly its
\* program in order, however branches resolve while fetches are in flight.
CommitsInOrder ==
    (id_commit /\ head.warp \notin exited) => head.pc = isa_pc[head.warp]

\* No word is dropped: a fetch that is answered finds room.
FetchesFit == imem # <<>> => ~fifo_full

\* Every operand an instruction reads is the value the last instruction before it,
\* in program order, computed for that register of its own warp.
OperandsAreLatest ==
    (id_exec /\ head.warp \notin exited) =>
        \A r \in Sources : Operand(head.warp, r) = Latest(head.warp, r)

\* What a program may have to keep clear of: stores, matrix operations, and an
\* instruction that reads what the one before it writes.
NoStores == \A p \in 0 .. Len(Program) - 1 : Inst(p).op # "STORE"
NoWmmas  == \A p \in 0 .. Len(Program) - 1 : Inst(p).op # "WMMA"

Spaced == \A p \in 0 .. Len(Program) - 1 :
             Inst(p).op \in Writing => Inst(p).rd \notin Inst(p + 1).rs

Quiet == /\ fifo = <<>> /\ ~id.valid /\ ~ex.valid /\ ~mem.valid /\ ~wb.valid
         /\ lsu.state = "IDLE" /\ ~resp.valid

\* When the pipeline has drained, the register file is the architectural state and
\* no scoreboard bit is left to stall a warp.
DrainsClean ==
    Quiet => \A w \in Warps, r \in Regs :
                /\ rf[w][r] = Latest(w, r)
                /\ r \notin scoreboard[w]

\* The SM never wedges: until every warp has exited, some warp commits again.
KeepsCommitting == []<>(exited = Warps \/ id_commit)
=============================================================================
