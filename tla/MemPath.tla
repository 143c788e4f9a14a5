------------------------------ MODULE MemPath ------------------------------
(***************************************************************************)
(* The path from the coherent crossbar to memory:                          *)
(*                                                                         *)
(*   rtl/memory/titan_x5_l2_cache.v         the L2, write-back             *)
(*   rtl/memory/titan_x5_l2_mem_adapter.v   lines into wide beats          *)
(*   rtl/titan_x5_gpu_top.v                 the two clock-crossing FIFOs   *)
(*   rtl/memory/titan_x5_mem_controller.v   wide and narrow port, one AXI  *)
(*                                          transaction at a time          *)
(*                                                                         *)
(* The client is the L2 engine of the crossbar: one request at a time, held *)
(* until the L2 has served it.  The flush is the S_L2 phase of the flush   *)
(* sequencer, which starts it only when the crossbar is quiescent and      *)
(* keeps the L1s frozen until it is over.  A clock-crossing FIFO hands     *)
(* over an entry after any delay.  The response FIFO is popped on every    *)
(* core clock in which it is not empty; it never fills, because a response *)
(* takes the memory clock several cycles.                                  *)
(***************************************************************************)
EXTENDS Integers, Sequences, FiniteSets

CONSTANTS
    SETS,        \* sets of the L2, over all banks
    WAYS,        \* associativity
    FIFO_DEPTH,  \* entries of a wide clock-crossing FIFO
    WORDS,       \* beats of a line
    Lines,       \* line addresses
    IndexOf,     \* bank and set a line maps to
    Val,         \* contents of a beat
    Zero,        \* the beat register after reset
    Contents,    \* line contents that cores store
    AtReset,     \* line contents that memory starts with
    NoLine       \* no line

Sets     == 0 .. SETS - 1
Ways     == 0 .. WAYS - 1
Frames   == Sets \X Ways
Beats    == 0 .. WORDS - 1
LineData == [Beats -> Val]

ASSUME GeometryAssumption ==
    /\ SETS \in Nat \ {0}
    /\ WAYS \in Nat \ {0}
    /\ FIFO_DEPTH \in Nat \ {0}
    /\ WORDS \in Nat \ {0}
    /\ IndexOf \in [Lines -> Sets]

ASSUME DataAssumption == /\ Zero \in Val
                         /\ Contents \subseteq LineData
                         /\ AtReset \subseteq LineData
                         /\ NoLine \notin Lines /\ NoLine \notin LineData

VARIABLES
    \* ---- the crossbar's request at the L2 port, and the fence ----
    req,          \* l2_req_write, l2_req_addr, l2_req_wdata
    flush_req,
    \* ---- L2 ----
    lstate, valid, dirty, tag, data,
    replace_way, victim_way, fl_pos, flush_seen,
    \* ---- adapter ----
    astate, base_addr, line_buf, word_cnt,
    \* ---- clock-crossing FIFOs ----
    wreq, wresp,
    \* ---- memory controller ----
    ready,        \* the ports whose ready is high: wreq_ready, req_ready
    cur,          \* the transaction in flight
    last_was_wide,
    wresp_rdata,
    narrow,       \* the narrow port has a request
    \* ---- memory ----
    vram,
    \* ---- history ----
    written       \* each line as the crossbar last wrote it

clientvars  == <<req, flush_req>>
l2vars      == <<lstate, valid, dirty, tag, data, replace_way, victim_way,
                 fl_pos, flush_seen>>
adaptervars == <<astate, base_addr, line_buf, word_cnt>>
fifovars    == <<wreq, wresp>>
ctrlvars    == <<ready, cur, last_was_wide, wresp_rdata, narrow>>
vars == <<clientvars, l2vars, adaptervars, fifovars, ctrlvars, vram, written>>

NoReq    == [write |-> FALSE, line |-> NoLine, wdata |-> NoLine]
Requests == [write : {FALSE}, line : Lines, wdata : {NoLine}]
                \union [write : {TRUE}, line : Lines, wdata : Contents]

\* One full-width beat on its way to memory.
BeatReqs == [write : BOOLEAN, line : Lines, beat : Beats, wdata : Val]

\* The controller is idle, or has a wide or a narrow transaction.
NoCurrent    == [port |-> "IDLE"]
Transactions == [port : {"WIDE"}, beat : BeatReqs] \union [port : {"NARROW"}]

Init ==
    /\ req = NoReq
    /\ flush_req = FALSE
    /\ lstate = "IDLE"
    /\ valid = [f \in Frames |-> FALSE]
    /\ dirty = [f \in Frames |-> FALSE]
    /\ tag = [f \in Frames |-> NoLine]
    /\ data = [f \in Frames |-> NoLine]
    /\ replace_way = 0
    /\ victim_way = 0
    /\ fl_pos = <<0, 0>>
    /\ flush_seen = FALSE
    /\ astate = "IDLE"
    /\ base_addr = NoLine
    /\ line_buf = [b \in Beats |-> Zero]
    /\ word_cnt = 0
    /\ wreq = <<>>
    /\ wresp = <<>>
    /\ ready = {}
    /\ cur = NoCurrent
    /\ last_was_wide = FALSE
    /\ wresp_rdata = Zero
    /\ narrow = FALSE
    /\ vram \in [Lines -> AtReset]
    /\ written = vram

----------------------------------------------------------------------------
(* The crossbar. *)

\* The engine presents a request; with a flush in progress the L1s are frozen.
Request ==
    /\ req = NoReq /\ ~flush_req
    /\ req' \in Requests
    /\ UNCHANGED <<flush_req, l2vars, adaptervars, fifovars, ctrlvars, vram,
                   written>>

\* The sequencer enters S_L2 once the crossbar has drained.
FlushRequest ==
    /\ req = NoReq /\ ~flush_req
    /\ flush_req' = TRUE
    /\ UNCHANGED <<req, l2vars, adaptervars, fifovars, ctrlvars, vram, written>>

\* flush_done: the sequencer drops flush_req, which rearms the L2.
FlushRelease ==
    /\ flush_req /\ flush_seen
    /\ flush_req' = FALSE
    /\ flush_seen' = FALSE
    /\ UNCHANGED <<req, lstate, valid, dirty, tag, data, replace_way, victim_way,
                   fl_pos, adaptervars, fifovars, ctrlvars, vram, written>>

----------------------------------------------------------------------------
(* L2 cache. *)

Hits == {w \in Ways : /\ valid[<<IndexOf[req.line], w>>]
                      /\ tag[<<IndexOf[req.line], w>>] = req.line}

\* The search loop keeps the last way that matches.
HitFrame == <<IndexOf[req.line],
              CHOOSE w \in Hits : \A v \in Hits : v <= w>>

VictimFrame == <<IndexOf[req.line], victim_way>>

\* STATE_IDLE: take the request.  It is not latched: the L2 goes on reading the
\* live address and data.
L2Accept ==
    /\ lstate = "IDLE" /\ req # NoReq
    /\ lstate' = "COMPARE"
    /\ UNCHANGED <<clientvars, valid, dirty, tag, data, replace_way, victim_way,
                   fl_pos, flush_seen, adaptervars, fifovars, ctrlvars, vram,
                   written>>

\* STATE_COMPARE, read hit: the response pulse completes the request.
L2ReadHit ==
    /\ lstate = "COMPARE" /\ Hits # {} /\ ~req.write
    /\ lstate' = "IDLE"
    /\ req' = NoReq
    /\ UNCHANGED <<flush_req, valid, dirty, tag, data, replace_way, victim_way,
                   fl_pos, flush_seen, adaptervars, fifovars, ctrlvars, vram,
                   written>>

\* Mutant of L2WriteHit: the line is not marked dirty.
L2WriteHitClean ==
    /\ lstate = "COMPARE" /\ Hits # {} /\ req.write
    /\ data' = [data EXCEPT ![HitFrame] = req.wdata]
    /\ written' = [written EXCEPT ![req.line] = req.wdata]
    /\ lstate' = "IDLE"
    /\ req' = NoReq
    /\ UNCHANGED <<flush_req, valid, dirty, tag, replace_way, victim_way, fl_pos,
                   flush_seen, adaptervars, fifovars, ctrlvars, vram>>

\* STATE_COMPARE, write hit: the line is dirty, and ready completes the request.
L2WriteHit ==
    /\ lstate = "COMPARE" /\ Hits # {} /\ req.write
    /\ data' = [data EXCEPT ![HitFrame] = req.wdata]
    /\ dirty' = [dirty EXCEPT ![HitFrame] = TRUE]
    /\ written' = [written EXCEPT ![req.line] = req.wdata]
    /\ lstate' = "IDLE"
    /\ req' = NoReq
    /\ UNCHANGED <<flush_req, valid, tag, replace_way, victim_way, fl_pos,
                   flush_seen, adaptervars, fifovars, ctrlvars, vram>>

\* Mutant of L2Miss: a dirty victim is dropped.
L2MissDrops ==
    /\ lstate = "COMPARE" /\ Hits = {}
    /\ victim_way' = replace_way
    /\ replace_way' = (replace_way + 1) % WAYS
    /\ lstate' = "ALLOCATE"
    /\ UNCHANGED <<clientvars, valid, dirty, tag, data, fl_pos, flush_seen,
                   adaptervars, fifovars, ctrlvars, vram, written>>

\* STATE_COMPARE, miss: a write allocates as well.  The victim is the way the
\* one replacement counter names, free ways or not.
L2Miss ==
    LET f == <<IndexOf[req.line], replace_way>>
    IN  /\ lstate = "COMPARE" /\ Hits = {}
        /\ victim_way' = replace_way
        /\ replace_way' = (replace_way + 1) % WAYS
        /\ lstate' = IF valid[f] /\ dirty[f] THEN "WRITEBACK" ELSE "ALLOCATE"
        /\ UNCHANGED <<clientvars, valid, dirty, tag, data, fl_pos, flush_seen,
                       adaptervars, fifovars, ctrlvars, vram, written>>

\* The adapter takes a line to write.
AdapterTakesWrite(f) ==
    /\ astate = "IDLE"
    /\ astate' = "WRITE"
    /\ base_addr' = tag[f]
    /\ line_buf' = data[f]
    /\ word_cnt' = 0

\* STATE_WRITEBACK: the adapter takes the dirty victim.
L2Writeback ==
    /\ lstate = "WRITEBACK"
    /\ AdapterTakesWrite(VictimFrame)
    /\ lstate' = "ALLOCATE"
    /\ UNCHANGED <<clientvars, valid, dirty, tag, data, replace_way, victim_way,
                   fl_pos, flush_seen, fifovars, ctrlvars, vram, written>>

\* STATE_ALLOCATE: the adapter takes the read of the missing line.
L2Allocate ==
    /\ lstate = "ALLOCATE" /\ astate = "IDLE"
    /\ lstate' = "REFILL"
    /\ astate' = "RD_REQ"
    /\ base_addr' = req.line
    /\ word_cnt' = 0
    /\ UNCHANGED <<clientvars, valid, dirty, tag, data, replace_way, victim_way,
                   fl_pos, flush_seen, line_buf, fifovars, ctrlvars, vram,
                   written>>

\* STATE_REFILL: the adapter's response fills the victim's frame, clean.
L2Refill(line) ==
    /\ lstate = "REFILL"
    /\ valid' = [valid EXCEPT ![VictimFrame] = TRUE]
    /\ dirty' = [dirty EXCEPT ![VictimFrame] = FALSE]
    /\ tag' = [tag EXCEPT ![VictimFrame] = req.line]
    /\ data' = [data EXCEPT ![VictimFrame] = line]
    /\ lstate' = "COMPARE"
    /\ UNCHANGED <<replace_way, victim_way, fl_pos, flush_seen>>

\* The next position of the walk: way, then set, then bank.
NextPos(p) == IF p[2] = WAYS - 1 THEN <<p[1] + 1, 0>> ELSE <<p[1], p[2] + 1>>

\* STATE_IDLE: one walk for one assertion of flush_req.
L2FlushStart ==
    /\ lstate = "IDLE" /\ req = NoReq /\ flush_req /\ ~flush_seen
    /\ lstate' = "FLUSH"
    /\ fl_pos' = <<0, 0>>
    /\ UNCHANGED <<clientvars, valid, dirty, tag, data, replace_way, victim_way,
                   flush_seen, adaptervars, fifovars, ctrlvars, vram, written>>

\* Mutant of L2FlushDrop: dirtiness is not looked at.
L2FlushDropAny ==
    /\ lstate = "FLUSH" /\ fl_pos[1] < SETS
    /\ valid' = [valid EXCEPT ![fl_pos] = FALSE]
    /\ dirty' = [dirty EXCEPT ![fl_pos] = FALSE]
    /\ fl_pos' = NextPos(fl_pos)
    /\ UNCHANGED <<clientvars, lstate, tag, data, replace_way, victim_way,
                   flush_seen, adaptervars, fifovars, ctrlvars, vram, written>>

\* STATE_FLUSH: drop a line that is not dirty.
L2FlushDrop ==
    /\ lstate = "FLUSH" /\ fl_pos[1] < SETS
    /\ ~(valid[fl_pos] /\ dirty[fl_pos])
    /\ valid' = [valid EXCEPT ![fl_pos] = FALSE]
    /\ dirty' = [dirty EXCEPT ![fl_pos] = FALSE]
    /\ fl_pos' = NextPos(fl_pos)
    /\ UNCHANGED <<clientvars, lstate, tag, data, replace_way, victim_way,
                   flush_seen, adaptervars, fifovars, ctrlvars, vram, written>>

\* STATE_FLUSH, STATE_FLUSH_WB: the adapter takes a dirty line, which is dropped.
L2FlushWriteback ==
    /\ lstate = "FLUSH" /\ fl_pos[1] < SETS
    /\ valid[fl_pos] /\ dirty[fl_pos]
    /\ AdapterTakesWrite(fl_pos)
    /\ valid' = [valid EXCEPT ![fl_pos] = FALSE]
    /\ dirty' = [dirty EXCEPT ![fl_pos] = FALSE]
    /\ fl_pos' = NextPos(fl_pos)
    /\ UNCHANGED <<clientvars, lstate, tag, data, replace_way, victim_way,
                   flush_seen, fifovars, ctrlvars, vram, written>>

\* STATE_FLUSH past the last bank: flush_done.
L2FlushDone ==
    /\ lstate = "FLUSH" /\ fl_pos[1] = SETS
    /\ lstate' = "IDLE"
    /\ fl_pos' = <<0, 0>>
    /\ flush_seen' = TRUE
    /\ UNCHANGED <<clientvars, valid, dirty, tag, data, replace_way, victim_way,
                   adaptervars, fifovars, ctrlvars, vram, written>>

----------------------------------------------------------------------------
(* Adapter. *)

LastBeat == word_cnt = WORDS - 1

\* A_WRITE: the next beat goes into the request FIFO; nobody waits for it.
AdapterWriteBeat ==
    /\ astate = "WRITE" /\ Len(wreq) < FIFO_DEPTH
    /\ wreq' = Append(wreq, [write |-> TRUE, line |-> base_addr,
                             beat |-> word_cnt, wdata |-> line_buf[word_cnt]])
    /\ IF LastBeat THEN astate' = "IDLE" /\ word_cnt' = 0
                   ELSE astate' = astate /\ word_cnt' = word_cnt + 1
    /\ UNCHANGED <<clientvars, l2vars, base_addr, line_buf, wresp, ctrlvars,
                   vram, written>>

\* A_RD_REQ: ask for the next beat.
AdapterReadBeat ==
    /\ astate = "RD_REQ" /\ Len(wreq) < FIFO_DEPTH
    /\ wreq' = Append(wreq, [write |-> FALSE, line |-> base_addr,
                             beat |-> word_cnt, wdata |-> Zero])
    /\ astate' = "RD_WAIT"
    /\ UNCHANGED <<clientvars, l2vars, base_addr, line_buf, word_cnt, wresp,
                   ctrlvars, vram, written>>

\* The response FIFO is popped whenever it is not empty.  In A_RD_WAIT whatever
\* comes out is the beat; in any other state it is lost.
AdapterResponse ==
    /\ wresp # <<>>
    /\ wresp' = Tail(wresp)
    /\ \/ /\ astate = "RD_WAIT"
          /\ line_buf' = [line_buf EXCEPT ![word_cnt] = Head(wresp)]
          /\ \/ /\ LastBeat
                /\ L2Refill(line_buf')
                /\ astate' = "IDLE"
                /\ word_cnt' = 0
             \/ /\ ~LastBeat
                /\ astate' = "RD_REQ"
                /\ word_cnt' = word_cnt + 1
                /\ UNCHANGED l2vars
          /\ UNCHANGED base_addr
       \/ /\ astate # "RD_WAIT"
          /\ UNCHANGED <<l2vars, adaptervars>>
    /\ UNCHANGED <<clientvars, wreq, ctrlvars, vram, written>>

----------------------------------------------------------------------------
(* Memory controller. *)

\* A narrow master (instruction fetch, ROP, command processor) asks for a word.
NarrowRequest ==
    /\ ~narrow
    /\ narrow' = TRUE
    /\ UNCHANGED <<clientvars, l2vars, adaptervars, fifovars, ready, cur,
                   last_was_wide, wresp_rdata, vram, written>>

TakesWide == "wide" \in ready /\ wreq # <<>>
TakesNarrow == "narrow" \in ready /\ narrow /\ ~TakesWide

\* Mutants of WideFirst: the wide port is always preferred; the narrow one is.
WideAlways == wreq # <<>>
WideIfAlone == wreq # <<>> /\ ~narrow

\* The arbitration: the wide port, unless it went last and the narrow one waits.
WideFirst == wreq # <<>> /\ (~narrow \/ ~last_was_wide)

\* Mutant of Readies: both ports may send, and the winner is picked when they do.
BothReadies == {"wide", "narrow"}

Readies == IF WideFirst THEN {"wide"} ELSE {"narrow"}

\* IDLE: raise ready to one port for the next cycle.
Arbitrate ==
    /\ cur = NoCurrent /\ ~TakesWide /\ ~TakesNarrow
    /\ ready' = Readies
    /\ ready' # ready
    /\ UNCHANGED <<clientvars, l2vars, adaptervars, fifovars, cur, last_was_wide,
                   wresp_rdata, narrow, vram, written>>

\* IDLE: the wide request that meets its ready becomes the transaction.  A narrow
\* request that meets its own on the same clock is popped as well.
TakeWide ==
    /\ cur = NoCurrent /\ TakesWide
    /\ cur' = [port |-> "WIDE", beat |-> Head(wreq)]
    /\ wreq' = Tail(wreq)
    /\ narrow' = (narrow /\ "narrow" \notin ready)
    /\ ready' = {}
    /\ last_was_wide' = TRUE
    /\ UNCHANGED <<clientvars, l2vars, adaptervars, wresp, wresp_rdata, vram,
                   written>>

\* IDLE: likewise the narrow request.
TakeNarrow ==
    /\ cur = NoCurrent /\ TakesNarrow
    /\ cur' = [port |-> "NARROW"]
    /\ narrow' = FALSE
    /\ ready' = {}
    /\ last_was_wide' = FALSE
    /\ UNCHANGED <<clientvars, l2vars, adaptervars, fifovars, wresp_rdata, vram,
                   written>>

\* B_WAIT: a wide write is acknowledged on the response port, whose data
\* register still holds the last beat that was read.
WideWriteDone ==
    /\ cur.port = "WIDE" /\ cur.beat.write /\ Len(wresp) < FIFO_DEPTH
    /\ vram' = [vram EXCEPT ![cur.beat.line][cur.beat.beat] = cur.beat.wdata]
    /\ wresp' = Append(wresp, wresp_rdata)
    /\ cur' = NoCurrent
    /\ UNCHANGED <<clientvars, l2vars, adaptervars, wreq, ready, last_was_wide,
                   wresp_rdata, narrow, written>>

\* R_WAIT: a wide read.
WideReadDone ==
    /\ cur.port = "WIDE" /\ ~cur.beat.write /\ Len(wresp) < FIFO_DEPTH
    /\ wresp_rdata' = vram[cur.beat.line][cur.beat.beat]
    /\ wresp' = Append(wresp, wresp_rdata')
    /\ cur' = NoCurrent
    /\ UNCHANGED <<clientvars, l2vars, adaptervars, wreq, ready, last_was_wide,
                   narrow, vram, written>>

\* A narrow transaction ends.  Its word is not the L2's business.
NarrowDone ==
    /\ cur.port = "NARROW"
    /\ cur' = NoCurrent
    /\ UNCHANGED <<clientvars, l2vars, adaptervars, fifovars, ready,
                   last_was_wide, wresp_rdata, narrow, vram, written>>

----------------------------------------------------------------------------
Flush == L2FlushStart \/ L2FlushDrop \/ L2FlushWriteback \/ L2FlushDone

L2 == \/ L2Accept \/ L2ReadHit \/ L2WriteHit \/ L2Miss
      \/ L2Writeback \/ L2Allocate \/ Flush

Adapter == AdapterWriteBeat \/ AdapterReadBeat

Controller == \/ Arbitrate \/ TakeWide \/ TakeNarrow
              \/ WideWriteDone \/ WideReadDone \/ NarrowDone

Next == \/ Request \/ FlushRequest \/ FlushRelease \/ NarrowRequest
        \/ L2 \/ Adapter \/ AdapterResponse \/ Controller

Spec == Init /\ [][Next]_vars

\* Every machine is clocked, memory answers, and the sequencer waits for nothing
\* but flush_done; requests and fences may stop coming.
Fairness == /\ WF_vars(L2)
            /\ WF_vars(Adapter)
            /\ WF_vars(AdapterResponse)
            /\ WF_vars(Controller)
            /\ WF_vars(FlushRelease)

LiveSpec == Spec /\ Fairness

----------------------------------------------------------------------------
(* Properties. *)

\* Every register holds a value of its declared width.
TypeOK ==
    /\ req \in Requests \union {NoReq}
    /\ flush_req \in BOOLEAN
    /\ lstate \in {"IDLE", "COMPARE", "WRITEBACK", "ALLOCATE", "REFILL", "FLUSH"}
    /\ valid \in [Frames -> BOOLEAN]
    /\ dirty \in [Frames -> BOOLEAN]
    /\ tag \in [Frames -> Lines \union {NoLine}]
    /\ data \in [Frames -> LineData \union {NoLine}]
    /\ replace_way \in Ways
    /\ victim_way \in Ways
    /\ fl_pos \in (0 .. SETS) \X Ways
    /\ flush_seen \in BOOLEAN
    /\ astate \in {"IDLE", "WRITE", "RD_REQ", "RD_WAIT"}
    /\ base_addr \in Lines \union {NoLine}
    /\ line_buf \in LineData
    /\ word_cnt \in Beats
    /\ wreq \in Seq(BeatReqs)
    /\ wresp \in Seq(Val)
    /\ ready \in SUBSET {"wide", "narrow"}
    /\ cur \in Transactions \union {NoCurrent}
    /\ last_was_wide \in BOOLEAN
    /\ wresp_rdata \in Val
    /\ narrow \in BOOLEAN
    /\ vram \in [Lines -> LineData]
    /\ written \in [Lines -> LineData]

\* The writes of beat b of line l that wait in the request FIFO.
QueuedWrites(l, b) ==
    {k \in 1 .. Len(wreq) : /\ wreq[k].write
                            /\ wreq[k].line = l /\ wreq[k].beat = b}

\* The youngest of them.
Youngest(l, b) ==
    CHOOSE k \in QueuedWrites(l, b) : \A j \in QueuedWrites(l, b) : j <= k

\* What memory will hold of line l once everything on the way has arrived: the
\* youngest write of a beat wins.
LandingBeat(l, b) ==
    IF astate = "WRITE" /\ base_addr = l /\ b >= word_cnt THEN line_buf[b]
    ELSE IF QueuedWrites(l, b) # {} THEN wreq[Youngest(l, b)].wdata
    ELSE IF /\ cur.port = "WIDE" /\ cur.beat.write
            /\ cur.beat.line = l /\ cur.beat.beat = b
    THEN cur.beat.wdata
    ELSE vram[l][b]

Landing(l) == [b \in Beats |-> LandingBeat(l, b)]

DirtyIn(l) == {f \in Frames : valid[f] /\ dirty[f] /\ tag[f] = l}

\* No store is lost below the crossbar: the last value written to a line is in a
\* dirty frame, or it is what memory holds once the beats on the way have
\* arrived, whatever order write-backs, refills and flushes come in.
StoresAreDurable ==
    \A l \in Lines :
        IF DirtyIn(l) = {} THEN Landing(l) = written[l]
                           ELSE \A f \in DirtyIn(l) : data[f] = written[l]

\* A flush leaves nothing behind: when the L2 reports flush_done every frame is
\* invalid and every store is on its way to memory.
FlushLeavesNothing ==
    flush_seen => /\ \A f \in Frames : ~valid[f]
                  /\ \A l \in Lines : Landing(l) = written[l]

----------------------------------------------------------------------------
(* What every reachable state satisfies besides: with it StoresAreDurable   *)
(* and FlushLeavesNothing are inductive.                                    *)

\* A valid frame holds a line of its set, and no other frame holds that line.
FramesFit ==
    /\ \A f \in Frames : valid[f] => /\ tag[f] \in Lines
                                     /\ IndexOf[tag[f]] = f[1]
                                     /\ data[f] \in LineData
    /\ \A f, g \in Frames : (valid[f] /\ valid[g] /\ tag[f] = tag[g]) => f = g

\* The L2 works on a request that stays, and on a miss the line stays absent.
RequestFits ==
    /\ lstate \in {"COMPARE", "WRITEBACK", "ALLOCATE", "REFILL"} => req # NoReq
    /\ lstate \in {"WRITEBACK", "ALLOCATE", "REFILL"} => Hits = {}

\* A dirty victim is overwritten only when its line is on its way to memory.
VictimSaved ==
    /\ lstate = "WRITEBACK" => valid[VictimFrame] /\ dirty[VictimFrame]
    /\ (lstate \in {"ALLOCATE", "REFILL"} /\ valid[VictimFrame] /\ dirty[VictimFrame])
          => Landing(tag[VictimFrame]) = written[tag[VictimFrame]]

\* The adapter reads exactly while the L2 waits for a refill.
AdapterFits ==
    /\ astate # "IDLE" => base_addr \in Lines
    /\ astate \in {"RD_REQ", "RD_WAIT"} <=> lstate = "REFILL"

\* The walk has passed frame f.
Walked(f) == f[1] < fl_pos[1] \/ (f[1] = fl_pos[1] /\ f[2] < fl_pos[2])

\* A flush has the L2 to itself, and what its walk has passed is invalid.
FlushFits ==
    /\ flush_req => req = NoReq
    /\ lstate = "FLUSH" => /\ flush_req /\ ~flush_seen
                           /\ \A f \in Frames : Walked(f) => ~valid[f]
    /\ flush_seen => /\ flush_req /\ lstate = "IDLE"
                     /\ \A f \in Frames : ~valid[f]

MemInv ==
    /\ TypeOK
    /\ FramesFit
    /\ RequestFits
    /\ VictimSaved
    /\ AdapterFits
    /\ FlushFits
    /\ StoresAreDurable

----------------------------------------------------------------------------
\* Every request the crossbar presents is served, also while the adapter loses
\* responses it does not wait for.
EveryRequestServed == (req # NoReq) ~> (req = NoReq)

\* "neither port can starve the other": a narrow request is served however
\* busy the L2 keeps the wide port.
NarrowServed == narrow ~> ~narrow

\* titan_x5_mem_controller.v:129-135: "the FIFO pops an entry the controller never
\* serves".  A request leaves its FIFO only to become the transaction in flight.
PoppedIsServed ==
    [][/\ narrow /\ ~narrow' => cur' = [port |-> "NARROW"]
       /\ Len(wreq') < Len(wreq) => cur' = [port |-> "WIDE", beat |-> Head(wreq)]]_vars

\* tb/uvm/test_l2_adapter.py:26: "Reads reassemble the line byte-exact from the
\* returned beats": a refill puts into the L2 what memory holds of the line.
RefillsAreExact ==
    [][lstate = "REFILL" /\ lstate' = "COMPARE"
         => data'[VictimFrame] = vram[req.line]]_vars

\* titan_x5_l2_cache.v:40-42: "after flush_done this cache holds nothing and
\* memory holds the architectural state".
FlushReachesMemory == flush_seen => vram = written
=============================================================================
