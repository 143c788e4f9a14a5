---------------------------- MODULE CoherentBus ----------------------------
(***************************************************************************)
(* The MESI-coherent L1 data caches of the streaming multiprocessors, the  *)
(* split-transaction snooping crossbar that joins them, and the sequencer  *)
(* that flushes them for a fence:                                          *)
(*                                                                         *)
(*   rtl/memory/titan_x5_l1_cache.v                 (one per master)       *)
(*   rtl/interconnect/titan_x5_crossbar.v           (titan_x5_coherent_xbar)*)
(*   rtl/control/titan_x5_flush_ctrl.v              (device-level flush)   *)
(*                                                                         *)
(* One action is one transition of one finite-state machine.  Registered   *)
(* one-cycle handshakes (grant, snoop answer, response) join the two       *)
(* machines they connect in one action: the crossbar grants only in        *)
(* F_IDLE, where no snoop is outstanding, and a cache in S_FILL defers     *)
(* every snoop, so nothing can reach a cache inside such a cycle.  A       *)
(* register that is always rewritten before it is next read is cleared     *)
(* when it dies.  The L2 is the store its port presents: a request is      *)
(* accepted, served after any delay, and a write is served when the L2     *)
(* reports ready again.                                                    *)
(***************************************************************************)
EXTENDS Integers, Sequences, FiniteSets

CONSTANTS
    NUM_MASTERS,  \* number of L1 caches on the bus
    SETS,         \* cache sets of an L1
    WAYS,         \* associativity of an L1
    Q_DEPTH,      \* slots of the crossbar's transaction queue
    Lines,        \* line addresses
    IndexOf,      \* the set a line maps to (its index bits)
    Bytes,        \* byte lanes of a line
    Val,          \* values of a byte
    NoData,       \* content of a data register that holds nothing
    Workload,     \* the requests each core may issue: its program
    Fences        \* whether the command processor issues fences

Masters  == 0 .. NUM_MASTERS - 1
Sets     == 0 .. SETS - 1
Ways     == 0 .. WAYS - 1
Frames   == Sets \X Ways
LineData == [Bytes -> Val]

ASSUME GeometryAssumption ==
    /\ NUM_MASTERS \in Nat \ {0}
    /\ SETS \in Nat \ {0}
    /\ WAYS \in Nat \ {0}
    /\ Q_DEPTH \in Nat \ {0}

ASSUME IndexAssumption == IndexOf \in [Lines -> Sets]

ASSUME DataAssumption == NoData \notin LineData /\ NoData \notin Lines

ASSUME FencesAssumption == Fences \in BOOLEAN

\* Bus transaction types, MESI states, and the states of the four machines.
SnoopTypes == {"RD", "RDX", "UPGR"}
BusTypes   == SnoopTypes \union {"WB"}
Mesi       == {"I", "S", "E", "M"}
L1States   == {"IDLE", "LOOKUP", "EVICT", "REQ", "FILL", "FLUSH", "FLUSH_WB"}

VARIABLES
    \* ---- the L1 caches ----
    state,       \* main FSM
    mesi,        \* mesi_array
    tag,         \* tag_array, holding the whole line address
    data,        \* data_array
    rep_ptr,     \* replacement pointer of each set
    req,         \* latched core request
    victim,      \* victim_way_q
    bus_req,     \* bus_req_type, bus_req_addr, bus_req_wdata
    rdata,       \* core_resp_rdata: the line last returned to the core
    fl_pos,      \* flush walk position <<fl_set, fl_way>>
    flush_seen,  \* caches that have finished the walk of this flush_req
    \* ---- crossbar front-end ----
    fstate, f_grant, rr_ptr,
    cur,         \* cur_type and cur_addr
    snp_pending, hit_acc, dirty_acc, dirty_data,
    \* ---- crossbar queue and L2 engine ----
    queue, estate, l2_accepted, e_rdata,
    \* ---- the L2 behind its port ----
    l2_busy, l2,
    \* ---- flush sequencer ----
    fctrl,
    \* ---- history ----
    latest       \* each line as the writes committed so far leave it

l1vars     == <<state, mesi, tag, data, rep_ptr, req, victim, bus_req, rdata,
                fl_pos, flush_seen>>
frontvars  == <<fstate, f_grant, rr_ptr, cur, snp_pending, hit_acc, dirty_acc,
                dirty_data>>
enginevars == <<queue, estate, l2_accepted, e_rdata>>
l2vars     == <<l2_busy, l2>>
vars       == <<l1vars, frontvars, enginevars, l2vars, fctrl, latest>>

----------------------------------------------------------------------------
(* Data a core request, a bus request and a queue slot carry. *)

NoReq    == [write |-> FALSE, line |-> NoData, wdata |-> NoData, be |-> {}]
NoBusReq == [type |-> "RD", line |-> NoData, wdata |-> NoData]
NoCur    == [type |-> "RD", line |-> NoData]

\* The byte-enable merge of a store into a line.
merge_line(old, new, be) ==
    [b \in Bytes |-> IF b \in be THEN new[b] ELSE old[b]]

\* A read overwrites nothing, so the request's payload is that of a store.
CoreReads  == [write : {FALSE}, line : Lines, wdata : {NoData}, be : {{}}]
CoreWrites == [write : {TRUE}, line : Lines, wdata : LineData,
               be : (SUBSET Bytes) \ {{}}]
CoreReqs   == CoreReads \union CoreWrites

ASSUME WorkloadAssumption == Workload \in [Masters -> SUBSET CoreReqs]

BusReqs == [type : BusTypes, line : Lines, wdata : LineData \union {NoData}]

\* wr and respond tell a write-back (wr, no response), a dirty snoop hit that
\* is written through (wr, response) and a read of the L2 (response) apart;
\* q_rd is the negation of q_wr.
QEntries == [master : Masters, wr : BOOLEAN, respond : BOOLEAN,
             shared : BOOLEAN, line : Lines, wdata : LineData \union {NoData}]

----------------------------------------------------------------------------
(* Tag lookup.  Both the core path and the snoop path search the set. *)

Hits(i, l) == {w \in Ways : /\ mesi[i][<<IndexOf[l], w>>] # "I"
                            /\ tag[i][<<IndexOf[l], w>>] = l}

\* The search loop keeps the last way that matches.
HitWay(i, l) == CHOOSE w \in Hits(i, l) : \A v \in Hits(i, l) : v <= w

HitFrame(i, l) == <<IndexOf[l], HitWay(i, l)>>

InvalidWays(i, s) == {w \in Ways : mesi[i][<<s, w>>] = "I"}

\* The first invalid way, otherwise the one the replacement pointer names.
victim_way(i, s) ==
    IF InvalidWays(i, s) # {}
    THEN CHOOSE w \in InvalidWays(i, s) : \A v \in InvalidWays(i, s) : w <= v
    ELSE rep_ptr[i][s]

ReqIndex(i) == IndexOf[req[i].line]

\* The frame the latched request is filled into or upgraded in.
VictimFrame(i) == <<ReqIndex(i), victim[i]>>

\* flush_req is one wire from the sequencer to every cache, high from S_L1 to
\* S_DONE.
flush_req == fctrl # "IDLE"

\* The request lines of the bus: bus_req_valid is high in exactly these states.
Requesting(i) == state[i] \in {"EVICT", "REQ", "FLUSH_WB"}

\* Mutant of snoop_allowed: a cache that waits for its own grant does not answer.
snoop_allowed_idle(i) == state[i] = "IDLE"

\* The states in which a cache serves a snoop.
snoop_allowed(i) == state[i] \in {"IDLE", "EVICT", "REQ"}

FetchType(i) == IF req[i].write THEN "RDX" ELSE "RD"

\* The bus request for the line the core asked for.
FetchReq(i) == [type |-> FetchType(i), line |-> req[i].line, wdata |-> NoData]

----------------------------------------------------------------------------
Init ==
    /\ state = [i \in Masters |-> "IDLE"]
    /\ mesi = [i \in Masters |-> [f \in Frames |-> "I"]]
    /\ tag = [i \in Masters |-> [f \in Frames |-> NoData]]
    /\ data = [i \in Masters |-> [f \in Frames |-> NoData]]
    /\ rep_ptr = [i \in Masters |-> [s \in Sets |-> 0]]
    /\ req = [i \in Masters |-> NoReq]
    /\ victim = [i \in Masters |-> 0]
    /\ bus_req = [i \in Masters |-> NoBusReq]
    /\ rdata = [i \in Masters |-> NoData]
    /\ fl_pos = [i \in Masters |-> <<0, 0>>]
    /\ flush_seen = {}
    /\ fstate = "IDLE"
    /\ f_grant = 0
    /\ rr_ptr = 0
    /\ cur = NoCur
    /\ snp_pending = {}
    /\ hit_acc = FALSE
    /\ dirty_acc = FALSE
    /\ dirty_data = NoData
    /\ queue = <<>>
    /\ estate = "IDLE"
    /\ l2_accepted = FALSE
    /\ e_rdata = NoData
    /\ l2_busy = FALSE
    /\ l2 \in [Lines -> LineData]
    /\ fctrl = "IDLE"
    /\ latest = l2

----------------------------------------------------------------------------
(* The core side of an L1. *)

\* The snoop port has priority: a request that finds a snoop waiting is not
\* accepted in that cycle.
SnoopWaiting(i) == fstate = "SNOOP" /\ i \in snp_pending

\* S_IDLE: accept a request.  The line returned by the last read is gone.
CoreRequest(i) ==
    /\ state[i] = "IDLE" /\ ~flush_req /\ ~SnoopWaiting(i)
    /\ \E r \in Workload[i] : req' = [req EXCEPT ![i] = r]
    /\ state' = [state EXCEPT ![i] = "LOOKUP"]
    /\ rdata' = [rdata EXCEPT ![i] = NoData]
    /\ UNCHANGED <<mesi, tag, data, rep_ptr, victim, bus_req, fl_pos,
                   flush_seen, frontvars, enginevars, l2vars, fctrl, latest>>

\* S_LOOKUP: a read hit in any state is served locally.
LookupReadHit(i) ==
    /\ state[i] = "LOOKUP" /\ ~req[i].write /\ Hits(i, req[i].line) # {}
    /\ rdata' = [rdata EXCEPT ![i] = data[i][HitFrame(i, req[i].line)]]
    /\ state' = [state EXCEPT ![i] = "IDLE"]
    /\ req' = [req EXCEPT ![i] = NoReq]
    /\ UNCHANGED <<mesi, tag, data, rep_ptr, victim, bus_req, fl_pos,
                   flush_seen, frontvars, enginevars, l2vars, fctrl, latest>>

\* The store of i's latched request reaches the copy of the line in frame f
\* and is from then on what every reader must see.
Commit(i, f, old) ==
    /\ data' = [data EXCEPT ![i][f] = merge_line(old, req[i].wdata, req[i].be)]
    /\ mesi' = [mesi EXCEPT ![i][f] = "M"]
    /\ latest' = [latest EXCEPT ![req[i].line] =
                    merge_line(@, req[i].wdata, req[i].be)]

\* S_LOOKUP: a write hit in M, or in E with the silent upgrade to M.
LookupWriteHit(i) ==
    /\ state[i] = "LOOKUP" /\ req[i].write /\ Hits(i, req[i].line) # {}
    /\ LET f == HitFrame(i, req[i].line)
       IN  /\ mesi[i][f] \in {"M", "E"}
           /\ Commit(i, f, data[i][f])
    /\ state' = [state EXCEPT ![i] = "IDLE"]
    /\ req' = [req EXCEPT ![i] = NoReq]
    /\ UNCHANGED <<tag, rep_ptr, victim, bus_req, rdata, fl_pos,
                   flush_seen, frontvars, enginevars, l2vars, fctrl>>

\* S_LOOKUP: a write hit in S has to broadcast BusUpgr first.
LookupUpgrade(i) ==
    /\ state[i] = "LOOKUP" /\ req[i].write /\ Hits(i, req[i].line) # {}
    /\ mesi[i][HitFrame(i, req[i].line)] = "S"
    /\ victim' = [victim EXCEPT ![i] = HitWay(i, req[i].line)]
    /\ bus_req' = [bus_req EXCEPT ![i] =
                     [type |-> "UPGR", line |-> req[i].line, wdata |-> NoData]]
    /\ state' = [state EXCEPT ![i] = "REQ"]
    /\ UNCHANGED <<mesi, tag, data, rep_ptr, req, rdata, fl_pos, flush_seen,
                   frontvars, enginevars, l2vars, fctrl, latest>>

\* Mutant of Allocate: the replacement pointer does not wrap.
AllocateNoWrap(i) ==
    LET s == ReqIndex(i)
    IN  /\ Hits(i, req[i].line) = {}
        /\ victim' = [victim EXCEPT ![i] = victim_way(i, s)]
        /\ rep_ptr' = IF InvalidWays(i, s) = {}
                      THEN [rep_ptr EXCEPT ![i][s] = @ + 1]
                      ELSE rep_ptr

\* S_LOOKUP, miss: the way to allocate; the replacement pointer moves on when
\* no way of the set was free.
Allocate(i) ==
    LET s == ReqIndex(i)
    IN  /\ Hits(i, req[i].line) = {}
        /\ victim' = [victim EXCEPT ![i] = victim_way(i, s)]
        /\ rep_ptr' = IF InvalidWays(i, s) = {}
                      THEN [rep_ptr EXCEPT ![i][s] = (@ + 1) % WAYS]
                      ELSE rep_ptr

\* A dirty victim is written back first.  It stays resident (M) until the fill.
LookupMissDirty(i) ==
    LET v == <<ReqIndex(i), victim_way(i, ReqIndex(i))>>
    IN  /\ state[i] = "LOOKUP" /\ Allocate(i)
        /\ mesi[i][v] = "M"
        /\ bus_req' = [bus_req EXCEPT ![i] =
                         [type |-> "WB", line |-> tag[i][v], wdata |-> data[i][v]]]
        /\ state' = [state EXCEPT ![i] = "EVICT"]
        /\ UNCHANGED <<mesi, tag, data, req, rdata, fl_pos, flush_seen,
                       frontvars, enginevars, l2vars, fctrl, latest>>

\* A clean victim is dropped without telling anyone.
LookupMissClean(i) ==
    LET v == <<ReqIndex(i), victim_way(i, ReqIndex(i))>>
    IN  /\ state[i] = "LOOKUP" /\ Allocate(i)
        /\ mesi[i][v] # "M"
        /\ mesi' = [mesi EXCEPT ![i][v] = "I"]
        /\ bus_req' = [bus_req EXCEPT ![i] = FetchReq(i)]
        /\ state' = [state EXCEPT ![i] = "REQ"]
        /\ UNCHANGED <<tag, data, req, rdata, fl_pos, flush_seen,
                       frontvars, enginevars, l2vars, fctrl, latest>>

\* S_FILL: the response of the bus completes the latched request of i.
Fill(i, d, shared) ==
    LET f == VictimFrame(i)
    IN  /\ state' = [state EXCEPT ![i] = "IDLE"]
        /\ req' = [req EXCEPT ![i] = NoReq]
        /\ bus_req' = [bus_req EXCEPT ![i] = NoBusReq]
        /\ victim' = [victim EXCEPT ![i] = 0]
        /\ \/ /\ bus_req[i].type = "RD"
              /\ data' = [data EXCEPT ![i][f] = d]
              /\ tag' = [tag EXCEPT ![i][f] = req[i].line]
              /\ mesi' = [mesi EXCEPT ![i][f] = IF shared THEN "S" ELSE "E"]
              /\ rdata' = [rdata EXCEPT ![i] = d]
              /\ UNCHANGED latest
           \/ /\ bus_req[i].type = "RDX"
              /\ tag' = [tag EXCEPT ![i][f] = req[i].line]
              /\ Commit(i, f, d)
              /\ UNCHANGED rdata
           \/ /\ bus_req[i].type = "UPGR"
              /\ Commit(i, f, data[i][f])
              /\ UNCHANGED <<tag, rdata>>
        /\ UNCHANGED <<rep_ptr, fl_pos, flush_seen>>

----------------------------------------------------------------------------
(* The flush walk of an L1. *)

\* The walk position after way w of set s.
NextPos(p) == IF p[2] = WAYS - 1 THEN <<p[1] + 1, 0>> ELSE <<p[1], p[2] + 1>>

\* S_IDLE: start the one walk of this assertion of flush_req.  A snoop that
\* waits for this cache is served in the very cycle it is idle, so the walk
\* never starts with one unserved.
FlushStart(i) ==
    /\ state[i] = "IDLE" /\ flush_req /\ i \notin flush_seen
    /\ ~SnoopWaiting(i)
    /\ state' = [state EXCEPT ![i] = "FLUSH"]
    /\ fl_pos' = [fl_pos EXCEPT ![i] = <<0, 0>>]
    /\ UNCHANGED <<mesi, tag, data, rep_ptr, req, victim, bus_req, rdata,
                   flush_seen, frontvars, enginevars, l2vars, fctrl, latest>>

\* S_FLUSH: drop a line that is not Modified.
FlushDrop(i) ==
    /\ state[i] = "FLUSH" /\ fl_pos[i][1] < SETS
    /\ mesi[i][fl_pos[i]] # "M"
    /\ mesi' = [mesi EXCEPT ![i][fl_pos[i]] = "I"]
    /\ fl_pos' = [fl_pos EXCEPT ![i] = NextPos(@)]
    /\ UNCHANGED <<state, tag, data, rep_ptr, req, victim, bus_req, rdata,
                   flush_seen, frontvars, enginevars, l2vars, fctrl, latest>>

\* S_FLUSH: ask the bus to write a Modified line back.
FlushWriteback(i) ==
    /\ state[i] = "FLUSH" /\ fl_pos[i][1] < SETS
    /\ mesi[i][fl_pos[i]] = "M"
    /\ bus_req' = [bus_req EXCEPT ![i] =
                     [type |-> "WB", line |-> tag[i][fl_pos[i]],
                      wdata |-> data[i][fl_pos[i]]]]
    /\ state' = [state EXCEPT ![i] = "FLUSH_WB"]
    /\ UNCHANGED <<mesi, tag, data, rep_ptr, req, victim, rdata, fl_pos,
                   flush_seen, frontvars, enginevars, l2vars, fctrl, latest>>

\* S_FLUSH past the last set: flush_done.
FlushDone(i) ==
    /\ state[i] = "FLUSH" /\ fl_pos[i][1] = SETS
    /\ state' = [state EXCEPT ![i] = "IDLE"]
    /\ fl_pos' = [fl_pos EXCEPT ![i] = <<0, 0>>]
    /\ flush_seen' = flush_seen \union {i}
    /\ UNCHANGED <<mesi, tag, data, rep_ptr, req, victim, bus_req, rdata,
                   frontvars, enginevars, l2vars, fctrl, latest>>

----------------------------------------------------------------------------
(* Crossbar front-end: grant, snoop broadcast, coherency decision. *)

QueuedLines == {queue[k].line : k \in 1 .. Len(queue)}

\* Mutant of conflict: the queue is not compared.
conflict_front(i) == fstate # "IDLE" /\ cur.line = bus_req[i].line

\* The line of a request is that of a transaction still in flight.
conflict(i) == \/ bus_req[i].line \in QueuedLines
               \/ fstate # "IDLE" /\ cur.line = bus_req[i].line

Grantable(i) == Requesting(i) /\ ~conflict(i)

\* The masters in the order the arbiter tries them: distance from rr_ptr.
Distance(i) == IF i >= rr_ptr THEN i - rr_ptr ELSE i - rr_ptr + NUM_MASTERS

\* Mutant of ArbGrant: grants while the queue is full.
ArbGrantFull(i) ==
    /\ fstate = "IDLE" /\ Len(queue) <= Q_DEPTH
    /\ Grantable(i)
    /\ \A j \in Masters : Grantable(j) => Distance(i) <= Distance(j)

\* The round-robin choice over the unconflicted requesters.
ArbGrant(i) ==
    /\ fstate = "IDLE" /\ Len(queue) < Q_DEPTH
    /\ Grantable(i)
    /\ \A j \in Masters : Grantable(j) => Distance(i) <= Distance(j)

\* Mutant of Advance: the arbiter stays with the master it served.
AdvanceNot(i) == rr_ptr' = i

Advance(i) == rr_ptr' = IF i = NUM_MASTERS - 1 THEN 0 ELSE i + 1

\* F_IDLE granting a write-back: straight to the queue.  The grant is the
\* completion: an evicting cache goes on to fetch, a flushing one to the next
\* line.
GrantWB(i) ==
    /\ ArbGrant(i) /\ bus_req[i].type = "WB"
    /\ queue' = Append(queue,
          [master |-> i, wr |-> TRUE, respond |-> FALSE, shared |-> FALSE,
           line |-> bus_req[i].line, wdata |-> bus_req[i].wdata])
    /\ Advance(i)
    /\ \/ /\ state[i] = "EVICT"
          /\ state' = [state EXCEPT ![i] = "REQ"]
          /\ bus_req' = [bus_req EXCEPT ![i] = FetchReq(i)]
          /\ UNCHANGED <<mesi, fl_pos>>
       \/ /\ state[i] = "FLUSH_WB"
          /\ state' = [state EXCEPT ![i] = "FLUSH"]
          /\ bus_req' = [bus_req EXCEPT ![i] = NoBusReq]
          /\ mesi' = [mesi EXCEPT ![i][fl_pos[i]] = "I"]
          /\ fl_pos' = [fl_pos EXCEPT ![i] = NextPos(@)]
    /\ UNCHANGED <<tag, data, rep_ptr, req, victim, rdata, flush_seen,
                   fstate, f_grant, cur, snp_pending, hit_acc, dirty_acc,
                   dirty_data, estate, l2_accepted, e_rdata, l2vars, fctrl,
                   latest>>

\* F_IDLE granting anything else: snoop every other cache.
GrantSnoop(i) ==
    /\ ArbGrant(i) /\ bus_req[i].type \in SnoopTypes
    /\ fstate' = "SNOOP"
    /\ f_grant' = i
    /\ cur' = [type |-> bus_req[i].type, line |-> bus_req[i].line]
    /\ snp_pending' = Masters \ {i}
    /\ hit_acc' = FALSE
    /\ dirty_acc' = FALSE
    /\ dirty_data' = NoData
    /\ Advance(i)
    /\ state' = [state EXCEPT ![i] = "FILL"]
    /\ UNCHANGED <<mesi, tag, data, rep_ptr, req, victim, bus_req, rdata,
                   fl_pos, flush_seen, enginevars, l2vars, fctrl, latest>>

\* Mutant of SnoopedState: an upgrade leaves the other copies Shared.
SnoopedStateUpgrade(type) == IF type = "RDX" THEN "I" ELSE "S"

\* A snoop of this type leaves a copy Shared or removes it.
SnoopedState(type) == IF type = "RD" THEN "S" ELSE "I"

SnoopHits(k) == Hits(k, cur.line) # {}

\* Mutant of SomeHit: the last answer alone counts.
LastHit(k) == SnoopHits(k)

\* The answers collected so far, that of k included, have found a copy.
SomeHit(k) == hit_acc \/ SnoopHits(k)

\* Mutant of LosesUpgrade and of LosesVictim: the race is overlooked.
NeverLoses(k) == FALSE

\* Race 1: the snoop takes the copy a waiting upgrade of k is for.
LosesUpgrade(k) ==
    /\ SnoopHits(k) /\ state[k] = "REQ" /\ bus_req[k].type = "UPGR"
    /\ cur.type # "RD" /\ bus_req[k].line = cur.line

\* Race 2: the snoop takes the victim a waiting write-back of k is for.
LosesVictim(k) ==
    SnoopHits(k) /\ state[k] = "EVICT" /\ bus_req[k].line = cur.line

\* Cache k serves the snoop and the crossbar collects the answer.  An upgrade
\* that has lost its copy becomes a read for ownership; a write-back that has
\* lost its victim is cancelled, and the fetch is next.
SnoopAnswer(k) ==
    LET f     == HitFrame(k, cur.line)
        dirty == SnoopHits(k) /\ mesi[k][f] = "M"
    IN  /\ SnoopWaiting(k) /\ snoop_allowed(k)
        /\ snp_pending' = snp_pending \ {k}
        /\ hit_acc' = SomeHit(k)
        /\ dirty_acc' = (dirty_acc \/ dirty)
        /\ dirty_data' = IF dirty THEN data[k][f] ELSE dirty_data
        /\ mesi' = IF SnoopHits(k)
                   THEN [mesi EXCEPT ![k][f] = SnoopedState(cur.type)]
                   ELSE mesi
        /\ bus_req' = [bus_req EXCEPT ![k] =
                         IF LosesUpgrade(k) THEN [@ EXCEPT !.type = "RDX"]
                         ELSE IF LosesVictim(k) THEN FetchReq(k) ELSE @]
        /\ state' = [state EXCEPT ![k] = IF LosesVictim(k) THEN "REQ" ELSE @]
        /\ UNCHANGED <<tag, data, rep_ptr, req, victim, rdata, fl_pos,
                       flush_seen, fstate, f_grant, rr_ptr, cur, enginevars,
                       l2vars, fctrl, latest>>

\* Every answer is in.
Decided == fstate = "SNOOP" /\ snp_pending = {}

\* The snoop phase is over and its registers are dead.
ClearFront ==
    /\ fstate' = "IDLE"
    /\ f_grant' = 0
    /\ cur' = NoCur
    /\ hit_acc' = FALSE
    /\ dirty_acc' = FALSE
    /\ dirty_data' = NoData
    /\ UNCHANGED <<rr_ptr, snp_pending>>

\* An upgrade, and a read for ownership a dirty copy answered, need no L2.
AnswersFast == cur.type = "UPGR" \/ (dirty_acc /\ cur.type = "RDX")

DecideFast ==
    /\ Decided /\ AnswersFast
    /\ fstate' = "FAST"
    /\ UNCHANGED <<l1vars, f_grant, rr_ptr, cur, snp_pending, hit_acc,
                   dirty_acc, dirty_data, enginevars, l2vars, fctrl, latest>>

\* Mutant of DecideQueue: a dirty snoop hit is not written through.
DecideQueueNoWrite ==
    /\ Decided /\ ~AnswersFast
    /\ queue' = Append(queue,
          [master |-> f_grant, wr |-> FALSE, respond |-> TRUE,
           shared |-> dirty_acc \/ (cur.type = "RD" /\ hit_acc),
           line |-> cur.line, wdata |-> NoData])
    /\ ClearFront
    /\ UNCHANGED <<l1vars, estate, l2_accepted, e_rdata, l2vars, fctrl, latest>>

\* The transaction goes to the queue: a read that hit a dirty copy writes it
\* through to the L2 and is answered with it, any other fetches from the L2.
DecideQueue ==
    /\ Decided /\ ~AnswersFast
    /\ queue' = Append(queue,
          [master |-> f_grant, wr |-> dirty_acc, respond |-> TRUE,
           shared |-> dirty_acc \/ (cur.type = "RD" /\ hit_acc),
           line |-> cur.line,
           wdata |-> IF dirty_acc THEN dirty_data ELSE NoData])
    /\ ClearFront
    /\ UNCHANGED <<l1vars, estate, l2_accepted, e_rdata, l2vars, fctrl, latest>>

\* Mutant of FastResponse: the front-end does not leave F_FAST.
FastResponseStays ==
    /\ fstate = "FAST" /\ estate # "RESP"
    /\ Fill(f_grant, dirty_data, dirty_acc)
    /\ UNCHANGED <<frontvars, enginevars, l2vars, fctrl>>

\* F_FAST: the response goes out when the engine is not using the bus.
FastResponse ==
    /\ fstate = "FAST" /\ estate # "RESP"
    /\ Fill(f_grant, dirty_data, dirty_acc)
    /\ ClearFront
    /\ UNCHANGED <<enginevars, l2vars, fctrl>>

----------------------------------------------------------------------------
(* L2 engine: drains the queue in order, one operation at the port. *)

\* The oldest transaction, the one at the L2 port.
Head0 == queue[1]

EngineStart ==
    /\ estate = "IDLE" /\ queue # <<>>
    /\ estate' = IF Head0.wr THEN "WR" ELSE "RD"
    /\ l2_accepted' = FALSE
    /\ UNCHANGED <<l1vars, frontvars, queue, e_rdata, l2vars, fctrl, latest>>

\* The L2 is ready and takes the request; it is busy until it has served it.
L2Accept ==
    /\ estate \in {"WR", "RD"} /\ ~l2_accepted /\ ~l2_busy
    /\ l2_accepted' = TRUE
    /\ l2_busy' = TRUE
    /\ UNCHANGED <<l1vars, frontvars, queue, estate, e_rdata, l2, fctrl, latest>>

\* The L2 performs the write, from the live address and data, and is ready.
L2Write ==
    /\ l2_busy /\ estate = "WR"
    /\ l2' = [l2 EXCEPT ![Head0.line] = Head0.wdata]
    /\ l2_busy' = FALSE
    /\ UNCHANGED <<l1vars, frontvars, enginevars, fctrl, latest>>

\* The L2 answers a read.
L2Read ==
    /\ l2_busy /\ estate = "RD"
    /\ e_rdata' = l2[Head0.line]
    /\ estate' = "RESP"
    /\ l2_accepted' = FALSE
    /\ l2_busy' = FALSE
    /\ UNCHANGED <<l1vars, frontvars, queue, l2, fctrl, latest>>

\* E_WR, phase 2: the L2 is ready again.  A write-back retires silently; a
\* write-through goes on to answer its reader with the data it wrote.
EngineWriteDone ==
    /\ estate = "WR" /\ l2_accepted /\ ~l2_busy
    /\ l2_accepted' = FALSE
    /\ \/ /\ Head0.respond
          /\ e_rdata' = Head0.wdata
          /\ estate' = "RESP"
          /\ UNCHANGED queue
       \/ /\ ~Head0.respond
          /\ queue' = Tail(queue)
          /\ estate' = "IDLE"
          /\ UNCHANGED e_rdata
    /\ UNCHANGED <<l1vars, frontvars, l2vars, fctrl, latest>>

\* E_RESP: answer the master and retire the entry.
EngineResp ==
    /\ estate = "RESP"
    /\ Fill(Head0.master, e_rdata, Head0.shared)
    /\ queue' = Tail(queue)
    /\ estate' = "IDLE"
    /\ e_rdata' = NoData
    /\ UNCHANGED <<frontvars, l2_accepted, l2vars, fctrl>>

----------------------------------------------------------------------------
(* Flush sequencer. *)

\* Nothing in flight anywhere in the crossbar.
bus_idle == fstate = "IDLE" /\ queue = <<>> /\ estate = "IDLE"

\* S_IDLE: a fence asks for a flush; every L1 is frozen from here on.
FenceStart ==
    /\ Fences /\ fctrl = "IDLE"
    /\ fctrl' = "L1"
    /\ UNCHANGED <<l1vars, frontvars, enginevars, l2vars, latest>>

\* S_L1: every cache has reported flush_done.
FenceDrain ==
    /\ fctrl = "L1" /\ flush_seen = Masters
    /\ fctrl' = "DRAIN"
    /\ UNCHANGED <<l1vars, frontvars, enginevars, l2vars, latest>>

\* Mutant of FenceL2: the crossbar is not waited for.
FenceL2NoDrain ==
    /\ fctrl = "DRAIN"
    /\ fctrl' = "L2"
    /\ UNCHANGED <<l1vars, frontvars, enginevars, l2vars, latest>>

\* S_DRAIN: the crossbar is quiescent; the L2 is flushed next.
FenceL2 ==
    /\ fctrl = "DRAIN" /\ bus_idle
    /\ fctrl' = "L2"
    /\ UNCHANGED <<l1vars, frontvars, enginevars, l2vars, latest>>

\* S_L2: the L2 has written everything back.
FenceComplete ==
    /\ fctrl = "L2"
    /\ fctrl' = "DONE"
    /\ UNCHANGED <<l1vars, frontvars, enginevars, l2vars, latest>>

\* S_DONE: release the caches, which rearms their one-walk latches.
FenceRelease ==
    /\ fctrl = "DONE"
    /\ fctrl' = "IDLE"
    /\ flush_seen' = {}
    /\ UNCHANGED <<state, mesi, tag, data, rep_ptr, req, victim, bus_req, rdata,
                   fl_pos, frontvars, enginevars, l2vars, latest>>

----------------------------------------------------------------------------
Lookup(i) == \/ LookupReadHit(i)
             \/ LookupWriteHit(i)
             \/ LookupUpgrade(i)
             \/ LookupMissDirty(i)
             \/ LookupMissClean(i)

FlushWalk(i) == \/ FlushStart(i)
                \/ FlushDrop(i)
                \/ FlushWriteback(i)
                \/ FlushDone(i)

Decide == DecideFast \/ DecideQueue

Engine == EngineStart \/ EngineWriteDone \/ EngineResp

L2Port == L2Accept \/ L2Write \/ L2Read

Fence == FenceStart \/ FenceDrain \/ FenceL2 \/ FenceComplete \/ FenceRelease

Next ==
    \/ \E i \in Masters : \/ CoreRequest(i)
                          \/ Lookup(i)
                          \/ FlushWalk(i)
                          \/ GrantWB(i)
                          \/ GrantSnoop(i)
                          \/ SnoopAnswer(i)
    \/ Decide
    \/ FastResponse
    \/ Engine
    \/ L2Port
    \/ Fence

Spec == Init /\ [][Next]_vars

----------------------------------------------------------------------------
(* Properties. *)

\* The registers of the caches.
L1TypeOK ==
    /\ state \in [Masters -> L1States]
    /\ mesi \in [Masters -> [Frames -> Mesi]]
    /\ tag \in [Masters -> [Frames -> Lines \union {NoData}]]
    /\ data \in [Masters -> [Frames -> LineData \union {NoData}]]
    /\ rep_ptr \in [Masters -> [Sets -> Ways]]
    /\ req \in [Masters -> CoreReqs \union {NoReq}]
    /\ victim \in [Masters -> Ways]
    /\ bus_req \in [Masters -> BusReqs \union {NoBusReq}]
    /\ rdata \in [Masters -> LineData \union {NoData}]
    /\ fl_pos \in [Masters -> (0 .. SETS) \X Ways]
    /\ flush_seen \in SUBSET Masters

\* The registers of the crossbar, the sequencer and the L2 port.
BusTypeOK ==
    /\ fstate \in {"IDLE", "SNOOP", "FAST"}
    /\ f_grant \in Masters
    /\ rr_ptr \in Masters
    /\ cur \in [type : SnoopTypes, line : Lines \union {NoData}]
    /\ snp_pending \in SUBSET Masters
    /\ hit_acc \in BOOLEAN
    /\ dirty_acc \in BOOLEAN
    /\ dirty_data \in LineData \union {NoData}
    /\ queue \in Seq(QEntries)
    /\ estate \in {"IDLE", "WR", "RD", "RESP"}
    /\ l2_accepted \in BOOLEAN
    /\ e_rdata \in LineData \union {NoData}
    /\ l2_busy \in BOOLEAN
    /\ l2 \in [Lines -> LineData]
    /\ fctrl \in {"IDLE", "L1", "DRAIN", "L2", "DONE"}
    /\ latest \in [Lines -> LineData]

\* Every register holds a value of its declared width, and the walk position
\* leaves the cache only when the walk is over.
TypeOK == L1TypeOK /\ BusTypeOK

\* MESI exclusivity: while a cache may write a line without asking (M or E), no
\* other cache holds a copy of it, whatever snoops, upgrades, evictions and
\* write-backs are in flight.
SingleOwner ==
    \A i, j \in Masters, f, g \in Frames :
        (/\ i # j
         /\ mesi[i][f] \in {"M", "E"}
         /\ mesi[j][g] # "I") => tag[i][f] # tag[j][g]

\* A line sits in at most one frame of a cache, so the search loops that keep
\* the last match find the only one.
OneFramePerLine ==
    \A i \in Masters, f, g \in Frames :
        (f # g /\ mesi[i][f] # "I" /\ mesi[i][g] # "I") => tag[i][f] # tag[i][g]

\* Every valid copy, a victim awaiting its write-back included, has the value
\* the committed stores give the line: no cache can read a stale byte.
CopiesAreLatest ==
    \A i \in Masters, f \in Frames :
        mesi[i][f] # "I" => data[i][f] = latest[tag[i][f]]

\* The latest value of a line is never lost: it is in the L2, or in a Modified
\* copy, or on its way to the L2 in the queue, or carried by the snoop phase.
LatestSurvives ==
    \A l \in Lines :
        \/ l2[l] = latest[l]
        \/ \E i \in Masters, f \in Frames : /\ mesi[i][f] = "M"
                                            /\ tag[i][f] = l
        \/ \E k \in 1 .. Len(queue) : /\ queue[k].wr
                                      /\ queue[k].line = l
                                      /\ queue[k].wdata = latest[l]
        \/ /\ fstate # "IDLE" /\ cur.line = l
           /\ dirty_acc /\ dirty_data = latest[l]

\* Per-line serialisation: the transactions in flight, in the front-end and in
\* the queue, are on different lines.
OneTransactionPerLine ==
    /\ \A m, n \in 1 .. Len(queue) : m # n => queue[m].line # queue[n].line
    /\ fstate # "IDLE" => cur.line \notin QueuedLines

\* The queue never overflows: the grant reserves the slot the decision at the
\* end of the snoop phase takes without looking.
QueueHasRoom ==
    Len(queue) <= (IF fstate = "SNOOP" THEN Q_DEPTH - 1 ELSE Q_DEPTH)

\* A response pulse is lost on a cache that is not in S_FILL: whenever the
\* front-end or the queue owes a cache a response, the cache is in S_FILL and
\* its latched request is the one the response is for.
ResponsesAreAwaited ==
    /\ fstate # "IDLE" => /\ state[f_grant] = "FILL"
                          /\ bus_req[f_grant].line = cur.line
                          /\ bus_req[f_grant].type = cur.type
    /\ \A k \in 1 .. Len(queue) :
          queue[k].respond => /\ state[queue[k].master] = "FILL"
                              /\ bus_req[queue[k].master].line = queue[k].line

\* Once the sequencer has moved on to the L2, the L1s hold nothing, the bus
\* carries nothing, and the L2 alone has every committed store.
FlushedToL2 ==
    fctrl \in {"L2", "DONE"} =>
        /\ \A i \in Masters, f \in Frames : mesi[i][f] = "I"
        /\ \A i \in Masters : state[i] = "IDLE"
        /\ bus_idle
        /\ l2 = latest

----------------------------------------------------------------------------
(* What every reachable state satisfies besides: with it TypeOK and         *)
(* SingleOwner are inductive.                                               *)

\* A valid frame has been filled, and what has been filled holds a line.
FramesFit ==
    \A i \in Masters, f \in Frames :
        /\ mesi[i][f] # "I" => tag[i][f] \in Lines
        /\ tag[i][f] \in Lines => data[i][f] \in LineData

\* What a cache asks the bus for fits its state and its latched request.
RequestFits(i) ==
    /\ state[i] \in {"LOOKUP", "EVICT", "REQ", "FILL"} => req[i] \in CoreReqs
    /\ state[i] \in {"EVICT", "FLUSH_WB"} =>
          /\ bus_req[i].type = "WB"
          /\ bus_req[i].line \in Lines
          /\ bus_req[i].wdata \in LineData
    /\ state[i] \in {"REQ", "FILL"} =>
          /\ bus_req[i].type \in SnoopTypes
          /\ bus_req[i].line = req[i].line
          /\ bus_req[i].type # "RD" => req[i].write
          /\ bus_req[i].type = "UPGR" => tag[i][VictimFrame(i)] \in Lines
    /\ state[i] = "FLUSH_WB" => fl_pos[i] \in Frames

RequestsFit == \A i \in Masters : RequestFits(i)

\* The front-end registers fit the phase of the transaction.
FrontFits ==
    /\ fstate # "IDLE" => cur.line \in Lines
    /\ fstate # "SNOOP" => snp_pending = {}
    /\ f_grant \notin snp_pending
    /\ dirty_acc => dirty_data \in LineData
    /\ fstate = "FAST" => cur.type # "RD" /\ (cur.type = "RDX" => dirty_acc)

\* A queued write carries a line, everything else is a read that answers, and
\* the engine works on the head of the queue.
EngineFits ==
    /\ \A k \in 1 .. Len(queue) : IF queue[k].wr THEN queue[k].wdata \in LineData
                                                 ELSE queue[k].respond
    /\ \A k \in 1 .. Len(queue) :
          queue[k].respond => bus_req[queue[k].master].type \in {"RD", "RDX"}
    /\ estate # "IDLE" => queue # <<>>
    /\ estate = "WR" => Head0.wr
    /\ estate = "RD" => ~Head0.wr
    /\ estate = "RESP" => Head0.respond /\ e_rdata \in LineData

TypeInv ==
    /\ TypeOK
    /\ OneTransactionPerLine
    /\ ResponsesAreAwaited
    /\ FramesFit
    /\ RequestsFit
    /\ FrontFits
    /\ EngineFits

\* A copy sits in the set its line maps to, so looking in one set is enough.
CopiesInTheirSet ==
    \A i \in Masters, f \in Frames :
        mesi[i][f] # "I" => IndexOf[tag[i][f]] = f[1]

\* Cache i holds no copy of line l.
Lacks(i, l) == \A f \in Frames : mesi[i][f] # "I" => tag[i][f] # l

\* A fetch is for a line the cache lacks, an upgrade for one it shares.
RequestFitsCopies(i) ==
    /\ state[i] = "EVICT" => Lacks(i, req[i].line)
    /\ state[i] \in {"REQ", "FILL"} =>
          IF bus_req[i].type = "UPGR"
          THEN /\ mesi[i][VictimFrame(i)] = "S"
               /\ tag[i][VictimFrame(i)] = req[i].line
          ELSE Lacks(i, req[i].line)

RequestsFitCopies == \A i \in Masters : RequestFitsCopies(i)

\* Cache j keeps of line l only what a transaction of another cache leaves it:
\* nothing if that cache is to own the line, at most a Shared copy otherwise.
LeftBehind(j, l, owned) ==
    \A f \in Frames : (mesi[j][f] # "I" /\ tag[j][f] = l) =>
                          ~owned /\ mesi[j][f] = "S"

\* A cache that has answered keeps no more of the line than the answer allows,
\* and nothing at all if the snoop has found no copy.
AnsweredSnoops ==
    fstate # "IDLE" =>
        \A j \in Masters \ ({f_grant} \union snp_pending) :
            LeftBehind(j, cur.line, cur.type # "RD" \/ ~(hit_acc \/ dirty_acc))

\* A queued answer that hands out a line exclusively finds no other copy, and
\* one that hands it out Shared no other owner.
QueuedAnswers ==
    \A k \in 1 .. Len(queue) :
        queue[k].respond =>
            /\ queue[k].shared => bus_req[queue[k].master].type = "RD"
            /\ \A j \in Masters \ {queue[k].master} :
                  LeftBehind(j, queue[k].line, ~queue[k].shared)

CoherenceInv ==
    /\ CopiesInTheirSet
    /\ OneFramePerLine
    /\ RequestsFitCopies
    /\ AnsweredSnoops
    /\ QueuedAnswers
    /\ SingleOwner

IInv == TypeInv /\ CoherenceInv

----------------------------------------------------------------------------
(* What every reachable state satisfies of the values of the lines: with it *)
(* CopiesAreLatest and LatestSurvives are inductive relative to IInv.       *)

L2Current(l) == l2[l] = latest[l]

\* Cache j may write its copy in frame f of line l.
Owns(j, f, l) == mesi[j][f] \in {"M", "E"} /\ tag[j][f] = l

\* A write-back that waits for its grant carries the latest value of a line
\* that is still Modified in the cache.
WritebackWaits(i) ==
    /\ state[i] = "EVICT" => /\ mesi[i][VictimFrame(i)] = "M"
                             /\ tag[i][VictimFrame(i)] = bus_req[i].line
    /\ state[i] = "FLUSH_WB" => /\ mesi[i][fl_pos[i]] = "M"
                                /\ tag[i][fl_pos[i]] = bus_req[i].line
    /\ state[i] \in {"EVICT", "FLUSH_WB"} =>
          bus_req[i].wdata = latest[bus_req[i].line]

WaitingWritebacks == \A i \in Masters : WritebackWaits(i)

\* The snoop phase carries the latest value once a dirty copy has answered, and
\* nobody is then left to change it.
FrontCarriesLatest ==
    (fstate # "IDLE" /\ dirty_acc) =>
        /\ dirty_data = latest[cur.line]
        /\ \A j \in Masters, f \in Frames : ~Owns(j, f, cur.line)

\* A cache that waits for a fill will overwrite its victim.
Overwrites(i) == state[i] \in {"REQ", "FILL"} /\ bus_req[i].type # "UPGR"

\* A queued write carries the latest value.  The one cache that may still own
\* the line is evicting it: it is waiting for the fill that overwrites it.
QueuedWritesAreLatest ==
    \A k \in 1 .. Len(queue) : queue[k].wr =>
        /\ queue[k].wdata = latest[queue[k].line]
        /\ \A j \in Masters, f \in Frames :
              Owns(j, f, queue[k].line) => Overwrites(j) /\ f = VictimFrame(j)

\* What the L2 is asked for it has, and what it has answered is the latest.
AnswersAreLatest ==
    /\ \A k \in 1 .. Len(queue) : ~queue[k].wr => L2Current(queue[k].line)
    /\ estate = "RESP" => e_rdata = latest[Head0.line] /\ L2Current(Head0.line)

\* The handshake of the engine with the L2: a write is over when the L2, having
\* accepted it, is ready again.
L2Handshake ==
    /\ l2_busy => l2_accepted
    /\ l2_accepted => estate \in {"WR", "RD"}
    /\ estate = "RD" /\ l2_accepted => l2_busy
    /\ estate = "WR" /\ l2_accepted /\ ~l2_busy => L2Current(Head0.line)

\* The latest value of line l is in the L2 or on its way there.
OnItsWay(l) ==
    \/ L2Current(l)
    \/ \E k \in 1 .. Len(queue) : queue[k].wr /\ queue[k].line = l

\* A Modified victim is overwritten only when its value is on its way.
VictimSaved(i) ==
    (Overwrites(i) /\ mesi[i][VictimFrame(i)] = "M") => OnItsWay(tag[i][VictimFrame(i)])

VictimsAreSaved == \A i \in Masters : VictimSaved(i)

DataInv ==
    /\ CopiesAreLatest
    /\ WaitingWritebacks
    /\ FrontCarriesLatest
    /\ QueuedWritesAreLatest
    /\ AnswersAreLatest
    /\ L2Handshake
    /\ VictimsAreSaved
    /\ LatestSurvives

----------------------------------------------------------------------------
(* What every reachable state satisfies of a fence.                         *)

\* The walk has passed frame f.
Walked(i, f) == \/ f[1] < fl_pos[i][1]
                \/ f[1] = fl_pos[i][1] /\ f[2] < fl_pos[i][2]

\* A cache walks only while the sequencer waits for the caches, and leaves
\* nothing behind; one that has finished stays empty and idle.
WalkInv ==
    \A i \in Masters :
        /\ state[i] \in {"FLUSH", "FLUSH_WB"} =>
              /\ fctrl = "L1" /\ i \notin flush_seen
              /\ \A f \in Frames : Walked(i, f) => mesi[i][f] = "I"
        /\ i \in flush_seen =>
              /\ state[i] = "IDLE"
              /\ \A f \in Frames : mesi[i][f] = "I"

\* The sequencer moves on with all caches done, and to the L2 with a quiet bus.
SequencerInv ==
    /\ fctrl = "IDLE" => flush_seen = {}
    /\ fctrl \in {"DRAIN", "L2", "DONE"} => flush_seen = Masters
    /\ fctrl \in {"L2", "DONE"} => bus_idle

FenceInv == WalkInv /\ SequencerInv

\* A core waits for a request exactly while its cache works on one, and the
\* kind of a fetch is that of the request.
RequestInFlight(i) ==
    /\ state[i] \in {"IDLE", "FLUSH", "FLUSH_WB"} => req[i] = NoReq
    /\ state[i] \in {"REQ", "FILL"} => (bus_req[i].type = "RD" <=> ~req[i].write)

RequestsInFlight == \A i \in Masters : RequestInFlight(i)

MemoryInv == DataInv /\ FenceInv /\ RequestsInFlight

----------------------------------------------------------------------------
\* What the cores see is one atomic memory: a request takes effect at the
\* moment it completes, on the line as every committed store left it.
Abstract == INSTANCE LineMemory WITH
    Cores <- Masters, Requests <- CoreReqs, NoRequest <- NoReq,
    Nothing <- NoData, Memory <- [Lines -> LineData], Merge <- merge_line,
    mem <- latest, pending <- req, result <- rdata

RefinesLineMemory == Abstract!Spec

\* Every machine is clocked, so an enabled transition is taken; cores and the
\* command processor need not ask for anything.  The L2 serves what it accepts.
Fairness ==
    /\ \A i \in Masters : /\ WF_vars(Lookup(i))
                          /\ WF_vars(FlushWalk(i))
                          /\ WF_vars(GrantWB(i))
                          /\ WF_vars(GrantSnoop(i))
                          /\ WF_vars(SnoopAnswer(i))
    /\ WF_vars(Decide)
    /\ WF_vars(FastResponse)
    /\ WF_vars(Engine)
    /\ WF_vars(L2Port)
    /\ WF_vars(FenceDrain \/ FenceL2 \/ FenceComplete \/ FenceRelease)

LiveSpec == Spec /\ Fairness

\* titan_x5_crossbar.v:215-216: "L1s answer snoops whenever they are not
\* mid-transaction on the bus": every snoop the crossbar sends is answered.
EverySnoopAnswered ==
    \A k \in Masters : (fstate = "SNOOP" /\ k \in snp_pending)
                         ~> ~(fstate = "SNOOP" /\ k \in snp_pending)

\* Every request a core has issued completes.
EveryRequestCompletes ==
    \A i \in Masters : (state[i] = "LOOKUP") ~> (state[i] = "IDLE")

=============================================================================
