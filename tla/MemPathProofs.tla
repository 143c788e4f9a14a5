---------------------------- MODULE MemPathProofs ----------------------------
(***************************************************************************)
(* Proofs about MemPath for every geometry of the L2, every depth of the   *)
(* clock-crossing FIFOs, every number of beats and every line content: no  *)
(* store is lost on the way to memory.                                     *)
(***************************************************************************)
EXTENDS MemPath, TLAPS, FiniteSetTheorems

USE GeometryAssumption, DataAssumption

-----------------------------------------------------------------------------
(* The greatest element of a set, which the way search and the youngest     *)
(* write of a queue choose.                                                 *)

Above(T, x) == {y \in T : x < y}

LEMMA StrictSubset ==
    ASSUME NEW D, NEW A, NEW B, A \subseteq B, A # B, B \subseteq D
    PROVE  <<A, B>> \in StrictSubsetOrdering(D)
BY DEF StrictSubsetOrdering

\* A nonempty set of integers within a finite one has a greatest element.
LEMMA GreatestExists ==
    ASSUME NEW D \in SUBSET Int, IsFiniteSet(D), NEW T \in SUBSET D, T # {}
    PROVE  \E x \in T : \A y \in T : y <= x
<1> DEFINE F == {Above(T, x) : x \in T}
<1>1. F \subseteq SUBSET D /\ F # {}
  <2>1. \A x \in T : Above(T, x) \in SUBSET D /\ Above(T, x) \in F
    BY DEF Above
  <2> QED
    BY <2>1
<1>2. \E X \in F : \A Y \in F : ~(<<Y, X>> \in StrictSubsetOrdering(D))
  <2>1. IsWellFoundedOn(StrictSubsetOrdering(D), SUBSET D)
    BY FS_StrictSubsetOrderingWellFounded, FS_FiniteSubsetsOfFinite
  <2> HIDE DEF F
  <2> QED
    BY <1>1, <2>1, WFMin
<1>3. PICK x \in T : \A y \in T : ~(<<Above(T, y), Above(T, x)>> \in StrictSubsetOrdering(D))
  BY <1>2
<1>4. ASSUME NEW y \in T, ~(y <= x) PROVE FALSE
  <2>1. T \subseteq Int
    OBVIOUS
  <2>2. x < y /\ ~(y < y) /\ \A z \in T : y < z => x < z
    BY <1>4, <2>1
  <2>3. /\ Above(T, y) \subseteq Above(T, x)
        /\ y \in Above(T, x) /\ y \notin Above(T, y)
    BY <1>4, <2>2 DEF Above
  <2>4. Above(T, y) \subseteq D /\ Above(T, x) \subseteq D
    BY DEF Above
  <2>5. <<Above(T, y), Above(T, x)>> \in StrictSubsetOrdering(D)
    <3>1. Above(T, y) # Above(T, x)
      BY <2>3
    <3> QED
      BY <2>3, <2>4, <3>1, StrictSubset
  <2> QED
    BY <1>3, <1>4, <2>5
<1> QED
  BY <1>4

\* There is only one.
LEMMA GreatestIs ==
    ASSUME NEW S \in SUBSET Int, NEW k \in S, \A j \in S : j <= k
    PROVE  (CHOOSE x \in S : \A j \in S : j <= x) = k
<1> DEFINE x == CHOOSE x \in S : \A j \in S : j <= x
<1>1. x \in S /\ \A j \in S : j <= x
  OBVIOUS
<1> HIDE DEF x
<1>2. x <= k /\ k <= x /\ x \in Int /\ k \in Int
  BY <1>1
<1>3. x = k
  BY <1>2
<1> QED
  BY <1>3 DEF x

\* The search loops find the way of a hit.
LEMMA HitIsFound ==
    ASSUME TypeOK, req \in Requests, Hits # {}
    PROVE  /\ HitFrame \in Frames /\ valid[HitFrame] /\ tag[HitFrame] = req.line
           /\ HitFrame[1] = IndexOf[req.line]
<1>1. Ways \in SUBSET Int /\ IsFiniteSet(Ways)
  BY FS_Interval DEF Ways
<1>2. \E w \in Hits : \A v \in Hits : v <= w
  BY <1>1, GreatestExists DEF Hits
<1> DEFINE w == CHOOSE w \in Hits : \A v \in Hits : v <= w
<1>3. w \in Hits
  BY <1>2
<1> HIDE DEF w
<1>4. HitFrame = <<IndexOf[req.line], w>> /\ req.line \in Lines /\ w \in Ways
  BY <1>3 DEF HitFrame, Requests, Hits, w
<1>5. /\ HitFrame \in Frames /\ HitFrame[1] = IndexOf[req.line]
  BY <1>4 DEF Frames
<1>6. valid[HitFrame] /\ tag[HitFrame] = req.line
  BY <1>3, <1>4 DEF Hits
<1> QED
  BY <1>5, <1>6

LEMMA YoungestIsQueued ==
    ASSUME wreq \in Seq(BeatReqs), NEW l, NEW b, QueuedWrites(l, b) # {}
    PROVE  /\ Youngest(l, b) \in QueuedWrites(l, b)
           /\ \A j \in QueuedWrites(l, b) : j <= Youngest(l, b)
<1>1. 1 .. Len(wreq) \in SUBSET Int /\ IsFiniteSet(1 .. Len(wreq))
  BY FS_Interval
<1>2. \E k \in QueuedWrites(l, b) : \A j \in QueuedWrites(l, b) : j <= k
  BY <1>1, GreatestExists DEF QueuedWrites
<1> QED
  BY <1>2 DEF Youngest

-----------------------------------------------------------------------------
(* Types. *)

LEMMA RequestTypes ==
    /\ NoReq \notin Requests
    /\ \A r \in Requests : /\ r.line \in Lines
                           /\ r.write => r.wdata \in LineData
BY DEF NoReq, Requests

\* A valid frame is one of the cache's and holds a line.
LEMMA FrameTypes ==
    ASSUME TypeOK, FramesFit, NEW f \in Frames, valid[f]
    PROVE  tag[f] \in Lines /\ data[f] \in LineData
BY DEF FramesFit

LEMMA NextPosType ==
    ASSUME NEW p \in (0 .. SETS) \X Ways, p[1] < SETS
    PROVE  p \in Frames /\ NextPos(p) \in (0 .. SETS) \X Ways
<1>1. PICK s \in 0 .. SETS, w \in Ways : p = <<s, w>>
  OBVIOUS
<1>2. s \in Sets /\ s < SETS
  BY <1>1 DEF Sets
<1>3. NextPos(p) = IF w = WAYS - 1 THEN <<s + 1, 0>> ELSE <<s, w + 1>>
  BY <1>1 DEF NextPos
<1> QED
  BY <1>1, <1>2, <1>3 DEF Frames, Ways

LEMMA TypeInit == Init => TypeOK
<1> SUFFICES ASSUME Init PROVE TypeOK
  OBVIOUS
<1>1. vram \in [Lines -> LineData] /\ written = vram
  BY DEF Init
<1>2. /\ valid \in [Frames -> BOOLEAN] /\ dirty \in [Frames -> BOOLEAN]
      /\ tag \in [Frames -> Lines \union {NoLine}]
      /\ data \in [Frames -> LineData \union {NoLine}]
  BY DEF Init
<1>3. wreq \in Seq(BeatReqs) /\ wresp \in Seq(Val)
  BY DEF Init
<1>4. NoReq \in Requests \union {NoReq} /\ NoCurrent \in Transactions \union {NoCurrent}
  OBVIOUS
<1>5. <<0, 0>> \in (0 .. SETS) \X Ways /\ 0 \in Ways /\ 0 \in Beats
  BY DEF Ways, Beats
<1>6. line_buf \in LineData
  BY DEF Init, LineData
<1> QED
  BY <1>1, <1>2, <1>3, <1>4, <1>5, <1>6 DEF Init, TypeOK

\* The steps of the crossbar and of the L2.
LEMMA ClientType ==
    ASSUME TypeOK, Request \/ FlushRequest \/ FlushRelease \/ NarrowRequest
    PROVE  TypeOK'
<1> USE DEF TypeOK, clientvars, l2vars, adaptervars, fifovars, ctrlvars
<1>1. CASE Request
  BY <1>1 DEF Request
<1>2. CASE FlushRequest
  BY <1>2 DEF FlushRequest
<1>3. CASE FlushRelease
  BY <1>3 DEF FlushRelease
<1>4. CASE NarrowRequest
  BY <1>4 DEF NarrowRequest
<1> QED
  BY <1>1, <1>2, <1>3, <1>4

LEMMA L2HitType ==
    ASSUME TypeOK, RequestFits, L2Accept \/ L2ReadHit \/ L2WriteHit \/ L2Miss
    PROVE  TypeOK'
<1> USE DEF clientvars, l2vars, adaptervars, fifovars, ctrlvars
<1>1. CASE L2Accept \/ L2ReadHit
  BY <1>1 DEF L2Accept, L2ReadHit, TypeOK
<1>2. CASE L2WriteHit
  <2>1. req \in Requests
    BY <1>2 DEF L2WriteHit, RequestFits, TypeOK
  <2>2. req.line \in Lines /\ req.wdata \in LineData
    BY <1>2, <2>1, RequestTypes DEF L2WriteHit
  <2>3. /\ data' \in [Frames -> LineData \union {NoLine}] /\ dirty' \in [Frames -> BOOLEAN]
        /\ written' \in [Lines -> LineData]
    BY <1>2, <2>2 DEF L2WriteHit, TypeOK
  <2> QED
    BY <1>2, <2>3 DEF L2WriteHit, TypeOK
<1>3. CASE L2Miss
  <2>1. (replace_way + 1) % WAYS \in Ways
    BY DEF TypeOK, Ways
  <2> QED
    BY <1>3, <2>1 DEF L2Miss, TypeOK
<1> QED
  BY <1>1, <1>2, <1>3

LEMMA L2MissType ==
    ASSUME TypeOK, RequestFits, FramesFit, VictimSaved, L2Writeback \/ L2Allocate
    PROVE  TypeOK'
<1> USE DEF clientvars, l2vars, fifovars, ctrlvars
<1>1. req \in Requests
  BY DEF L2Writeback, L2Allocate, RequestFits, TypeOK
<1>2. 0 \in Beats /\ req.line \in Lines
  BY <1>1, RequestTypes DEF Beats
<1>3. CASE L2Writeback
  <2>1. VictimFrame \in Frames /\ valid[VictimFrame]
    BY <1>2, <1>3 DEF L2Writeback, VictimSaved, VictimFrame, Frames, TypeOK
  <2>2. tag[VictimFrame] \in Lines /\ data[VictimFrame] \in LineData
    BY <2>1, FrameTypes
  <2> QED
    BY <1>2, <1>3, <2>2 DEF L2Writeback, AdapterTakesWrite, TypeOK
<1>4. CASE L2Allocate
  BY <1>2, <1>4 DEF L2Allocate, TypeOK
<1> QED
  BY <1>3, <1>4

LEMMA FlushType ==
    ASSUME TypeOK, FramesFit, Flush
    PROVE  TypeOK'
<1> USE DEF clientvars, adaptervars, fifovars, ctrlvars
<1>1. CASE L2FlushStart \/ L2FlushDone
  <2>1. <<0, 0>> \in (0 .. SETS) \X Ways
    BY DEF Ways
  <2>2. CASE L2FlushStart
    BY <2>1, <2>2 DEF L2FlushStart, TypeOK
  <2>3. CASE L2FlushDone
    BY <2>1, <2>3 DEF L2FlushDone, TypeOK
  <2> QED
    BY <1>1, <2>2, <2>3
<1>2. CASE L2FlushDrop \/ L2FlushWriteback
  <2>1. /\ fl_pos \in Frames /\ fl_pos' = NextPos(fl_pos)
        /\ fl_pos' \in (0 .. SETS) \X Ways
        /\ valid' = [valid EXCEPT ![fl_pos] = FALSE]
        /\ dirty' = [dirty EXCEPT ![fl_pos] = FALSE]
    BY <1>2, NextPosType DEF L2FlushDrop, L2FlushWriteback, TypeOK
  <2>2. valid' \in [Frames -> BOOLEAN] /\ dirty' \in [Frames -> BOOLEAN]
    BY <2>1 DEF TypeOK
  <2>3. CASE L2FlushDrop
    BY <2>1, <2>2, <2>3 DEF L2FlushDrop, TypeOK
  <2>4. CASE L2FlushWriteback
    <3>1. tag[fl_pos] \in Lines /\ data[fl_pos] \in LineData /\ 0 \in Beats
      BY <2>1, <2>4, FrameTypes DEF L2FlushWriteback, Beats
    <3> QED
      BY <2>1, <2>2, <2>4, <3>1 DEF L2FlushWriteback, AdapterTakesWrite, TypeOK
  <2> QED
    BY <1>2, <2>3, <2>4
<1> QED
  BY <1>1, <1>2 DEF Flush

\* A beat that is not the last is followed by one.
LEMMA NextBeat ==
    ASSUME word_cnt \in Beats, ~LastBeat
    PROVE  word_cnt + 1 \in Beats
BY DEF LastBeat, Beats

LEMMA AdapterType ==
    ASSUME TypeOK, AdapterFits, Adapter
    PROVE  TypeOK'
<1> USE DEF clientvars, l2vars, ctrlvars
<1>1. base_addr \in Lines /\ line_buf[word_cnt] \in Val /\ 0 \in Beats
  BY DEF Adapter, AdapterWriteBeat, AdapterReadBeat, AdapterFits, TypeOK, LineData, Beats
<1>2. CASE AdapterWriteBeat
  <2> DEFINE beat == [write |-> TRUE, line |-> base_addr,
                      beat |-> word_cnt, wdata |-> line_buf[word_cnt]]
  <2>1. beat \in BeatReqs
    BY <1>1 DEF BeatReqs, TypeOK
  <2>2. wreq' \in Seq(BeatReqs)
    BY <1>2, <2>1 DEF AdapterWriteBeat, TypeOK
  <2>3. word_cnt' \in Beats /\ astate' \in {"IDLE", "WRITE"}
    BY <1>1, <1>2, NextBeat DEF AdapterWriteBeat, TypeOK
  <2> QED
    BY <1>2, <2>2, <2>3 DEF AdapterWriteBeat, TypeOK
<1>3. CASE AdapterReadBeat
  <2> DEFINE beat == [write |-> FALSE, line |-> base_addr,
                      beat |-> word_cnt, wdata |-> Zero]
  <2>1. beat \in BeatReqs
    BY <1>1 DEF BeatReqs, TypeOK
  <2>2. wreq' \in Seq(BeatReqs)
    BY <1>3, <2>1 DEF AdapterReadBeat, TypeOK
  <2> QED
    BY <1>3, <2>2 DEF AdapterReadBeat, TypeOK
<1> QED
  BY <1>2, <1>3 DEF Adapter

LEMMA ResponseType ==
    ASSUME TypeOK, RequestFits, AdapterResponse
    PROVE  TypeOK'
<1> USE DEF clientvars, ctrlvars
<1>1. wresp' \in Seq(Val) /\ Head(wresp) \in Val /\ 0 \in Beats
  BY DEF AdapterResponse, TypeOK, Beats
<1>2. CASE astate # "RD_WAIT"
  BY <1>1, <1>2 DEF AdapterResponse, TypeOK, l2vars, adaptervars
<1>3. CASE astate = "RD_WAIT"
  <2>1. line_buf' \in LineData /\ base_addr' = base_addr
    <3>1. line_buf' = [line_buf EXCEPT ![word_cnt] = Head(wresp)] /\ base_addr' = base_addr
      BY <1>3 DEF AdapterResponse
    <3>2. line_buf \in LineData /\ word_cnt \in Beats
      BY DEF TypeOK
    <3> QED
      BY <1>1, <3>1, <3>2 DEF LineData
  <2>2. CASE LastBeat
    <3>1. /\ L2Refill(line_buf') /\ astate' = "IDLE" /\ word_cnt' = 0
      BY <1>3, <2>2 DEF AdapterResponse
    <3>2. req.line \in Lines
      BY <3>1, RequestTypes DEF L2Refill, RequestFits, TypeOK
    <3>3. /\ valid' \in [Frames -> BOOLEAN] /\ dirty' \in [Frames -> BOOLEAN]
          /\ tag' \in [Frames -> Lines \union {NoLine}]
          /\ data' \in [Frames -> LineData \union {NoLine}]
      BY <2>1, <3>1, <3>2 DEF L2Refill, TypeOK
    <3> QED
      BY <1>1, <2>1, <3>1, <3>3 DEF AdapterResponse, L2Refill, TypeOK, l2vars
  <2>3. CASE ~LastBeat
    <3>1. astate' = "RD_REQ" /\ word_cnt' = word_cnt + 1 /\ UNCHANGED l2vars
      BY <1>3, <2>3 DEF AdapterResponse
    <3>2. word_cnt' \in Beats
      BY <2>3, <3>1, NextBeat DEF TypeOK
    <3> QED
      BY <1>1, <2>1, <3>1, <3>2 DEF AdapterResponse, l2vars, TypeOK
  <2> QED
    BY <2>2, <2>3
<1> QED
  BY <1>2, <1>3

LEMMA ControllerType ==
    ASSUME TypeOK, Controller
    PROVE  TypeOK'
<1> USE DEF clientvars, l2vars, adaptervars, fifovars
<1>1. CASE Arbitrate
  BY <1>1 DEF Arbitrate, Readies, TypeOK
<1>2. CASE TakeWide
  <2>1. Head(wreq) \in BeatReqs /\ wreq' \in Seq(BeatReqs)
    BY <1>2 DEF TakeWide, TakesWide, TypeOK
  <2>2. cur' \in Transactions
    BY <1>2, <2>1 DEF TakeWide, Transactions
  <2> QED
    BY <1>2, <2>1, <2>2 DEF TakeWide, TypeOK
<1>3. CASE TakeNarrow
  <2>1. cur' \in Transactions
    BY <1>3 DEF TakeNarrow, Transactions
  <2> QED
    BY <1>3, <2>1 DEF TakeNarrow, TypeOK
<1>4. CASE WideWriteDone \/ WideReadDone
  <2>1. cur.beat \in BeatReqs
    BY <1>4 DEF WideWriteDone, WideReadDone, Transactions, NoCurrent, TypeOK
  <2>2. cur.beat.line \in Lines /\ cur.beat.beat \in Beats /\ cur.beat.wdata \in Val
    BY <2>1 DEF BeatReqs
  <2>3. CASE WideWriteDone
    <3>1. vram[cur.beat.line] \in LineData
      BY <2>2 DEF TypeOK
    <3>2. [vram[cur.beat.line] EXCEPT ![cur.beat.beat] = cur.beat.wdata] \in LineData
      BY <2>2, <3>1 DEF LineData
    <3>3. vram' = [vram EXCEPT ![cur.beat.line] =
                     [vram[cur.beat.line] EXCEPT ![cur.beat.beat] = cur.beat.wdata]]
      BY <2>2, <2>3 DEF WideWriteDone, TypeOK
    <3>4. vram' \in [Lines -> LineData]
      BY <2>2, <3>2, <3>3 DEF TypeOK
    <3>5. wresp' \in Seq(Val)
      BY <2>3 DEF WideWriteDone, TypeOK
    <3> QED
      BY <2>3, <3>4, <3>5 DEF WideWriteDone, TypeOK
  <2>4. CASE WideReadDone
    <3>1. vram[cur.beat.line][cur.beat.beat] \in Val
      BY <2>2 DEF TypeOK, LineData
    <3>2. wresp_rdata' \in Val /\ wresp' \in Seq(Val)
      BY <2>4, <3>1 DEF WideReadDone, TypeOK
    <3> QED
      BY <2>4, <3>2 DEF WideReadDone, TypeOK
  <2> QED
    BY <1>4, <2>3, <2>4
<1>5. CASE NarrowDone
  BY <1>5 DEF NarrowDone, TypeOK
<1> QED
  BY <1>1, <1>2, <1>3, <1>4, <1>5 DEF Controller

LEMMA TypeStep ==
    ASSUME TypeOK, FramesFit, RequestFits, VictimSaved, AdapterFits, [Next]_vars
    PROVE  TypeOK'
<1>1. CASE L2
  BY <1>1, L2HitType, L2MissType, FlushType DEF L2
<1>2. CASE Request \/ FlushRequest \/ FlushRelease \/ NarrowRequest
  BY <1>2, ClientType
<1>3. CASE Adapter \/ AdapterResponse \/ Controller
  BY <1>3, AdapterType, ResponseType, ControllerType
<1>4. CASE UNCHANGED vars
  BY <1>4 DEF vars, clientvars, l2vars, adaptervars, fifovars, ctrlvars, TypeOK
<1> QED
  BY <1>1, <1>2, <1>3, <1>4 DEF Next

-----------------------------------------------------------------------------
(* What memory will hold.  Only a line that the adapter takes to write      *)
(* changes it.                                                              *)

\* Nothing on the way to memory moves.
OnTheWayStays == UNCHANGED <<astate, base_addr, word_cnt, line_buf, wreq, cur, vram>>

LEMMA LandingStays ==
    OnTheWayStays => \A l : Landing(l)' = Landing(l)
BY DEF OnTheWayStays, Landing, LandingBeat, QueuedWrites, Youngest

LEMMA LandingByBeat ==
    ASSUME NEW l, \A b \in Beats : LandingBeat(l, b)' = LandingBeat(l, b)
    PROVE  Landing(l)' = Landing(l)
BY DEF Landing

\* The writes in the queue stay where they are.
LEMMA QueueStays ==
    ASSUME wreq \in Seq(BeatReqs), NEW l, NEW b,
           QueuedWrites(l, b)' = QueuedWrites(l, b),
           \A k \in QueuedWrites(l, b) : wreq'[k] = wreq[k]
    PROVE  /\ (QueuedWrites(l, b) # {})' <=> QueuedWrites(l, b) # {}
           /\ QueuedWrites(l, b) # {} =>
                 wreq'[Youngest(l, b)'].wdata = wreq[Youngest(l, b)].wdata
<1>1. Youngest(l, b)' = Youngest(l, b)
  BY DEF Youngest
<1> QED
  BY <1>1, YoungestIsQueued

\* A beat that enters the FIFO is the youngest there; the others are as they were.
LEMMA WriteBeatLands ==
    ASSUME TypeOK, AdapterWriteBeat, NEW l
    PROVE  Landing(l)' = Landing(l)
<1> DEFINE beat == [write |-> TRUE, line |-> base_addr,
                    beat |-> word_cnt, wdata |-> line_buf[word_cnt]]
           n == Len(wreq) + 1
<1>1. /\ astate = "WRITE" /\ wreq' = Append(wreq, beat)
      /\ UNCHANGED <<base_addr, line_buf, cur, vram>>
      /\ \/ astate' = "IDLE" /\ word_cnt = WORDS - 1
         \/ astate' = "WRITE" /\ word_cnt' = word_cnt + 1
      /\ wreq \in Seq(BeatReqs) /\ word_cnt \in Beats
  BY DEF AdapterWriteBeat, LastBeat, ctrlvars, TypeOK
<1>2. /\ Len(wreq') = n /\ wreq'[n] = beat /\ n \in Nat
      /\ \A k \in 1 .. Len(wreq) : wreq'[k] = wreq[k]
  BY <1>1
<1>3. \A b \in Beats : ((astate = "WRITE" /\ base_addr = l /\ b >= word_cnt)'
                          <=> base_addr = l /\ b >= word_cnt /\ b # word_cnt)
  BY <1>1 DEF Beats
<1> SUFFICES ASSUME NEW b \in Beats PROVE LandingBeat(l, b)' = LandingBeat(l, b)
  BY LandingByBeat
<1>4. CASE l = base_addr /\ b = word_cnt
  <2>1. LandingBeat(l, b) = line_buf[b]
    BY <1>1, <1>4 DEF LandingBeat, Beats
  <2> DEFINE Q == QueuedWrites(l, b)'
  <2>2. n \in Q /\ Q \in SUBSET Int /\ \A j \in Q : j <= n
    BY <1>2, <1>4 DEF QueuedWrites
  <2>3. Youngest(l, b)' = CHOOSE x \in Q : \A j \in Q : j <= x
    BY DEF Youngest
  <2>4. Youngest(l, b)' = n
    <3> HIDE DEF Q
    <3> QED BY <2>2, <2>3, GreatestIs
  <2>5. LandingBeat(l, b)' = wreq'[n].wdata
    BY <1>3, <1>4, <2>2, <2>4 DEF LandingBeat
  <2> QED
    BY <1>2, <1>4, <2>1, <2>5
<1>5. CASE ~(l = base_addr /\ b = word_cnt)
  <2>1. QueuedWrites(l, b)' = QueuedWrites(l, b)
    BY <1>2, <1>5 DEF QueuedWrites
  <2>2. \A k \in QueuedWrites(l, b) : wreq'[k] = wreq[k]
    BY <1>2 DEF QueuedWrites
  <2>3. /\ (QueuedWrites(l, b) # {})' <=> QueuedWrites(l, b) # {}
        /\ QueuedWrites(l, b) # {} =>
                 wreq'[Youngest(l, b)'].wdata = wreq[Youngest(l, b)].wdata
    BY <1>1, <2>1, <2>2, QueueStays
  <2>4. (astate = "WRITE" /\ base_addr = l /\ b >= word_cnt)'
          <=> (astate = "WRITE" /\ base_addr = l /\ b >= word_cnt)
    BY <1>1, <1>3, <1>5
  <2> QED
    BY <1>1, <2>3, <2>4 DEF LandingBeat
<1> QED
  BY <1>4, <1>5

\* A read in the FIFO changes nothing.
LEMMA ReadBeatLands ==
    ASSUME TypeOK, AdapterReadBeat, NEW l
    PROVE  Landing(l)' = Landing(l)
<1> DEFINE beat == [write |-> FALSE, line |-> base_addr,
                    beat |-> word_cnt, wdata |-> Zero]
           n == Len(wreq) + 1
<1>1. /\ astate # "WRITE" /\ astate' # "WRITE" /\ wreq' = Append(wreq, beat)
      /\ UNCHANGED <<cur, vram>> /\ wreq \in Seq(BeatReqs)
  BY DEF AdapterReadBeat, ctrlvars, TypeOK
<1>2. /\ Len(wreq') = n /\ wreq'[n] = beat /\ n \in Nat
      /\ \A k \in 1 .. Len(wreq) : wreq'[k] = wreq[k]
  BY <1>1
<1> SUFFICES ASSUME NEW b \in Beats PROVE LandingBeat(l, b)' = LandingBeat(l, b)
  BY LandingByBeat
<1>3. QueuedWrites(l, b)' = QueuedWrites(l, b)
  BY <1>2 DEF QueuedWrites
<1>4. \A k \in QueuedWrites(l, b) : wreq'[k] = wreq[k]
  BY <1>2 DEF QueuedWrites
<1> QED
  BY <1>1, <1>3, <1>4, QueueStays DEF LandingBeat

LEMMA ResponseLands ==
    ASSUME TypeOK, AdapterResponse, NEW l
    PROVE  Landing(l)' = Landing(l)
<1>1. /\ UNCHANGED <<wreq, cur, vram>>
      /\ (astate' # "WRITE" /\ astate # "WRITE") \/ UNCHANGED <<astate, base_addr, word_cnt, line_buf>>
  BY DEF AdapterResponse, L2Refill, adaptervars, ctrlvars
<1> SUFFICES ASSUME NEW b \in Beats PROVE LandingBeat(l, b)' = LandingBeat(l, b)
  BY LandingByBeat
<1>2. QueuedWrites(l, b)' = QueuedWrites(l, b) /\ Youngest(l, b)' = Youngest(l, b)
  BY <1>1 DEF QueuedWrites, Youngest
<1> QED
  BY <1>1, <1>2 DEF LandingBeat

\* The head of the FIFO is the oldest: what is behind it still wins, and if nothing
\* is, the transaction in flight is the one to land.
LEMMA TakeWideLands ==
    ASSUME TypeOK, TakeWide, NEW l
    PROVE  Landing(l)' = Landing(l)
<1>1. /\ cur.port # "WIDE" /\ wreq # <<>> /\ wreq' = Tail(wreq)
      /\ cur'.port = "WIDE" /\ cur'.beat = wreq[1]
      /\ UNCHANGED <<astate, base_addr, word_cnt, line_buf, vram>>
      /\ wreq \in Seq(BeatReqs)
  BY DEF TakeWide, TakesWide, NoCurrent, adaptervars, TypeOK
<1>2. /\ Len(wreq) \in Nat \ {0} /\ Len(wreq') = Len(wreq) - 1
      /\ \A k \in 1 .. Len(wreq) - 1 : wreq'[k] = wreq[k + 1]
  BY <1>1
<1> SUFFICES ASSUME NEW b \in Beats PROVE LandingBeat(l, b)' = LandingBeat(l, b)
  BY LandingByBeat
<1> DEFINE Q == QueuedWrites(l, b)
           R == QueuedWrites(l, b)'
           y == Youngest(l, b)
<1>3. \A k \in Int : k \in R <=> k >= 1 /\ k + 1 \in Q
  BY <1>2 DEF QueuedWrites
<1>4. R \in SUBSET Int /\ Q \in SUBSET Int /\ \A k \in Q : k >= 1
  BY DEF QueuedWrites
<1>5. 1 \in Q <=> (cur'.beat.write /\ cur'.beat.line = l /\ cur'.beat.beat = b)
  BY <1>1, <1>2 DEF QueuedWrites
<1>6. Q # {} => y \in Q /\ \A j \in Q : j <= y
  BY <1>1, YoungestIsQueued
<1>7. CASE Q = {}
  <2>1. R = {}
    BY <1>3, <1>4, <1>7
  <2> QED
    BY <1>1, <1>5, <1>7, <2>1 DEF LandingBeat
<1>8. CASE Q # {} /\ y = 1
  <2>1. R = {}
    <3> SUFFICES ASSUME NEW k \in R PROVE FALSE
      OBVIOUS
    <3>1. k \in Int /\ k >= 1 /\ k + 1 \in Q
      BY <1>3, <1>4
    <3>2. k + 1 <= 1
      BY <1>6, <1>8, <3>1
    <3> QED
      BY <3>1, <3>2
  <2>2. 1 \in Q
    BY <1>6, <1>8
  <2> QED
    BY <1>1, <1>5, <1>8, <2>1, <2>2 DEF LandingBeat
<1>9. CASE Q # {} /\ y # 1
  <2>1. y \in Int /\ y > 1 /\ y \in Q /\ y <= Len(wreq)
    BY <1>4, <1>6, <1>9 DEF QueuedWrites
  <2>2. y - 1 \in R
    BY <1>3, <2>1
  <2>3. \A k \in R : k <= y - 1
    <3> SUFFICES ASSUME NEW k \in R PROVE k <= y - 1
      OBVIOUS
    <3>1. k \in Int /\ k + 1 <= y
      BY <1>3, <1>4, <1>6, <1>9
    <3> QED
      BY <2>1, <3>1
  <2>4. Youngest(l, b)' = CHOOSE x \in R : \A j \in R : j <= x
    BY DEF Youngest
  <2>5. Youngest(l, b)' = y - 1
    <3> HIDE DEF R, y
    <3> QED BY <1>4, <2>2, <2>3, <2>4, GreatestIs
  <2>6. wreq'[y - 1] = wreq[y]
    BY <1>2, <2>1
  <2>7. R # {}
    BY <2>2
  <2> QED
    BY <1>1, <1>9, <2>5, <2>6, <2>7 DEF LandingBeat
<1> QED
  BY <1>7, <1>8, <1>9

\* The write that lands is the one memory was to receive.
LEMMA WriteDoneLands ==
    ASSUME TypeOK, WideWriteDone, NEW l \in Lines
    PROVE  Landing(l)' = Landing(l)
<1>1. /\ cur.port = "WIDE" /\ cur.beat.write /\ cur'.port # "WIDE"
      /\ vram' = [vram EXCEPT ![cur.beat.line][cur.beat.beat] = cur.beat.wdata]
      /\ UNCHANGED <<astate, base_addr, word_cnt, line_buf, wreq>>
  BY DEF WideWriteDone, NoCurrent, adaptervars
<1>2. cur.beat.line \in Lines /\ cur.beat.beat \in Beats
  BY <1>1 DEF TypeOK, Transactions, NoCurrent, BeatReqs
<1> SUFFICES ASSUME NEW b \in Beats PROVE LandingBeat(l, b)' = LandingBeat(l, b)
  BY LandingByBeat
<1>3. vram'[l][b] = IF cur.beat.line = l /\ cur.beat.beat = b
                    THEN cur.beat.wdata ELSE vram[l][b]
  BY <1>1, <1>2 DEF TypeOK, LineData
<1>4. QueuedWrites(l, b)' = QueuedWrites(l, b) /\ Youngest(l, b)' = Youngest(l, b)
  BY <1>1 DEF QueuedWrites, Youngest
<1> QED
  BY <1>1, <1>3, <1>4 DEF LandingBeat

\* Neither a read nor a narrow transaction writes the L2's lines.
LEMMA OtherLands ==
    ASSUME TypeOK, Arbitrate \/ TakeNarrow \/ WideReadDone \/ NarrowDone, NEW l
    PROVE  Landing(l)' = Landing(l)
<1>1. /\ UNCHANGED <<astate, base_addr, word_cnt, line_buf, wreq, vram>>
      /\ cur.port = "WIDE" /\ cur.beat.write <=> cur'.port = "WIDE" /\ cur'.beat.write
      /\ cur.port = "WIDE" /\ cur.beat.write => cur' = cur
  BY DEF Arbitrate, TakeNarrow, WideReadDone, NarrowDone, NoCurrent, adaptervars, fifovars
<1> SUFFICES ASSUME NEW b \in Beats PROVE LandingBeat(l, b)' = LandingBeat(l, b)
  BY LandingByBeat
<1>2. QueuedWrites(l, b)' = QueuedWrites(l, b) /\ Youngest(l, b)' = Youngest(l, b)
  BY <1>1 DEF QueuedWrites, Youngest
<1> QED
  BY <1>1, <1>2 DEF LandingBeat

\* A line that the adapter takes is what memory will hold.
LEMMA TakenLands ==
    ASSUME TypeOK, NEW f \in Frames, data[f] \in LineData, AdapterTakesWrite(f),
           UNCHANGED <<wreq, cur, vram>>, NEW l
    PROVE  Landing(l)' = IF l = tag[f] THEN data[f] ELSE Landing(l)
<1>1. CASE l = tag[f]
  <2>1. \A b \in Beats : LandingBeat(l, b)' = data[f][b]
    BY <1>1 DEF LandingBeat, AdapterTakesWrite, Beats
  <2> QED
    BY <1>1, <2>1 DEF Landing, LineData
<1>2. CASE l # tag[f]
  <2> SUFFICES ASSUME NEW b \in Beats PROVE LandingBeat(l, b)' = LandingBeat(l, b)
    BY <1>2, LandingByBeat
  <2>1. QueuedWrites(l, b)' = QueuedWrites(l, b) /\ Youngest(l, b)' = Youngest(l, b)
    BY DEF QueuedWrites, Youngest
  <2> QED
    BY <1>2, <2>1 DEF LandingBeat, AdapterTakesWrite
<1> QED
  BY <1>1, <1>2

-----------------------------------------------------------------------------
(* No store is lost.                                                        *)

LEMMA MemInit == Init => MemInv
<1> SUFFICES ASSUME Init PROVE MemInv
  OBVIOUS
<1>1. TypeOK
  BY TypeInit
<1>2. /\ \A f \in Frames : ~valid[f]
      /\ lstate = "IDLE" /\ astate = "IDLE" /\ wreq = <<>> /\ cur.port # "WIDE"
      /\ written = vram /\ ~flush_req /\ ~flush_seen
  BY DEF Init, NoCurrent
<1>3. ASSUME NEW l \in Lines PROVE Landing(l) = written[l] /\ DirtyIn(l) = {}
  <2>1. \A b \in Beats : LandingBeat(l, b) = vram[l][b]
    BY <1>2 DEF LandingBeat, QueuedWrites
  <2>2. vram[l] \in LineData
    BY <1>1 DEF TypeOK
  <2> QED
    BY <1>2, <2>1, <2>2 DEF Landing, LineData, DirtyIn
<1> QED
  BY <1>1, <1>2, <1>3 DEF MemInv, FramesFit, RequestFits, VictimSaved, AdapterFits,
                          FlushFits, StoresAreDurable

\* What memory will hold of every line is what it was.
LandingSame == \A l \in Lines : Landing(l)' = Landing(l)

\* The frame a miss fills is one of the set of the line.
LEMMA VictimType ==
    ASSUME TypeOK, req # NoReq
    PROVE  /\ VictimFrame \in Frames /\ VictimFrame[1] = IndexOf[req.line]
           /\ req.line \in Lines
<1>1. req.line \in Lines
  BY RequestTypes DEF TypeOK
<1> QED
  BY <1>1 DEF VictimFrame, Frames, TypeOK

\* The frames and the lines on their way stay what they are.
LEMMA StoresStay ==
    ASSUME MemInv, LandingSame, UNCHANGED <<valid, dirty, tag, data, written>>
    PROVE  FramesFit' /\ StoresAreDurable'
BY DEF MemInv, FramesFit, LandingSame, StoresAreDurable, DirtyIn

\* A step beside the L2.
LEMMA CacheStays ==
    ASSUME MemInv, LandingSame, UNCHANGED <<clientvars, l2vars, written>>
    PROVE  FramesFit' /\ RequestFits' /\ VictimSaved' /\ FlushFits' /\ StoresAreDurable'
<1> USE DEF clientvars, l2vars
<1>1. FramesFit' /\ StoresAreDurable'
  BY StoresStay
<1>2. RequestFits'
  BY DEF MemInv, RequestFits, Hits
<1>3. FlushFits'
  BY DEF MemInv, FlushFits, Walked
<1>4. VictimSaved'
  <2>1. VictimFrame' = VictimFrame
    BY DEF VictimFrame
  <2>2. (lstate \in {"ALLOCATE", "REFILL"} /\ valid[VictimFrame]) => tag[VictimFrame] \in Lines
    BY VictimType DEF MemInv, RequestFits, FramesFit
  <2> QED
    BY <2>1, <2>2 DEF MemInv, VictimSaved, LandingSame
<1> QED
  BY <1>1, <1>2, <1>3, <1>4

LEMMA AdapterMem ==
    ASSUME MemInv, Adapter \/ Controller \/ NarrowRequest \/ UNCHANGED vars
    PROVE  MemInv'
<1>1. TypeOK'
  BY TypeStep DEF MemInv, Next, vars
<1>2. LandingSame
  <2> SUFFICES ASSUME NEW l \in Lines PROVE Landing(l)' = Landing(l)
    BY DEF LandingSame
  <2>1. CASE Adapter
    BY <2>1, WriteBeatLands, ReadBeatLands DEF Adapter, MemInv
  <2>2. CASE Controller
    BY <2>2, TakeWideLands, WriteDoneLands, OtherLands DEF Controller, MemInv
  <2>3. CASE NarrowRequest \/ UNCHANGED vars
    BY <2>3, LandingStays DEF NarrowRequest, vars, OnTheWayStays, adaptervars, fifovars, ctrlvars
  <2> QED
    BY <2>1, <2>2, <2>3
<1>3. UNCHANGED <<clientvars, l2vars, written>>
  BY DEF Adapter, AdapterWriteBeat, AdapterReadBeat, Controller, Arbitrate, TakeWide, TakeNarrow,
         WideWriteDone, WideReadDone, NarrowDone, NarrowRequest, vars
<1>4. AdapterFits'
  <2>1. CASE Adapter
    BY <2>1, <1>3 DEF Adapter, AdapterWriteBeat, AdapterReadBeat, MemInv, AdapterFits, l2vars
  <2>2. CASE Controller \/ NarrowRequest \/ UNCHANGED vars
    <3>1. UNCHANGED <<lstate, adaptervars>>
      BY <1>3, <2>2 DEF Controller, Arbitrate, TakeWide, TakeNarrow, WideWriteDone, WideReadDone,
                        NarrowDone, NarrowRequest, vars, l2vars
    <3> QED
      BY <3>1 DEF MemInv, AdapterFits, adaptervars
  <2> QED
    BY <2>1, <2>2
<1> QED
  BY <1>1, <1>2, <1>3, <1>4, CacheStays DEF MemInv

\* A request comes only outside a flush, and a flush only without a request.
LEMMA ClientMem ==
    ASSUME MemInv, Request \/ FlushRequest \/ FlushRelease
    PROVE  MemInv'
<1>1. TypeOK'
  BY TypeStep DEF MemInv, Next
<1>2. /\ UNCHANGED <<lstate, valid, dirty, tag, data, fl_pos, adaptervars, wreq, cur, vram, written>>
      /\ flush_seen' => flush_seen /\ flush_req'
  BY DEF Request, FlushRequest, FlushRelease, l2vars, fifovars, ctrlvars, MemInv, FlushFits
<1>3. FramesFit' /\ StoresAreDurable'
  BY <1>2, LandingStays, StoresStay DEF OnTheWayStays, adaptervars, LandingSame
<1>4. /\ lstate \notin {"COMPARE", "WRITEBACK", "ALLOCATE", "REFILL"}
      /\ (lstate = "FLUSH" => flush_req' /\ ~flush_seen' /\ UNCHANGED flush_seen)
      /\ flush_req' => req' = NoReq
  BY <1>2 DEF Request, FlushRequest, FlushRelease, l2vars, MemInv, RequestFits, FlushFits
<1>5. RequestFits' /\ VictimSaved'
  BY <1>2, <1>4 DEF RequestFits, VictimSaved
<1>6. AdapterFits'
  BY <1>2 DEF MemInv, AdapterFits, adaptervars
<1>7. FlushFits'
  BY <1>2, <1>4 DEF MemInv, FlushFits, Walked
<1> QED
  BY <1>1, <1>3, <1>5, <1>6, <1>7 DEF MemInv

\* The steps of the L2 that move no line.
LEMMA L2StateMem ==
    ASSUME MemInv, L2Accept \/ L2ReadHit \/ L2Miss \/ L2FlushStart \/ L2FlushDone
    PROVE  MemInv'
<1>1. TypeOK'
  BY TypeStep DEF MemInv, Next, L2, Flush
<1>2. /\ UNCHANGED <<flush_req, valid, dirty, tag, data, adaptervars, wreq, cur, vram, written>>
      /\ lstate \in {"IDLE", "COMPARE", "FLUSH"} /\ lstate' # "REFILL"
  BY DEF L2Accept, L2ReadHit, L2Miss, L2FlushStart, L2FlushDone, clientvars, fifovars, ctrlvars
<1>3. FramesFit' /\ StoresAreDurable'
  BY <1>2, LandingStays, StoresStay DEF OnTheWayStays, adaptervars, LandingSame
<1>4. AdapterFits'
  BY <1>2 DEF MemInv, AdapterFits, adaptervars
<1>5. CASE L2Accept
  <2>1. lstate' = "COMPARE" /\ req' # NoReq /\ ~flush_req /\ ~flush_seen /\ flush_seen' = flush_seen
    BY <1>5 DEF L2Accept, clientvars, MemInv, FlushFits
  <2> QED
    BY <1>1, <1>2, <1>3, <1>4, <2>1 DEF MemInv, RequestFits, VictimSaved, FlushFits
<1>6. CASE L2ReadHit
  <2>1. lstate' = "IDLE" /\ req' = NoReq /\ ~flush_seen /\ flush_seen' = flush_seen
    BY <1>6 DEF L2ReadHit, MemInv, FlushFits
  <2> QED
    BY <1>1, <1>2, <1>3, <1>4, <2>1 DEF MemInv, RequestFits, VictimSaved, FlushFits
<1>7. CASE L2Miss
  <2>1. /\ UNCHANGED <<req, flush_seen>> /\ Hits = {} /\ req # NoReq /\ ~flush_req /\ ~flush_seen
        /\ VictimFrame' = <<IndexOf[req.line], replace_way>>
        /\ lstate' = IF valid[VictimFrame'] /\ dirty[VictimFrame']
                     THEN "WRITEBACK" ELSE "ALLOCATE"
    BY <1>7 DEF L2Miss, clientvars, VictimFrame, MemInv, RequestFits, FlushFits
  <2>2. Hits' = {}
    BY <1>2, <2>1 DEF Hits
  <2>3. RequestFits' /\ VictimSaved' /\ FlushFits'
    BY <1>2, <2>1, <2>2 DEF RequestFits, VictimSaved, FlushFits
  <2> QED
    BY <1>1, <1>3, <1>4, <2>3 DEF MemInv
<1>8. CASE L2FlushStart
  <2>1. /\ lstate' = "FLUSH" /\ fl_pos' = <<0, 0>> /\ flush_req /\ ~flush_seen
        /\ UNCHANGED <<req, flush_seen>> /\ req = NoReq
    BY <1>8 DEF L2FlushStart, clientvars
  <2>2. \A f \in Frames : ~Walked(f)'
    BY <2>1 DEF Walked, Frames, Sets, Ways
  <2> QED
    BY <1>1, <1>2, <1>3, <1>4, <2>1, <2>2 DEF MemInv, RequestFits, VictimSaved, FlushFits
<1>9. CASE L2FlushDone
  <2>1. /\ lstate = "FLUSH" /\ fl_pos[1] = SETS /\ lstate' = "IDLE" /\ UNCHANGED req
    BY <1>9 DEF L2FlushDone, clientvars
  <2>2. \A f \in Frames : Walked(f)
    BY <2>1 DEF Walked, Frames, Sets
  <2>3. /\ flush_req /\ req = NoReq /\ \A f \in Frames : ~valid[f]
    BY <2>1, <2>2 DEF MemInv, FlushFits
  <2> QED
    BY <1>1, <1>2, <1>3, <1>4, <2>1, <2>3 DEF MemInv, RequestFits, VictimSaved, FlushFits
<1> QED
  BY <1>5, <1>6, <1>7, <1>8, <1>9

\* The store is in the one frame that holds the line.
LEMMA L2WriteMem ==
    ASSUME MemInv, L2WriteHit
    PROVE  MemInv'
<1>1. TypeOK'
  BY TypeStep DEF MemInv, Next, L2
<1>2. /\ lstate = "COMPARE" /\ lstate' = "IDLE" /\ Hits # {} /\ req' = NoReq /\ req.write
      /\ data' = [data EXCEPT ![HitFrame] = req.wdata]
      /\ dirty' = [dirty EXCEPT ![HitFrame] = TRUE]
      /\ written' = [written EXCEPT ![req.line] = req.wdata]
      /\ UNCHANGED <<flush_req, flush_seen, valid, tag, adaptervars, wreq, cur, vram>>
  BY DEF L2WriteHit, fifovars, ctrlvars
<1>3. req \in Requests /\ req.line \in Lines /\ req.wdata \in LineData
  BY <1>2, RequestTypes DEF MemInv, RequestFits, TypeOK
<1>4. HitFrame \in Frames /\ valid[HitFrame] /\ tag[HitFrame] = req.line
  BY <1>2, <1>3, HitIsFound DEF MemInv
<1>5. /\ \A f \in Frames : data'[f] = IF f = HitFrame THEN req.wdata ELSE data[f]
      /\ \A f \in Frames : dirty'[f] = (f = HitFrame \/ dirty[f])
      /\ \A l \in Lines : written'[l] = IF l = req.line THEN req.wdata ELSE written[l]
  BY <1>2, <1>3, <1>4 DEF MemInv, TypeOK
<1>6. FramesFit'
  BY <1>2, <1>3, <1>4, <1>5 DEF MemInv, FramesFit
<1>7. StoresAreDurable'
  <2> SUFFICES ASSUME NEW l \in Lines
               PROVE  IF DirtyIn(l)' = {} THEN Landing(l)' = written'[l]
                      ELSE \A f \in DirtyIn(l)' : data'[f] = written'[l]
    BY DEF StoresAreDurable
  <2>1. CASE l = req.line
    <3>1. HitFrame \in DirtyIn(l)'
      BY <1>2, <1>4, <1>5, <2>1 DEF DirtyIn
    <3>2. \A f \in DirtyIn(l)' : f = HitFrame
      BY <1>2, <1>4, <2>1 DEF DirtyIn, MemInv, FramesFit
    <3> QED
      BY <1>3, <1>4, <1>5, <2>1, <3>1, <3>2
  <2>2. CASE l # req.line
    <3>1. DirtyIn(l)' = DirtyIn(l) /\ HitFrame \notin DirtyIn(l)
      BY <1>2, <1>4, <1>5, <2>2 DEF DirtyIn
    <3>2. \A f \in DirtyIn(l) : data'[f] = data[f]
      BY <1>5, <3>1 DEF DirtyIn
    <3>3. Landing(l)' = Landing(l)
      BY <1>2, LandingStays DEF OnTheWayStays, adaptervars
    <3> QED
      BY <1>5, <2>2, <3>1, <3>2, <3>3 DEF MemInv, StoresAreDurable
  <2> QED
    BY <2>1, <2>2
<1>8. RequestFits' /\ VictimSaved' /\ AdapterFits' /\ FlushFits'
  BY <1>2 DEF MemInv, RequestFits, VictimSaved, AdapterFits, FlushFits, adaptervars
<1> QED
  BY <1>1, <1>6, <1>7, <1>8 DEF MemInv

\* The line of a dirty frame is the last one written, and no other frame is dirty
\* with it.
LEMMA DirtyIsWritten ==
    ASSUME MemInv, NEW f \in Frames, valid[f], dirty[f]
    PROVE  /\ tag[f] \in Lines /\ data[f] \in LineData
           /\ data[f] = written[tag[f]] /\ DirtyIn(tag[f]) = {f}
<1>1. tag[f] \in Lines /\ data[f] \in LineData
  BY DEF MemInv, FramesFit
<1>2. DirtyIn(tag[f]) = {f}
  BY DEF MemInv, FramesFit, DirtyIn
<1> QED
  BY <1>1, <1>2 DEF MemInv, StoresAreDurable

\* The victim is written back and stays in its frame until the refill.
LEMMA L2WritebackMem ==
    ASSUME MemInv, L2Writeback
    PROVE  MemInv'
<1>1. TypeOK'
  BY TypeStep DEF MemInv, Next, L2
<1>2. /\ lstate = "WRITEBACK" /\ lstate' = "ALLOCATE" /\ AdapterTakesWrite(VictimFrame)
      /\ UNCHANGED <<clientvars, valid, dirty, tag, data, victim_way, flush_seen,
                     wreq, cur, vram, written>>
  BY DEF L2Writeback, fifovars, ctrlvars
<1>3. /\ VictimFrame \in Frames /\ valid[VictimFrame] /\ dirty[VictimFrame]
      /\ VictimFrame' = VictimFrame /\ req # NoReq /\ Hits' = Hits
  BY <1>2, VictimType DEF MemInv, RequestFits, VictimSaved, VictimFrame, Hits, clientvars
<1> DEFINE f == VictimFrame
<1>4. /\ tag[f] \in Lines /\ data[f] \in LineData
      /\ data[f] = written[tag[f]] /\ DirtyIn(tag[f]) = {f}
  BY <1>3, DirtyIsWritten
<1>5. \A l \in Lines : Landing(l)' = IF l = tag[f] THEN data[f] ELSE Landing(l)
  BY <1>2, <1>3, <1>4, TakenLands DEF MemInv
<1>6. StoresAreDurable'
  <2> SUFFICES ASSUME NEW l \in Lines
               PROVE  IF DirtyIn(l)' = {} THEN Landing(l)' = written'[l]
                      ELSE \A g \in DirtyIn(l)' : data'[g] = written'[l]
    BY DEF StoresAreDurable
  <2>1. DirtyIn(l)' = DirtyIn(l)
    BY <1>2 DEF DirtyIn
  <2> QED
    BY <1>2, <1>4, <1>5, <2>1 DEF MemInv, StoresAreDurable
<1>7. FramesFit'
  BY <1>2 DEF MemInv, FramesFit
<1>8. RequestFits' /\ VictimSaved'
  BY <1>2, <1>3, <1>4, <1>5 DEF MemInv, RequestFits, VictimSaved, clientvars
<1>9. AdapterFits' /\ FlushFits'
  <2> HIDE DEF f
  <2> QED
  BY <1>2, <1>3, <1>4 DEF MemInv, AdapterFits, FlushFits, AdapterTakesWrite, clientvars, f
<1> QED
  BY <1>1, <1>6, <1>7, <1>8, <1>9 DEF MemInv

LEMMA L2AllocateMem ==
    ASSUME MemInv, L2Allocate
    PROVE  MemInv'
<1>1. TypeOK'
  BY TypeStep DEF MemInv, Next, L2
<1>2. /\ lstate = "ALLOCATE" /\ lstate' = "REFILL" /\ astate = "IDLE" /\ astate' = "RD_REQ"
      /\ base_addr' = req.line /\ req # NoReq
      /\ UNCHANGED <<clientvars, valid, dirty, tag, data, victim_way, flush_seen,
                     wreq, cur, vram, written>>
  BY DEF L2Allocate, fifovars, ctrlvars, MemInv, RequestFits
<1>3. /\ VictimFrame' = VictimFrame /\ Hits' = Hits /\ VictimFrame \in Frames
      /\ req.line \in Lines
  BY <1>2, VictimType DEF MemInv, VictimFrame, Hits, clientvars
<1>4. LandingSame
  <2> SUFFICES ASSUME NEW l \in Lines, NEW b \in Beats
               PROVE  LandingBeat(l, b)' = LandingBeat(l, b)
    BY LandingByBeat DEF LandingSame
  <2>1. QueuedWrites(l, b)' = QueuedWrites(l, b) /\ Youngest(l, b)' = Youngest(l, b)
    BY <1>2 DEF QueuedWrites, Youngest
  <2> QED
    BY <1>2, <2>1 DEF LandingBeat
<1>5. FramesFit' /\ StoresAreDurable'
  BY <1>2, <1>4, StoresStay
<1>6. RequestFits' /\ AdapterFits' /\ FlushFits'
  BY <1>2, <1>3 DEF MemInv, RequestFits, AdapterFits, FlushFits, clientvars
<1>7. VictimSaved'
  <2>1. valid[VictimFrame] => tag[VictimFrame] \in Lines
    BY <1>3 DEF MemInv, FramesFit
  <2> QED
    BY <1>2, <1>3, <1>4, <2>1 DEF MemInv, VictimSaved, LandingSame
<1> QED
  BY <1>1, <1>5, <1>6, <1>7 DEF MemInv

\* The refill overwrites a victim that is clean or on its way, with a line that no
\* other frame holds.
LEMMA RefillMem ==
    ASSUME MemInv, NEW line \in LineData, L2Refill(line), astate' = "IDLE", LandingSame,
           UNCHANGED <<clientvars, written>>
    PROVE  FramesFit' /\ RequestFits' /\ VictimSaved' /\ AdapterFits' /\ FlushFits'
             /\ StoresAreDurable'
<1> DEFINE f == VictimFrame
<1>1. /\ lstate = "REFILL" /\ lstate' = "COMPARE" /\ req # NoReq /\ Hits = {}
      /\ UNCHANGED <<victim_way, fl_pos, flush_seen, req, flush_req>>
      /\ valid' = [valid EXCEPT ![f] = TRUE] /\ dirty' = [dirty EXCEPT ![f] = FALSE]
      /\ tag' = [tag EXCEPT ![f] = req.line] /\ data' = [data EXCEPT ![f] = line]
  BY DEF L2Refill, MemInv, RequestFits, clientvars
<1>2. f \in Frames /\ f[1] = IndexOf[req.line] /\ req.line \in Lines
  BY <1>1, VictimType DEF MemInv
<1> HIDE DEF f
<1>3. /\ \A g \in Frames : valid'[g] = (g = f \/ valid[g])
      /\ \A g \in Frames : dirty'[g] = (g # f /\ dirty[g])
      /\ \A g \in Frames : tag'[g] = IF g = f THEN req.line ELSE tag[g]
      /\ \A g \in Frames : data'[g] = IF g = f THEN line ELSE data[g]
  BY <1>1, <1>2 DEF MemInv, TypeOK
<1>4. \A g \in Frames : valid[g] => tag[g] # req.line
  <2> SUFFICES ASSUME NEW g \in Frames, valid[g], tag[g] = req.line PROVE FALSE
    OBVIOUS
  <2>1. g[1] = IndexOf[req.line]
    BY DEF MemInv, FramesFit
  <2>2. g[2] \in Ways /\ g = <<IndexOf[req.line], g[2]>>
    BY <2>1 DEF Frames
  <2> QED
    BY <1>1, <2>2 DEF Hits
<1>5. FramesFit'
  BY <1>2, <1>3, <1>4 DEF MemInv, FramesFit
<1>6. StoresAreDurable'
  <2> SUFFICES ASSUME NEW l \in Lines
               PROVE  IF DirtyIn(l)' = {} THEN Landing(l)' = written'[l]
                      ELSE \A g \in DirtyIn(l)' : data'[g] = written'[l]
    BY DEF StoresAreDurable
  <2>1. DirtyIn(l)' = DirtyIn(l) \ {f} /\ \A g \in DirtyIn(l)' : data'[g] = data[g]
    BY <1>3 DEF DirtyIn
  <2>2. CASE f \in DirtyIn(l)
    <3>1. valid[f] /\ dirty[f] /\ tag[f] = l
      BY <2>2 DEF DirtyIn
    <3>2. DirtyIn(l) = {f}
      BY <1>2, <3>1, DirtyIsWritten
    <3>3. Landing(l) = written[l]
      BY <1>1, <3>1 DEF MemInv, VictimSaved, f
    <3> QED
      BY <2>1, <3>2, <3>3 DEF LandingSame
  <2>3. CASE f \notin DirtyIn(l)
    BY <2>1, <2>3 DEF MemInv, StoresAreDurable, LandingSame
  <2> QED
    BY <2>2, <2>3
<1>7. RequestFits' /\ VictimSaved' /\ AdapterFits'
  BY <1>1 DEF RequestFits, VictimSaved, AdapterFits
<1>8. FlushFits'
  BY <1>1 DEF MemInv, FlushFits
<1> QED
  BY <1>5, <1>6, <1>7, <1>8

LEMMA ResponseMem ==
    ASSUME MemInv, AdapterResponse
    PROVE  MemInv'
<1>1. TypeOK'
  BY TypeStep DEF MemInv, Next
<1>2. LandingSame
  BY ResponseLands DEF MemInv, LandingSame
<1>3. UNCHANGED <<clientvars, written>>
  BY DEF AdapterResponse
<1>4. CASE astate = "RD_WAIT" /\ LastBeat
  <2>1. L2Refill(line_buf') /\ astate' = "IDLE"
    BY <1>4 DEF AdapterResponse
  <2>2. line_buf' \in LineData
    BY <1>1 DEF TypeOK
  <2> QED
    BY <1>1, <1>2, <1>3, <2>1, <2>2, RefillMem DEF MemInv
<1>5. CASE ~(astate = "RD_WAIT" /\ LastBeat)
  <2>1. /\ UNCHANGED <<l2vars, base_addr>>
        /\ astate' = astate \/ (astate = "RD_WAIT" /\ astate' = "RD_REQ")
    BY <1>5 DEF AdapterResponse, adaptervars
  <2>2. AdapterFits'
    BY <2>1 DEF MemInv, AdapterFits, l2vars
  <2> QED
    BY <1>1, <1>2, <1>3, <2>1, <2>2, CacheStays DEF MemInv
<1> QED
  BY <1>4, <1>5

\* After a step of the walk the frame it was at is walked, and no other is newly.
LEMMA NextWalked ==
    ASSUME NEW f \in Frames, fl_pos \in Frames, fl_pos' = NextPos(fl_pos), Walked(f)'
    PROVE  Walked(f) \/ f = fl_pos
<1>1. PICK s \in Sets, w \in Ways : fl_pos = <<s, w>>
  BY DEF Frames
<1>2. PICK t \in Sets, v \in Ways : f = <<t, v>>
  BY DEF Frames
<1>3. s \in Int /\ w \in Int /\ t \in Int /\ v \in Int /\ v <= WAYS - 1 /\ 0 <= v
  BY DEF Sets, Ways
<1>4. fl_pos' = IF w = WAYS - 1 THEN <<s + 1, 0>> ELSE <<s, w + 1>>
  BY <1>1 DEF NextPos
<1> QED
  BY <1>1, <1>2, <1>3, <1>4 DEF Walked

\* A line is dropped only clean or on its way.
LEMMA FlushMem ==
    ASSUME MemInv, L2FlushDrop \/ L2FlushWriteback
    PROVE  MemInv'
<1>1. TypeOK'
  BY TypeStep DEF MemInv, Next, L2, Flush
<1> DEFINE f == fl_pos
<1>2. /\ lstate = "FLUSH" /\ fl_pos \in Frames /\ fl_pos' = NextPos(fl_pos)
      /\ valid' = [valid EXCEPT ![f] = FALSE] /\ dirty' = [dirty EXCEPT ![f] = FALSE]
      /\ UNCHANGED <<clientvars, lstate, tag, data, flush_seen, wreq, cur, vram, written>>
  BY NextPosType DEF L2FlushDrop, L2FlushWriteback, MemInv, TypeOK, fifovars, ctrlvars
<1>3. /\ \A g \in Frames : valid'[g] = (g # f /\ valid[g])
      /\ \A g \in Frames : dirty'[g] = (g # f /\ dirty[g])
  BY <1>2 DEF MemInv, TypeOK
<1>4. \A l \in Lines : DirtyIn(l)' = DirtyIn(l) \ {f}
  BY <1>2, <1>3 DEF DirtyIn
<1>5. StoresAreDurable' /\ AdapterFits'
  <2>1. CASE L2FlushDrop
    <3>1. ~(valid[f] /\ dirty[f]) /\ UNCHANGED adaptervars
      BY <2>1 DEF L2FlushDrop
    <3>2. LandingSame
      BY <1>2, <3>1, LandingStays DEF OnTheWayStays, adaptervars, LandingSame
    <3>3. \A l \in Lines : DirtyIn(l)' = DirtyIn(l)
      BY <1>4, <3>1 DEF DirtyIn
    <3> QED
      BY <1>2, <3>1, <3>2, <3>3 DEF MemInv, StoresAreDurable, LandingSame, AdapterFits, adaptervars
  <2>2. CASE L2FlushWriteback
    <3>1. valid[f] /\ dirty[f] /\ AdapterTakesWrite(f)
      BY <2>2 DEF L2FlushWriteback
    <3>2. /\ tag[f] \in Lines /\ data[f] \in LineData
          /\ data[f] = written[tag[f]] /\ DirtyIn(tag[f]) = {f}
      BY <1>2, <3>1, DirtyIsWritten
    <3>3. \A l \in Lines : Landing(l)' = IF l = tag[f] THEN data[f] ELSE Landing(l)
      BY <1>2, <3>1, <3>2, TakenLands DEF MemInv
    <3>4. StoresAreDurable'
      <4> SUFFICES ASSUME NEW l \in Lines
                   PROVE  IF DirtyIn(l)' = {} THEN Landing(l)' = written'[l]
                          ELSE \A g \in DirtyIn(l)' : data'[g] = written'[l]
        BY DEF StoresAreDurable
      <4>1. CASE l = tag[f]
        BY <1>2, <1>4, <3>2, <3>3, <4>1
      <4>2. CASE l # tag[f]
        <5>1. DirtyIn(l)' = DirtyIn(l)
          BY <1>4, <4>2 DEF DirtyIn
        <5> QED
          BY <1>2, <3>3, <4>2, <5>1 DEF MemInv, StoresAreDurable
      <4> QED
        BY <4>1, <4>2
    <3>5. AdapterFits'
      BY <1>2, <3>1, <3>2 DEF MemInv, AdapterFits, AdapterTakesWrite
    <3> QED
      BY <3>4, <3>5
  <2> QED
    BY <2>1, <2>2
<1>6. FramesFit'
  BY <1>2, <1>3 DEF MemInv, FramesFit
<1>7. RequestFits' /\ VictimSaved'
  BY <1>2 DEF RequestFits, VictimSaved
<1>8. FlushFits'
  <2>1. \A g \in Frames : Walked(g)' => ~valid'[g]
    BY <1>2, <1>3, NextWalked DEF MemInv, FlushFits
  <2> QED
    BY <1>2, <2>1 DEF MemInv, FlushFits, clientvars
<1> QED
  BY <1>1, <1>5, <1>6, <1>7, <1>8 DEF MemInv

LEMMA MemStep == MemInv /\ [Next]_vars => MemInv'
<1> SUFFICES ASSUME MemInv, [Next]_vars PROVE MemInv'
  OBVIOUS
<1>1. CASE Request \/ FlushRequest \/ FlushRelease
  BY <1>1, ClientMem
<1>2. CASE L2
  BY <1>2, L2StateMem, L2WriteMem, L2WritebackMem, L2AllocateMem, FlushMem DEF L2, Flush
<1>3. CASE AdapterResponse
  BY <1>3, ResponseMem
<1>4. CASE Adapter \/ Controller \/ NarrowRequest \/ UNCHANGED vars
  BY <1>4, AdapterMem
<1> QED
  BY <1>1, <1>2, <1>3, <1>4 DEF Next

\* The inductive invariant of the memory path: types, one frame per line, a request
\* that stays while the L2 works on it, a dirty victim overwritten only once its line
\* is on its way, an adapter that reads exactly while the L2 waits for a refill, and a
\* flush that has the L2 to itself.
THEOREM MemInvariant == Spec => []MemInv
BY MemInit, MemStep, PTL DEF Spec

\* The last store to a line is in a dirty frame of the L2, or memory holds it once the
\* beats on the way have arrived, whatever order evictions, refills, flushes and the
\* arbitration of the memory controller come in.
THEOREM NoStoreIsLost == Spec => []StoresAreDurable
<1>1. MemInv => StoresAreDurable
  BY DEF MemInv
<1> QED
  BY <1>1, MemInvariant, PTL

\* When the L2 reports flush_done, it holds nothing and every store is on its way.
THEOREM FlushIsComplete == Spec => []FlushLeavesNothing
<1>1. MemInv => FlushLeavesNothing
  <2> SUFFICES ASSUME MemInv, flush_seen PROVE FlushLeavesNothing
    BY DEF FlushLeavesNothing
  <2>1. \A f \in Frames : ~valid[f]
    BY DEF MemInv, FlushFits
  <2>2. \A l \in Lines : DirtyIn(l) = {}
    BY <2>1 DEF DirtyIn
  <2> QED
    BY <2>1, <2>2 DEF MemInv, StoresAreDurable, FlushLeavesNothing
<1> QED
  BY <1>1, MemInvariant, PTL

-----------------------------------------------------------------------------
(* The handshakes of the memory controller's two ports.                     *)

\* At most one port has its ready.
OneReady == ready \in {{}, {"wide"}, {"narrow"}}

LEMMA OneReadyStep == OneReady /\ [Next]_vars => OneReady'
<1> SUFFICES ASSUME OneReady, [Next]_vars PROVE OneReady'
  OBVIOUS
<1>1. CASE UNCHANGED ready
  BY <1>1 DEF OneReady
<1>2. CASE Controller
  <2>1. CASE Arbitrate
    BY <2>1 DEF Arbitrate, Readies, OneReady
  <2>2. CASE TakeWide \/ TakeNarrow
    BY <2>2 DEF TakeWide, TakeNarrow, OneReady
  <2>3. CASE WideWriteDone \/ WideReadDone \/ NarrowDone
    BY <1>1, <2>3 DEF WideWriteDone, WideReadDone, NarrowDone
  <2> QED
    BY <1>2, <2>1, <2>2, <2>3 DEF Controller
<1>3. CASE Request \/ FlushRequest \/ FlushRelease \/ NarrowRequest \/ UNCHANGED vars
  BY <1>1, <1>3 DEF Request, FlushRequest, FlushRelease, NarrowRequest, vars, ctrlvars
<1>4. CASE Adapter \/ AdapterResponse
  BY <1>1, <1>4 DEF Adapter, AdapterWriteBeat, AdapterReadBeat, AdapterResponse, ctrlvars
<1>5. CASE L2
  BY <1>1, <1>5 DEF L2, Flush, L2Accept, L2ReadHit, L2WriteHit, L2Miss, L2Writeback,
                    L2Allocate, L2FlushStart, L2FlushDrop, L2FlushWriteback,
                    L2FlushDone, ctrlvars
<1> QED
  BY <1>2, <1>3, <1>4, <1>5 DEF Next

\* Only the controller takes from the two ports, and only at their handshakes.
LEMMA PopsAtHandshakes ==
    ASSUME TypeOK, [Next]_vars, ~TakeWide, ~TakeNarrow
    PROVE  (narrow => narrow') /\ ~(Len(wreq') < Len(wreq))
<1>1. CASE UNCHANGED <<wreq, narrow>>
  <2>1. Len(wreq) \in Nat
    BY DEF TypeOK
  <2> QED
    BY <1>1, <2>1
<1>2. CASE Controller
  BY <1>1, <1>2 DEF Controller, Arbitrate, WideWriteDone, WideReadDone, NarrowDone, fifovars
<1>3. CASE Request \/ FlushRequest \/ FlushRelease \/ UNCHANGED vars
  BY <1>1, <1>3 DEF Request, FlushRequest, FlushRelease, vars, fifovars, ctrlvars
<1>4. CASE NarrowRequest
  <2>1. Len(wreq) \in Nat /\ wreq' = wreq /\ narrow'
    BY <1>4 DEF NarrowRequest, fifovars, TypeOK
  <2> QED
    BY <2>1
<1>5. CASE Adapter
  <2>1. PICK beat : wreq' = Append(wreq, beat)
    BY <1>5 DEF Adapter, AdapterWriteBeat, AdapterReadBeat
  <2>2. Len(wreq') = Len(wreq) + 1 /\ Len(wreq) \in Nat
    BY <2>1 DEF TypeOK
  <2>3. narrow' = narrow
    BY <1>5 DEF Adapter, AdapterWriteBeat, AdapterReadBeat, ctrlvars
  <2> QED
    BY <2>2, <2>3
<1>6. CASE AdapterResponse
  BY <1>1, <1>6 DEF AdapterResponse, ctrlvars
<1>7. CASE L2
  BY <1>1, <1>7 DEF L2, Flush, L2Accept, L2ReadHit, L2WriteHit, L2Miss, L2Writeback,
                    L2Allocate, L2FlushStart, L2FlushDrop, L2FlushWriteback,
                    L2FlushDone, fifovars, ctrlvars
<1> QED
  BY <1>2, <1>3, <1>4, <1>5, <1>6, <1>7 DEF Next

\* No request is popped and forgotten: what leaves the queue of a port becomes the
\* transaction in flight, because the readies are never up on both ports at once.
THEOREM NoRequestDestroyed == Spec => PoppedIsServed
<1>1. Init => OneReady
  BY DEF Init, OneReady
<1>2. TypeOK /\ OneReady /\ [Next]_vars
        => [/\ narrow /\ ~narrow' => cur' = [port |-> "NARROW"]
            /\ Len(wreq') < Len(wreq) => cur' = [port |-> "WIDE", beat |-> Head(wreq)]]_vars
  <2> SUFFICES ASSUME TypeOK, OneReady, [Next]_vars
               PROVE  /\ narrow /\ ~narrow' => cur' = [port |-> "NARROW"]
                      /\ Len(wreq') < Len(wreq)
                            => cur' = [port |-> "WIDE", beat |-> Head(wreq)]
    OBVIOUS
  <2>1. CASE TakeWide
    <3>1. "narrow" \notin ready
      BY <2>1 DEF TakeWide, TakesWide, OneReady
    <3> QED
      BY <2>1, <3>1 DEF TakeWide
  <2>2. CASE TakeNarrow
    <3>1. Len(wreq) \in Nat /\ wreq' = wreq /\ cur' = [port |-> "NARROW"]
      BY <2>2 DEF TakeNarrow, fifovars, TypeOK
    <3> QED
      BY <3>1
  <2>3. CASE ~TakeWide /\ ~TakeNarrow
    BY <2>3, PopsAtHandshakes
  <2> QED
    BY <2>1, <2>2, <2>3
<1>3. MemInv => TypeOK
  BY DEF MemInv
<1> QED
  BY <1>1, <1>2, <1>3, OneReadyStep, MemInvariant, PTL DEF Spec, PoppedIsServed

=============================================================================
