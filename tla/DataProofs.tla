---------------------------- MODULE DataProofs ----------------------------
(***************************************************************************)
(* The values of the lines: DataInv is inductive relative to IInv, so no   *)
(* cache ever holds a stale byte and no committed store is ever lost.  The *)
(* lemmas are grouped by what a step does to the copies.                   *)
(*                                                                         *)
(* Then what the memory system promises as a whole: a queue that never     *)
(* overflows, a fence that leaves every committed store in the L2, and one *)
(* atomic memory for the cores (the refinement of LineMemory).             *)
(***************************************************************************)
EXTENDS CoherentBusProofs

USE DEF l1vars, frontvars, enginevars, l2vars

\* The victim of a request in flight is a frame of the cache.
LEMMA VictimFrameType ==
    ASSUME TypeInv, NEW i \in Masters, state[i] \in {"EVICT", "REQ", "FILL"}
    PROVE  VictimFrame(i) \in Frames
<1>1. req[i] \in CoreReqs /\ victim[i] \in Ways
  BY DEF TypeInv, TypeOK, L1TypeOK, RequestsFit, RequestFits
<1>2. req[i].line \in Lines
  BY <1>1 DEF CoreReqs, CoreReads, CoreWrites
<1>. QED
  BY <1>1, <1>2, IndexAssumption DEF VictimFrame, ReqIndex, Frames

----------------------------------------------------------------------------
(* Steps that neither commit a store nor hand out a copy.                  *)

\* No cache gains a right, and neither a copy nor the history changes.
NoNewData == NoNewRights /\ UNCHANGED <<data, latest>>

LEMMA CopiesStay ==
    ASSUME CopiesAreLatest, NoNewData
    PROVE  CopiesAreLatest'
BY DEF CopiesAreLatest, NoNewData, NoNewRights

\* The registers a waiting write-back or a victim is described by.
CacheStays(j) ==
    UNCHANGED <<state[j], mesi[j], tag[j], req[j], victim[j], bus_req[j], fl_pos[j]>>

LEMMA WritebackStays ==
    ASSUME NEW j \in Masters, WritebackWaits(j), CacheStays(j), latest' = latest
    PROVE  WritebackWaits(j)'
<1>1. VictimFrame(j)' = VictimFrame(j)
  BY DEF CacheStays, VictimFrame, ReqIndex
<1>. QED
  BY <1>1 DEF CacheStays, WritebackWaits

LEMMA FrontStays ==
    ASSUME FrontCarriesLatest, NoNewData,
           UNCHANGED <<fstate, cur, dirty_acc, dirty_data>>
    PROVE  FrontCarriesLatest'
<1>1. fstate' = fstate /\ cur' = cur /\ dirty_acc' = dirty_acc /\ dirty_data' = dirty_data
      /\ latest' = latest
  BY DEF NoNewData
<1>. QED
  BY <1>1 DEF FrontCarriesLatest, NoNewData, NoNewRights, Owns

\* A cache that is to overwrite its victim still is.
StillOverwrites(j) ==
    Overwrites(j) => Overwrites(j)' /\ VictimFrame(j)' = VictimFrame(j)

LEMMA QueuedWritesStay ==
    ASSUME QueuedWritesAreLatest, NoNewData, queue' = queue,
           \A j \in Masters : StillOverwrites(j)
    PROVE  QueuedWritesAreLatest'
BY DEF QueuedWritesAreLatest, NoNewData, NoNewRights, Owns, StillOverwrites

LEMMA AnswersStay ==
    ASSUME AnswersAreLatest, UNCHANGED <<queue, estate, e_rdata, l2, latest>>
    PROVE  AnswersAreLatest'
BY DEF AnswersAreLatest, L2Current, Head0

LEMMA HandshakeStays ==
    ASSUME L2Handshake, UNCHANGED <<queue, estate, l2_accepted, l2_busy, l2, latest>>
    PROVE  L2Handshake'
BY DEF L2Handshake, L2Current, Head0

\* What is on its way stays so while the queue grows and lines keep their value.
LEMMA OnItsWayStays ==
    ASSUME NEW l, OnItsWay(l), UNCHANGED <<queue, l2, latest>>
    PROVE  OnItsWay(l)'
BY DEF OnItsWay, L2Current

LEMMA VictimStays ==
    ASSUME NEW j \in Masters, VictimSaved(j), CacheStays(j), UNCHANGED <<queue, l2, latest>>
    PROVE  VictimSaved(j)'
<1>1. VictimFrame(j)' = VictimFrame(j) /\ Overwrites(j)' = Overwrites(j)
  BY DEF CacheStays, VictimFrame, ReqIndex, Overwrites
<1>2. mesi'[j] = mesi[j] /\ tag'[j] = tag[j]
  BY DEF CacheStays
<1>. QED
  BY <1>1, <1>2, OnItsWayStays DEF VictimSaved

\* No value is lost while every Modified copy stays.
LEMMA LatestStays ==
    ASSUME LatestSurvives, UNCHANGED <<tag, queue, l2, latest>>,
           UNCHANGED <<fstate, cur, dirty_acc, dirty_data>>,
           \A j \in Masters, f \in Frames : mesi[j][f] = "M" => mesi'[j][f] = "M"
    PROVE  LatestSurvives'
<1>1. fstate' = fstate /\ cur' = cur /\ dirty_acc' = dirty_acc /\ dirty_data' = dirty_data
      /\ latest' = latest /\ tag' = tag /\ queue' = queue /\ l2' = l2
  OBVIOUS
<1>. QED
  BY <1>1 DEF LatestSurvives

\* A step of cache i alone that keeps its Modified copies and leaves the bus and
\* the L2 alone.
LEMMA LocalStepData ==
    ASSUME DataInv, NoNewData, NEW i \in Masters,
           UNCHANGED <<frontvars, enginevars, l2vars>>,
           \A j \in Masters : j # i => CacheStays(j),
           StillOverwrites(i),
           \A f \in Frames : mesi[i][f] = "M" => mesi'[i][f] = "M",
           WritebackWaits(i)', VictimSaved(i)'
    PROVE  DataInv'
<1>. USE DEF DataInv
<1>1. /\ UNCHANGED <<tag, data, latest, fstate, cur, dirty_acc, dirty_data>>
      /\ UNCHANGED <<queue, estate, e_rdata, l2_accepted, l2_busy, l2>>
  BY DEF NoNewData, NoNewRights
<1>2. WaitingWritebacks'
  BY <1>1, WritebackStays DEF WaitingWritebacks
<1>3. VictimsAreSaved'
  BY <1>1, VictimStays DEF VictimsAreSaved
<1>4. \A j \in Masters : StillOverwrites(j)
  BY DEF StillOverwrites, CacheStays, Overwrites, VictimFrame, ReqIndex
<1>5. \A j \in Masters, f \in Frames : mesi[j][f] = "M" => mesi'[j][f] = "M"
  BY DEF CacheStays
<1>. QED
  BY <1>1, <1>2, <1>3, <1>4, <1>5, CopiesStay, FrontStays, QueuedWritesStay, AnswersStay,
     HandshakeStays, LatestStays

\* The steps of cache i that change none of its copies and leave it neither
\* with a write-back to wait for nor with a victim to overwrite.
LEMMA RestingData ==
    ASSUME IInv, DataInv, NEW i \in Masters, NEW s \in L1States,
           s \notin {"EVICT", "FLUSH_WB", "REQ", "FILL"},
           state[i] \notin {"EVICT", "FLUSH_WB", "REQ", "FILL"},
           state' = [state EXCEPT ![i] = s],
           \A j \in Masters : j # i => /\ req'[j] = req[j] /\ victim'[j] = victim[j]
                                       /\ bus_req'[j] = bus_req[j] /\ fl_pos'[j] = fl_pos[j],
           UNCHANGED <<mesi, tag, data, latest, frontvars, enginevars, l2vars>>
    PROVE  DataInv'
<1>1. NoNewData
  BY DEF NoNewData, NoNewRights
<1>2. \A j \in Masters : state'[j] = IF j = i THEN s ELSE state[j]
  BY DEF IInv, TypeInv, TypeOK, L1TypeOK
<1>3. \A j \in Masters : j # i => CacheStays(j)
  BY <1>2 DEF CacheStays
<1>4. /\ StillOverwrites(i) /\ WritebackWaits(i)' /\ VictimSaved(i)'
  BY <1>2 DEF StillOverwrites, Overwrites, WritebackWaits, VictimSaved
<1>. QED
  BY <1>1, <1>3, <1>4, LocalStepData

LEMMA CoreRequestData ==
    ASSUME IInv, DataInv, NEW i \in Masters, CoreRequest(i)
    PROVE  DataInv'
<1>1. /\ state[i] = "IDLE" /\ state' = [state EXCEPT ![i] = "LOOKUP"]
      /\ \A j \in Masters : j # i => req'[j] = req[j]
      /\ UNCHANGED <<mesi, tag, data, victim, bus_req, fl_pos, latest>>
      /\ UNCHANGED <<frontvars, enginevars, l2vars>>
  BY DEF CoreRequest, IInv, TypeInv, TypeOK, L1TypeOK
<1>. QED
  BY <1>1, RestingData DEF L1States

LEMMA LookupReadHitData ==
    ASSUME IInv, DataInv, NEW i \in Masters, LookupReadHit(i)
    PROVE  DataInv'
<1>1. /\ state[i] = "LOOKUP" /\ state' = [state EXCEPT ![i] = "IDLE"]
      /\ \A j \in Masters : j # i => req'[j] = req[j]
      /\ UNCHANGED <<mesi, tag, data, victim, bus_req, fl_pos, latest>>
      /\ UNCHANGED <<frontvars, enginevars, l2vars>>
  BY DEF LookupReadHit, IInv, TypeInv, TypeOK, L1TypeOK
<1>. QED
  BY <1>1, RestingData DEF L1States

LEMMA FlushStartData ==
    ASSUME IInv, DataInv, NEW i \in Masters, FlushStart(i)
    PROVE  DataInv'
<1>1. /\ state[i] = "IDLE" /\ state' = [state EXCEPT ![i] = "FLUSH"]
      /\ \A j \in Masters : j # i => fl_pos'[j] = fl_pos[j]
      /\ UNCHANGED <<mesi, tag, data, req, victim, bus_req, latest>>
      /\ UNCHANGED <<frontvars, enginevars, l2vars>>
  BY DEF FlushStart, IInv, TypeInv, TypeOK, L1TypeOK
<1>. QED
  BY <1>1, RestingData DEF L1States

LEMMA FlushDoneData ==
    ASSUME IInv, DataInv, NEW i \in Masters, FlushDone(i)
    PROVE  DataInv'
<1>1. /\ state[i] = "FLUSH" /\ state' = [state EXCEPT ![i] = "IDLE"]
      /\ \A j \in Masters : j # i => fl_pos'[j] = fl_pos[j]
      /\ UNCHANGED <<mesi, tag, data, req, victim, bus_req, latest>>
      /\ UNCHANGED <<frontvars, enginevars, l2vars>>
  BY DEF FlushDone, IInv, TypeInv, TypeOK, L1TypeOK
<1>. QED
  BY <1>1, RestingData DEF L1States

\* An upgrade asks for a line the cache keeps: nothing is overwritten.
LEMMA LookupUpgradeData ==
    ASSUME IInv, DataInv, NEW i \in Masters, LookupUpgrade(i)
    PROVE  DataInv'
<1>1. /\ state[i] = "LOOKUP" /\ state' = [state EXCEPT ![i] = "REQ"]
      /\ victim' = [victim EXCEPT ![i] = HitWay(i, req[i].line)]
      /\ bus_req' = [bus_req EXCEPT ![i] =
                       [type |-> "UPGR", line |-> req[i].line, wdata |-> NoData]]
      /\ UNCHANGED <<mesi, tag, data, req, fl_pos, latest>>
      /\ UNCHANGED <<frontvars, enginevars, l2vars>>
  BY DEF LookupUpgrade
<1>2. DOMAIN state = Masters /\ DOMAIN victim = Masters /\ DOMAIN bus_req = Masters
  BY DEF IInv, TypeInv, TypeOK, L1TypeOK
<1>3. NoNewData
  BY <1>1 DEF NoNewData, NoNewRights
<1>4. \A j \in Masters : j # i => CacheStays(j)
  BY <1>1, <1>2 DEF CacheStays
<1>5. StillOverwrites(i) /\ WritebackWaits(i)' /\ VictimSaved(i)'
  BY <1>1, <1>2 DEF StillOverwrites, Overwrites, WritebackWaits, VictimSaved
<1>. QED
  BY <1>1, <1>3, <1>4, <1>5, LocalStepData

\* The dirty victim of a miss stays resident behind the write-back it waits for.
LEMMA LookupMissDirtyData ==
    ASSUME IInv, DataInv, NEW i \in Masters, LookupMissDirty(i)
    PROVE  DataInv'
<1>. DEFINE v == <<ReqIndex(i), victim_way(i, ReqIndex(i))>>
<1>1. /\ state[i] = "LOOKUP" /\ state' = [state EXCEPT ![i] = "EVICT"]
      /\ mesi[i][v] = "M"
      /\ victim' = [victim EXCEPT ![i] = victim_way(i, ReqIndex(i))]
      /\ bus_req' = [bus_req EXCEPT ![i] =
                       [type |-> "WB", line |-> tag[i][v], wdata |-> data[i][v]]]
      /\ UNCHANGED <<mesi, tag, data, req, fl_pos, latest>>
      /\ UNCHANGED <<frontvars, enginevars, l2vars>>
  BY DEF LookupMissDirty, Allocate
<1>2. DOMAIN state = Masters /\ DOMAIN victim = Masters /\ DOMAIN bus_req = Masters
  BY DEF IInv, TypeInv, TypeOK, L1TypeOK
<1>3. NoNewData
  BY <1>1 DEF NoNewData, NoNewRights
<1>4. \A j \in Masters : j # i => CacheStays(j)
  BY <1>1, <1>2 DEF CacheStays
<1>5. v \in Frames /\ data[i][v] = latest[tag[i][v]]
  <2>1. req[i].line \in Lines /\ rep_ptr \in [Masters -> [Sets -> Ways]]
    BY <1>1 DEF IInv, TypeInv, TypeOK, L1TypeOK, RequestsFit, RequestFits, CoreReqs,
                CoreReads, CoreWrites
  <2>2. ReqIndex(i) \in Sets
    BY <2>1, IndexAssumption DEF ReqIndex
  <2>3. v \in Frames
    BY <2>1, <2>2, VictimWayType DEF Frames
  <2>. QED
    BY <1>1, <2>3 DEF DataInv, CopiesAreLatest
<1>6. VictimFrame(i)' = v
  BY <1>1, <1>2 DEF VictimFrame, ReqIndex
<1>7. StillOverwrites(i) /\ WritebackWaits(i)' /\ VictimSaved(i)'
  <2>. HIDE DEF v
  <2>. QED
    BY <1>1, <1>2, <1>5, <1>6 DEF StillOverwrites, Overwrites, WritebackWaits, VictimSaved
<1>. QED
  BY <1>1, <1>3, <1>4, <1>7, LocalStepData

\* A clean victim is not the home of a value.
LEMMA LookupMissCleanData ==
    ASSUME IInv, DataInv, NEW i \in Masters, LookupMissClean(i)
    PROVE  DataInv'
<1>. DEFINE v == <<ReqIndex(i), victim_way(i, ReqIndex(i))>>
<1>1. /\ state[i] = "LOOKUP" /\ state' = [state EXCEPT ![i] = "REQ"]
      /\ mesi[i][v] # "M" /\ mesi' = [mesi EXCEPT ![i][v] = "I"]
      /\ victim' = [victim EXCEPT ![i] = victim_way(i, ReqIndex(i))]
      /\ bus_req' = [bus_req EXCEPT ![i] = FetchReq(i)]
      /\ UNCHANGED <<tag, data, req, fl_pos, latest>>
      /\ UNCHANGED <<frontvars, enginevars, l2vars>>
  BY DEF LookupMissClean, Allocate
<1>2. /\ DOMAIN state = Masters /\ DOMAIN victim = Masters /\ DOMAIN bus_req = Masters
      /\ mesi \in [Masters -> [Frames -> Mesi]]
  BY DEF IInv, TypeInv, TypeOK, L1TypeOK
<1>3. VictimFrame(i)' = v
  BY <1>1, <1>2 DEF VictimFrame, ReqIndex
<1>. HIDE DEF v
<1>4. NoNewData
  BY <1>1, <1>2 DEF NoNewData, NoNewRights
<1>5. \A j \in Masters : j # i => CacheStays(j)
  BY <1>1, <1>2 DEF CacheStays
<1>6. mesi'[i][v] # "M"
  BY <1>1, <1>2
<1>7. StillOverwrites(i) /\ WritebackWaits(i)' /\ VictimSaved(i)'
  BY <1>1, <1>2, <1>3, <1>6 DEF StillOverwrites, Overwrites, WritebackWaits, VictimSaved
<1>8. \A f \in Frames : mesi[i][f] = "M" => mesi'[i][f] = "M"
  BY <1>1, <1>2
<1>. QED
  BY <1>1, <1>4, <1>5, <1>7, <1>8, LocalStepData

LEMMA FlushDropData ==
    ASSUME IInv, DataInv, NEW i \in Masters, FlushDrop(i)
    PROVE  DataInv'
<1>1. /\ state[i] = "FLUSH" /\ state' = state
      /\ mesi[i][fl_pos[i]] # "M" /\ mesi' = [mesi EXCEPT ![i][fl_pos[i]] = "I"]
      /\ \A j \in Masters : j # i => fl_pos'[j] = fl_pos[j]
      /\ UNCHANGED <<tag, data, req, victim, bus_req, latest>>
      /\ UNCHANGED <<frontvars, enginevars, l2vars>>
  BY DEF FlushDrop, IInv, TypeInv, TypeOK, L1TypeOK
<1>2. mesi \in [Masters -> [Frames -> Mesi]]
  BY DEF IInv, TypeInv, TypeOK, L1TypeOK
<1>3. NoNewData
  BY <1>1, <1>2 DEF NoNewData, NoNewRights
<1>4. \A j \in Masters : j # i => CacheStays(j)
  BY <1>1, <1>2 DEF CacheStays
<1>5. StillOverwrites(i) /\ WritebackWaits(i)' /\ VictimSaved(i)'
  BY <1>1 DEF StillOverwrites, Overwrites, WritebackWaits, VictimSaved
<1>6. \A f \in Frames : mesi[i][f] = "M" => mesi'[i][f] = "M"
  BY <1>1, <1>2
<1>. QED
  BY <1>1, <1>3, <1>4, <1>5, <1>6, LocalStepData

LEMMA FlushWritebackData ==
    ASSUME IInv, DataInv, NEW i \in Masters, FlushWriteback(i)
    PROVE  DataInv'
<1>. DEFINE v == fl_pos[i]
<1>1. /\ state[i] = "FLUSH" /\ state' = [state EXCEPT ![i] = "FLUSH_WB"]
      /\ mesi[i][v] = "M" /\ v[1] < SETS
      /\ bus_req' = [bus_req EXCEPT ![i] =
                       [type |-> "WB", line |-> tag[i][v], wdata |-> data[i][v]]]
      /\ UNCHANGED <<mesi, tag, data, req, victim, fl_pos, latest>>
      /\ UNCHANGED <<frontvars, enginevars, l2vars>>
  BY DEF FlushWriteback
<1>2. DOMAIN state = Masters /\ DOMAIN bus_req = Masters
  BY DEF IInv, TypeInv, TypeOK, L1TypeOK
<1>3. NoNewData
  BY <1>1 DEF NoNewData, NoNewRights
<1>4. \A j \in Masters : j # i => CacheStays(j)
  BY <1>1, <1>2 DEF CacheStays
<1>5. v \in Frames
  <2>1. v \in (0 .. SETS) \X Ways
    BY DEF IInv, TypeInv, TypeOK, L1TypeOK
  <2>. QED
    BY <1>1, <2>1, WalkFrame
<1>6. data[i][v] = latest[tag[i][v]]
  BY <1>1, <1>5 DEF DataInv, CopiesAreLatest
<1>7. StillOverwrites(i) /\ WritebackWaits(i)' /\ VictimSaved(i)'
  BY <1>1, <1>2, <1>6 DEF StillOverwrites, Overwrites, WritebackWaits, VictimSaved
<1>. QED
  BY <1>1, <1>3, <1>4, <1>7, LocalStepData

----------------------------------------------------------------------------
(* Steps of the engine, the L2 and the sequencer: no cache changes.        *)

\* The L2 forgets no latest value, and what leaves the queue it has.
LEMMA EngineStepData ==
    ASSUME IInv, DataInv, UNCHANGED <<l1vars, frontvars, latest>>,
           \/ queue' = queue
           \/ queue' = Tail(queue) /\ queue # <<>> /\ L2Current(Head0.line),
           \A l \in Lines : L2Current(l) => L2Current(l)',
           estate' = "RESP" => /\ e_rdata' = latest[Head0.line]'
                               /\ L2Current(Head0.line)',
           L2Handshake'
    PROVE  DataInv'
<1>. USE DEF DataInv
<1>0. /\ UNCHANGED <<state, mesi, tag, data, req, victim, bus_req, fl_pos, latest>>
      /\ UNCHANGED <<fstate, cur, dirty_acc, dirty_data>>
      /\ queue \in Seq(QEntries)
  BY DEF IInv, TypeInv, TypeOK, BusTypeOK
<1>1. NoNewData /\ \A j \in Masters : CacheStays(j)
  BY <1>0 DEF NoNewData, NoNewRights, CacheStays
<1>2. /\ \A k \in 1 .. Len(queue') : \E n \in 1 .. Len(queue) : queue'[k] = queue[n]
      /\ \A n \in 1 .. Len(queue) :
            \/ \E k \in 1 .. Len(queue') : queue'[k] = queue[n]
            \/ L2Current(queue[n].line)
  <2>1. CASE queue' = queue
    BY <2>1
  <2>2. CASE queue' = Tail(queue) /\ queue # <<>> /\ L2Current(Head0.line)
    <3>1. \A k \in 1 .. Len(queue') : k + 1 \in 1 .. Len(queue) /\ queue'[k] = queue[k + 1]
      BY <1>0, <2>2, PopFacts
    <3>2. \A n \in 1 .. Len(queue) : n = 1 \/ (n - 1 \in 1 .. Len(queue') /\ n = (n - 1) + 1)
      BY <1>0, <2>2, PopFacts
    <3>. QED
      BY <2>2, <3>1, <3>2 DEF Head0
  <2>. QED
    BY <2>1, <2>2
<1>3. \A k \in 1 .. Len(queue) : queue[k].line \in Lines
  BY <1>0, SlotFacts
<1>4. \A l \in Lines : OnItsWay(l) => OnItsWay(l)'
  BY <1>2 DEF OnItsWay
<1>5. QueuedWritesAreLatest'
  <2>1. \A j \in Masters : StillOverwrites(j)
    BY <1>0 DEF StillOverwrites, Overwrites, VictimFrame, ReqIndex
  <2>2. \A l : \A j \in Masters, f \in Frames : Owns(j, f, l)' = Owns(j, f, l)
    BY <1>0 DEF Owns
  <2>. QED
    BY <1>0, <1>2, <2>1, <2>2 DEF QueuedWritesAreLatest, StillOverwrites
<1>6. AnswersAreLatest'
  BY <1>0, <1>2, <1>3 DEF AnswersAreLatest
<1>7. WaitingWritebacks'
  BY <1>0, <1>1, WritebackStays DEF WaitingWritebacks
<1>8. VictimsAreSaved'
  <2>. SUFFICES ASSUME NEW j \in Masters, Overwrites(j), mesi[j][VictimFrame(j)] = "M"
                PROVE  OnItsWay(tag[j][VictimFrame(j)])'
    BY <1>0 DEF VictimsAreSaved, VictimSaved, Overwrites, VictimFrame, ReqIndex
  <2>1. VictimFrame(j) \in Frames
    BY VictimFrameType DEF Overwrites, IInv
  <2>2. tag[j][VictimFrame(j)] \in Lines
    BY <2>1 DEF IInv, TypeInv, FramesFit
  <2>3. OnItsWay(tag[j][VictimFrame(j)])
    BY DEF VictimsAreSaved, VictimSaved
  <2>4. VictimFrame(j)' = VictimFrame(j) /\ tag' = tag
    BY <1>0 DEF VictimFrame, ReqIndex
  <2>. QED
    BY <1>4, <2>2, <2>3, <2>4 DEF OnItsWay, L2Current
<1>9. LatestSurvives'
  <2>. SUFFICES ASSUME NEW l \in Lines, ~(l2'[l] = latest'[l])
                PROVE  \/ \E i \in Masters, f \in Frames : mesi[i][f] = "M" /\ tag[i][f] = l
                       \/ \E k \in 1 .. Len(queue') : /\ queue'[k].wr /\ queue'[k].line = l
                                                     /\ queue'[k].wdata = latest[l]
                       \/ /\ fstate # "IDLE" /\ cur.line = l
                          /\ dirty_acc /\ dirty_data = latest[l]
    BY <1>0 DEF LatestSurvives
  <2>1. ~L2Current(l)
    BY DEF L2Current
  <2>2. LatestSurvives
    OBVIOUS
  <2>. QED
    BY <1>2, <2>1, <2>2 DEF LatestSurvives, L2Current
<1>10. CopiesAreLatest' /\ FrontCarriesLatest'
  BY <1>0, <1>1, CopiesStay, FrontStays
<1>. QED
  BY <1>5, <1>6, <1>7, <1>8, <1>9, <1>10

\* The fence changes no line.
LEMMA FenceData ==
    ASSUME IInv, DataInv, Fence
    PROVE  DataInv'
<1>1. /\ UNCHANGED <<state, mesi, tag, data, req, victim, bus_req, fl_pos, latest>>
      /\ UNCHANGED <<frontvars, enginevars, l2vars>>
  BY DEF Fence, FenceStart, FenceDrain, FenceL2, FenceComplete, FenceRelease
<1>2. NoNewData /\ \A j \in Masters : CacheStays(j) /\ StillOverwrites(j)
  BY <1>1 DEF NoNewData, NoNewRights, CacheStays, StillOverwrites, Overwrites, VictimFrame,
              ReqIndex
<1>3. WaitingWritebacks' /\ VictimsAreSaved'
  BY <1>1, <1>2, WritebackStays, VictimStays DEF DataInv, WaitingWritebacks, VictimsAreSaved
<1>. QED
  BY <1>1, <1>2, <1>3, CopiesStay, FrontStays, QueuedWritesStay, AnswersStay,
     HandshakeStays, LatestStays DEF DataInv

LEMMA EngineStartData ==
    ASSUME IInv, DataInv, EngineStart
    PROVE  DataInv'
<1>1. /\ estate = "IDLE" /\ estate' \in {"WR", "RD"} /\ l2_accepted' = FALSE
      /\ UNCHANGED <<l1vars, frontvars, latest>> /\ UNCHANGED <<queue, e_rdata, l2vars>>
  BY DEF EngineStart
<1>2. l2_busy' = FALSE
  BY <1>1 DEF DataInv, L2Handshake, IInv, TypeInv, TypeOK, BusTypeOK
<1>3. L2Handshake'
  BY <1>1, <1>2 DEF L2Handshake
<1>4. \A l \in Lines : L2Current(l) => L2Current(l)'
  BY <1>1 DEF L2Current
<1>. QED
  BY <1>1, <1>3, <1>4, EngineStepData

LEMMA L2AcceptData ==
    ASSUME IInv, DataInv, L2Accept
    PROVE  DataInv'
<1>1. /\ estate \in {"WR", "RD"} /\ l2_accepted' = TRUE /\ l2_busy' = TRUE
      /\ UNCHANGED <<l1vars, frontvars, latest>> /\ UNCHANGED <<queue, estate, e_rdata, l2>>
  BY DEF L2Accept
<1>2. L2Handshake'
  BY <1>1 DEF L2Handshake
<1>3. \A l \in Lines : L2Current(l) => L2Current(l)'
  BY <1>1 DEF L2Current
<1>. QED
  BY <1>1, <1>2, <1>3, EngineStepData

\* The queued write brings the L2 up to date.
LEMMA L2WriteData ==
    ASSUME IInv, DataInv, L2Write
    PROVE  DataInv'
<1>1. /\ l2_busy /\ estate = "WR" /\ l2' = [l2 EXCEPT ![Head0.line] = Head0.wdata]
      /\ l2_busy' = FALSE
      /\ UNCHANGED <<l1vars, frontvars, latest>>
      /\ UNCHANGED <<queue, estate, l2_accepted, e_rdata>>
  BY DEF L2Write
<1>2. queue \in Seq(QEntries) /\ queue # <<>> /\ Head0.wr /\ l2 \in [Lines -> LineData]
  BY <1>1 DEF IInv, TypeInv, TypeOK, BusTypeOK, EngineFits
<1>3. 1 \in 1 .. Len(queue) /\ Head0 = queue[1] /\ Head0.line \in Lines
  BY <1>2, PopFacts, SlotFacts DEF Head0
<1>4. Head0.wdata = latest[Head0.line]
  BY <1>2, <1>3 DEF DataInv, QueuedWritesAreLatest
<1>5. Head0' = Head0
  BY <1>1 DEF Head0
<1>6. L2Current(Head0.line)' /\ \A l \in Lines : L2Current(l) => L2Current(l)'
  BY <1>1, <1>2, <1>3, <1>4, <1>5 DEF L2Current
<1>7. L2Handshake'
  BY <1>1, <1>6 DEF L2Handshake, DataInv
<1>. QED
  BY <1>1, <1>6, <1>7, EngineStepData

LEMMA L2ReadData ==
    ASSUME IInv, DataInv, L2Read
    PROVE  DataInv'
<1>1. /\ l2_busy /\ estate = "RD" /\ e_rdata' = l2[Head0.line]
      /\ l2_busy' = FALSE /\ l2_accepted' = FALSE /\ estate' = "RESP"
      /\ UNCHANGED <<l1vars, frontvars, latest>> /\ UNCHANGED <<queue, l2>>
  BY DEF L2Read
<1>2. queue \in Seq(QEntries) /\ queue # <<>> /\ ~Head0.wr
  BY <1>1 DEF IInv, TypeInv, TypeOK, BusTypeOK, EngineFits
<1>3. 1 \in 1 .. Len(queue) /\ Head0 = queue[1] /\ Head0' = Head0
  BY <1>1, <1>2, PopFacts DEF Head0
<1>4. L2Current(Head0.line)
  BY <1>2, <1>3 DEF DataInv, AnswersAreLatest
<1>5. \A l : L2Current(l) => L2Current(l)'
  BY <1>1 DEF L2Current
<1>6. L2Handshake'
  BY <1>1 DEF L2Handshake
<1>7. e_rdata' = latest[Head0.line]' /\ L2Current(Head0.line)'
  BY <1>1, <1>3, <1>4 DEF L2Current
<1>. QED
  BY <1>1, <1>5, <1>6, <1>7, EngineStepData

\* The L2 has what a finished write has told it.
LEMMA EngineWriteDoneData ==
    ASSUME IInv, DataInv, EngineWriteDone
    PROVE  DataInv'
<1>1. /\ estate = "WR" /\ l2_accepted /\ ~l2_busy
      /\ l2_accepted' = FALSE /\ l2_busy' = l2_busy
      /\ UNCHANGED <<l1vars, frontvars, latest>> /\ l2' = l2
      /\ \/ /\ e_rdata' = Head0.wdata /\ estate' = "RESP" /\ queue' = queue
         \/ /\ queue' = Tail(queue) /\ estate' = "IDLE"
  BY DEF EngineWriteDone
<1>2. queue \in Seq(QEntries) /\ queue # <<>> /\ Head0.wr
  BY <1>1 DEF IInv, TypeInv, TypeOK, BusTypeOK, EngineFits
<1>3. 1 \in 1 .. Len(queue) /\ Head0 = queue[1]
  BY <1>2, PopFacts DEF Head0
<1>4. Head0.wdata = latest[Head0.line] /\ L2Current(Head0.line)
  BY <1>1, <1>2, <1>3 DEF DataInv, QueuedWritesAreLatest, L2Handshake
<1>5. \A l : L2Current(l) => L2Current(l)'
  BY <1>1 DEF L2Current
<1>6. L2Handshake'
  BY <1>1 DEF L2Handshake
<1>7. estate' = "RESP" => e_rdata' = latest[Head0.line]' /\ L2Current(Head0.line)'
  BY <1>1, <1>4 DEF L2Current, Head0
<1>. QED
  BY <1>1, <1>2, <1>4, <1>5, <1>6, <1>7, EngineStepData

\* A decision to answer at once carries on with what the snoops have found.
LEMMA DecideFastData ==
    ASSUME IInv, DataInv, DecideFast
    PROVE  DataInv'
<1>1. /\ UNCHANGED <<state, mesi, tag, data, req, victim, bus_req, fl_pos, latest>>
      /\ UNCHANGED <<enginevars, l2vars, cur, dirty_acc, dirty_data>>
      /\ fstate # "IDLE"
  BY DEF DecideFast, Decided
<1>2. NoNewData /\ \A j \in Masters : CacheStays(j) /\ StillOverwrites(j)
  BY <1>1 DEF NoNewData, NoNewRights, CacheStays, StillOverwrites, Overwrites, VictimFrame,
              ReqIndex
<1>3. WaitingWritebacks' /\ VictimsAreSaved'
  BY <1>1, <1>2, WritebackStays, VictimStays DEF DataInv, WaitingWritebacks, VictimsAreSaved
<1>4. FrontCarriesLatest'
  BY <1>1 DEF DataInv, FrontCarriesLatest, Owns
<1>5. fstate' # "IDLE"
  BY DEF DecideFast
<1>6. LatestSurvives'
  BY <1>1, <1>5 DEF DataInv, LatestSurvives
<1>. QED
  BY <1>1, <1>2, <1>3, <1>4, <1>6, CopiesStay, QueuedWritesStay, AnswersStay,
     HandshakeStays DEF DataInv

----------------------------------------------------------------------------
(* Steps of the crossbar's front-end: grant, snoop, decision.              *)

\* A transaction joins the queue: a write with the latest value of a line no
\* cache will change, or a read of a line the L2 has.
LEMMA PushData ==
    ASSUME IInv, DataInv, NoNewData, NEW e \in QEntries, queue' = Append(queue, e),
           UNCHANGED <<estate, l2_accepted, e_rdata, l2vars>>,
           \A j \in Masters : StillOverwrites(j),
           e.wr => /\ e.wdata = latest[e.line]
                   /\ \A j \in Masters, f \in Frames :
                         mesi'[j][f] \in {"M", "E"} /\ tag'[j][f] = e.line =>
                            Overwrites(j)' /\ f = VictimFrame(j)',
           ~e.wr => L2Current(e.line)
    PROVE  /\ QueuedWritesAreLatest' /\ AnswersAreLatest' /\ L2Handshake'
           /\ \A l : OnItsWay(l) => OnItsWay(l)'
<1>. USE DEF DataInv
<1>1. /\ queue \in Seq(QEntries) /\ latest' = latest
      /\ UNCHANGED <<estate, l2_accepted, e_rdata, l2_busy, l2>>
  BY DEF IInv, TypeInv, TypeOK, BusTypeOK, NoNewData
<1>2. /\ Len(queue') = Len(queue) + 1 /\ queue'[Len(queue) + 1] = e
      /\ \A k \in 1 .. Len(queue) : queue'[k] = queue[k]
      /\ Len(queue) \in Nat
      /\ queue # <<>> => queue'[1] = queue[1]
  BY <1>1, PushFacts
<1>4. \A k \in 1 .. Len(queue') : k \in 1 .. Len(queue) \/ queue'[k] = e
  BY <1>2
<1>5. QueuedWritesAreLatest'
  <2>. SUFFICES ASSUME NEW k \in 1 .. Len(queue'), queue'[k].wr
                PROVE  /\ queue'[k].wdata = latest'[queue'[k].line]
                       /\ \A j \in Masters, f \in Frames :
                             Owns(j, f, queue[k].line)' => Overwrites(j)' /\ f = VictimFrame(j)'
    BY DEF QueuedWritesAreLatest
  <2>1. CASE queue'[k] = e
    BY <1>1, <2>1 DEF Owns
  <2>2. CASE k \in 1 .. Len(queue)
    <3>1. queue'[k] = queue[k]
      BY <1>2, <2>2
    <3>2. /\ queue[k].wdata = latest[queue[k].line]
          /\ \A j \in Masters, f \in Frames :
                Owns(j, f, queue[k].line) => Overwrites(j) /\ f = VictimFrame(j)
      BY <2>2, <3>1 DEF QueuedWritesAreLatest
    <3>3. \A j \in Masters, f \in Frames :
             Owns(j, f, queue[k].line)' => Owns(j, f, queue[k].line)
      BY <3>1 DEF NoNewData, NoNewRights, Owns
    <3>. QED
      BY <1>1, <3>1, <3>2, <3>3 DEF StillOverwrites
  <2>. QED
    BY <1>4, <2>1, <2>2
<1>6. \A l : L2Current(l) => L2Current(l)'
  BY <1>1 DEF L2Current
<1>7. estate # "IDLE" => Head0' = Head0
  BY <1>2 DEF Head0, IInv, TypeInv, EngineFits
<1>8. AnswersAreLatest'
  <2>1. \A k \in 1 .. Len(queue') : ~queue'[k].wr => L2Current(queue[k].line)'
    BY <1>1, <1>2, <1>4 DEF AnswersAreLatest, L2Current
  <2>2. estate' = "RESP" => e_rdata' = latest[Head0.line]' /\ L2Current(Head0.line)'
    BY <1>1, <1>7 DEF AnswersAreLatest, L2Current
  <2>. QED
    BY <2>1, <2>2 DEF AnswersAreLatest
<1>9. L2Handshake'
  BY <1>1, <1>7 DEF L2Handshake, L2Current
<1>10. \A l : OnItsWay(l) => OnItsWay(l)'
  BY <1>1, <1>2 DEF OnItsWay, L2Current
<1>. QED
  BY <1>5, <1>8, <1>9, <1>10

\* The value of a Modified line moves into the queue; an evicting cache keeps the
\* copy until the fill it now asks for.
LEMMA GrantWBData ==
    ASSUME IInv, DataInv, NEW i \in Masters, GrantWB(i)
    PROVE  DataInv'
<1>. USE DEF DataInv
<1>. DEFINE e == [master |-> i, wr |-> TRUE, respond |-> FALSE, shared |-> FALSE,
                  line |-> bus_req[i].line, wdata |-> bus_req[i].wdata]
            v == IF state[i] = "EVICT" THEN VictimFrame(i) ELSE fl_pos[i]
<1>1. /\ queue' = Append(queue, e)
      /\ UNCHANGED <<tag, data, req, victim, latest, fstate, cur, dirty_acc, dirty_data>>
      /\ UNCHANGED <<estate, l2_accepted, e_rdata, l2vars>>
      /\ \/ /\ state[i] = "EVICT" /\ state' = [state EXCEPT ![i] = "REQ"]
            /\ bus_req' = [bus_req EXCEPT ![i] = FetchReq(i)]
            /\ mesi' = mesi /\ fl_pos' = fl_pos
         \/ /\ state[i] = "FLUSH_WB" /\ state' = [state EXCEPT ![i] = "FLUSH"]
            /\ bus_req' = [bus_req EXCEPT ![i] = NoBusReq]
            /\ mesi' = [mesi EXCEPT ![i][fl_pos[i]] = "I"]
            /\ fl_pos' = [fl_pos EXCEPT ![i] = NextPos(@)]
  BY DEF GrantWB
<1>2. /\ state \in [Masters -> L1States] /\ mesi \in [Masters -> [Frames -> Mesi]]
      /\ DOMAIN bus_req = Masters /\ DOMAIN fl_pos = Masters
      /\ RequestFits(i) /\ WritebackWaits(i)
  BY DEF IInv, TypeInv, TypeOK, L1TypeOK, RequestsFit, WaitingWritebacks
<1>3. /\ bus_req[i].line \in Lines /\ bus_req[i].wdata \in LineData
      /\ bus_req[i].wdata = latest[bus_req[i].line]
      /\ mesi[i][v] = "M" /\ tag[i][v] = bus_req[i].line
  BY <1>1, <1>2 DEF RequestFits, WritebackWaits
<1>4. v \in Frames
  BY <1>1, <1>2, VictimFrameType DEF IInv, RequestFits
<1>5. /\ e \in QEntries /\ e.wr /\ e.line = bus_req[i].line
      /\ e.wdata = latest[bus_req[i].line]
  BY <1>3 DEF QEntries
<1>6. VictimFrame(i)' = VictimFrame(i) /\ FetchReq(i).type # "UPGR"
  BY <1>1 DEF VictimFrame, ReqIndex, FetchReq, FetchType
<1>. HIDE DEF e
<1>7. NoNewData
  BY <1>1, <1>2 DEF NoNewData, NoNewRights
<1>8. \A j \in Masters : j # i => CacheStays(j)
  BY <1>1, <1>2 DEF CacheStays
<1>9. \A j \in Masters : StillOverwrites(j)
  BY <1>1, <1>8 DEF StillOverwrites, CacheStays, Overwrites, VictimFrame, ReqIndex
<1>10. ASSUME NEW j \in Masters, NEW f \in Frames, mesi'[j][f] \in {"M", "E"},
              tag'[j][f] = e.line
       PROVE  Overwrites(j)' /\ f = VictimFrame(j)'
  <2>1. mesi[j][f] \in {"M", "E"} /\ tag[j][f] = bus_req[i].line /\ mesi'[j][f] # "I"
    BY <1>1, <1>5, <1>7, <1>10 DEF Owns, NoNewData, NoNewRights
  <2>2. j = i /\ f = v
    BY <1>3, <1>4, <2>1 DEF IInv, CoherenceInv, SingleOwner, OneFramePerLine
  <2>3. state[i] = "EVICT"
    BY <1>1, <1>2, <1>4, <2>1, <2>2
  <2>. QED
    BY <1>1, <1>2, <1>6, <2>2, <2>3 DEF Overwrites
<1>11. /\ QueuedWritesAreLatest' /\ AnswersAreLatest' /\ L2Handshake'
       /\ \A l : OnItsWay(l) => OnItsWay(l)'
  <2>1. e.wr => /\ e.wdata = latest[e.line]
                /\ \A j \in Masters, f \in Frames :
                      mesi'[j][f] \in {"M", "E"} /\ tag'[j][f] = e.line =>
                            Overwrites(j)' /\ f = VictimFrame(j)'
    BY <1>5, <1>10
  <2>2. ~e.wr => L2Current(e.line)
    BY <1>5
  <2>. QED
    BY <1>1, <1>5, <1>7, <1>9, <2>1, <2>2, PushData
<1>12. \E k \in 1 .. Len(queue') : queue'[k] = e
  BY <1>1, <1>5, PushFacts DEF IInv, TypeInv, TypeOK, BusTypeOK
<1>13. WaitingWritebacks'
  <2>1. WritebackWaits(i)'
    BY <1>1, <1>2 DEF WritebackWaits
  <2>. QED
    BY <1>1, <1>8, <2>1, WritebackStays DEF WaitingWritebacks
<1>14. VictimsAreSaved'
  <2>1. VictimSaved(i)'
    <3>1. CASE state[i] = "EVICT"
      <4>1. OnItsWay(tag[i][VictimFrame(i)])'
        BY <1>1, <1>3, <1>5, <1>6, <1>12, <3>1 DEF OnItsWay
      <4>. QED
        BY <4>1 DEF VictimSaved
    <3>2. CASE state[i] # "EVICT"
      BY <1>1, <1>2, <3>2 DEF VictimSaved, Overwrites
    <3>. QED
      BY <3>1, <3>2
  <2>2. ASSUME NEW j \in Masters, j # i PROVE VictimSaved(j)'
    <3>1. VictimFrame(j)' = VictimFrame(j) /\ Overwrites(j)' = Overwrites(j)
      BY <1>8, <2>2 DEF CacheStays, VictimFrame, ReqIndex, Overwrites
    <3>2. mesi'[j] = mesi[j] /\ tag'[j] = tag[j] /\ VictimSaved(j)
      BY <1>8, <2>2 DEF CacheStays, VictimsAreSaved
    <3>. QED
      BY <1>1, <1>11, <3>1, <3>2 DEF VictimSaved, OnItsWay, L2Current
  <2>. QED
    BY <2>1, <2>2 DEF VictimsAreSaved
<1>15. LatestSurvives'
  <2>1. \A j \in Masters, f \in Frames : mesi[j][f] = "M" =>
           mesi'[j][f] = "M" \/ tag[j][f] = e.line
    BY <1>1, <1>2, <1>3, <1>5
  <2>2. \A k \in 1 .. Len(queue) : k \in 1 .. Len(queue') /\ queue'[k] = queue[k]
    BY <1>1, <1>5, PushFacts DEF IInv, TypeInv, TypeOK, BusTypeOK
  <2>3. LatestSurvives
    OBVIOUS
  <2>. QED
    BY <1>1, <1>5, <1>12, <2>1, <2>2, <2>3 DEF LatestSurvives
<1>. QED
  BY <1>1, <1>7, <1>11, <1>13, <1>14, <1>15, CopiesStay, FrontStays

\* The grant of a snoop phase starts with nothing collected.
LEMMA GrantSnoopData ==
    ASSUME IInv, DataInv, NEW i \in Masters, GrantSnoop(i)
    PROVE  DataInv'
<1>. USE DEF DataInv
<1>1. /\ bus_req[i].type \in SnoopTypes /\ Requesting(i) /\ fstate = "IDLE"
      /\ dirty_acc' = FALSE
      /\ state' = [state EXCEPT ![i] = "FILL"]
      /\ UNCHANGED <<mesi, tag, data, req, victim, bus_req, fl_pos, latest>>
      /\ UNCHANGED <<enginevars, l2vars>>
  BY DEF GrantSnoop, ArbGrant, Grantable
<1>2. state \in [Masters -> L1States] /\ RequestFits(i)
  BY DEF IInv, TypeInv, TypeOK, L1TypeOK, RequestsFit
<1>3. state[i] = "REQ"
  BY <1>1, <1>2 DEF Requesting, RequestFits, SnoopTypes
<1>4. NoNewData
  BY <1>1 DEF NoNewData, NoNewRights
<1>5. \A j \in Masters : j # i => CacheStays(j)
  BY <1>1, <1>2 DEF CacheStays
<1>6. /\ VictimFrame(i)' = VictimFrame(i) /\ Overwrites(i)' = Overwrites(i)
      /\ \A j \in Masters : StillOverwrites(j)
  BY <1>1, <1>2, <1>3 DEF StillOverwrites, Overwrites, VictimFrame, ReqIndex
<1>7. WaitingWritebacks'
  <2>1. WritebackWaits(i)'
    BY <1>1, <1>2 DEF WritebackWaits
  <2>. QED
    BY <1>1, <1>5, <2>1, WritebackStays DEF WaitingWritebacks
<1>8. VictimsAreSaved'
  <2>1. VictimSaved(i)'
    BY <1>1, <1>6, OnItsWayStays DEF VictimSaved, VictimsAreSaved
  <2>. QED
    BY <1>1, <1>5, <2>1, VictimStays DEF VictimsAreSaved
<1>9. LatestSurvives' /\ FrontCarriesLatest'
  BY <1>1 DEF LatestSurvives, FrontCarriesLatest
<1>. QED
  BY <1>1, <1>4, <1>6, <1>7, <1>8, <1>9, CopiesStay, QueuedWritesStay, AnswersStay,
     HandshakeStays

\* With every answer in and no dirty copy among them, the L2 has the line.
LEMMA CleanMeansCurrent ==
    ASSUME IInv, DataInv, Decided, ~dirty_acc
    PROVE  L2Current(cur.line)
<1>1. /\ fstate = "SNOOP" /\ snp_pending = {} /\ cur.line \in Lines
      /\ cur.line \notin QueuedLines /\ f_grant \in Masters
      /\ state[f_grant] = "FILL" /\ bus_req[f_grant].line = cur.line
  BY DEF Decided, IInv, TypeInv, TypeOK, BusTypeOK, FrontFits, OneTransactionPerLine,
         ResponsesAreAwaited
<1>2. \A j \in Masters, f \in Frames : ~(mesi[j][f] = "M" /\ tag[j][f] = cur.line)
  <2>1. \A j \in Masters \ {f_grant} :
           LeftBehind(j, cur.line, cur.type # "RD" \/ ~(hit_acc \/ dirty_acc))
    BY <1>1 DEF IInv, CoherenceInv, AnsweredSnoops
  <2>2. \A f \in Frames : ~(mesi[f_grant][f] = "M" /\ tag[f_grant][f] = cur.line)
    <3>1. RequestFits(f_grant) /\ RequestFitsCopies(f_grant)
      BY <1>1 DEF IInv, TypeInv, RequestsFit, CoherenceInv, RequestsFitCopies
    <3>2. VictimFrame(f_grant) \in Frames
      BY <1>1, VictimFrameType DEF IInv
    <3>. QED
      BY <1>1, <3>1, <3>2 DEF RequestFits, RequestFitsCopies, Lacks, IInv, CoherenceInv,
         OneFramePerLine
  <2>. QED
    BY <2>1, <2>2 DEF LeftBehind
<1>3. \A k \in 1 .. Len(queue) : queue[k].line # cur.line
  BY <1>1 DEF QueuedLines
<1>. QED
  BY <1>1, <1>2, <1>3 DEF DataInv, LatestSurvives, L2Current

LEMMA DecideQueueData ==
    ASSUME IInv, DataInv, DecideQueue
    PROVE  DataInv'
<1>. USE DEF DataInv
<1>. DEFINE e == [master |-> f_grant, wr |-> dirty_acc, respond |-> TRUE,
                  shared |-> dirty_acc \/ (cur.type = "RD" /\ hit_acc),
                  line |-> cur.line,
                  wdata |-> IF dirty_acc THEN dirty_data ELSE NoData]
<1>1. /\ Decided /\ fstate = "SNOOP" /\ queue' = Append(queue, e) /\ fstate' = "IDLE"
      /\ UNCHANGED <<state, mesi, tag, data, req, victim, bus_req, fl_pos, latest>>
      /\ UNCHANGED <<estate, l2_accepted, e_rdata, l2vars>>
  BY DEF DecideQueue, Decided, ClearFront
<1>2. /\ f_grant \in Masters /\ cur.type \in SnoopTypes /\ cur.line \in Lines
      /\ dirty_acc \in BOOLEAN /\ hit_acc \in BOOLEAN
      /\ (dirty_acc => dirty_data \in LineData)
  BY <1>1 DEF IInv, TypeInv, TypeOK, BusTypeOK, FrontFits
<1>3. e \in QEntries /\ e.wr = dirty_acc /\ e.line = cur.line
      /\ (dirty_acc => e.wdata = dirty_data)
  <2>1. (dirty_acc \/ (cur.type = "RD" /\ hit_acc)) \in BOOLEAN
    OBVIOUS
  <2>2. (IF dirty_acc THEN dirty_data ELSE NoData) \in LineData \union {NoData}
    BY <1>2
  <2>. QED
    BY <1>2, <2>1, <2>2 DEF QEntries
<1>. HIDE DEF e
<1>4. NoNewData /\ \A j \in Masters : CacheStays(j) /\ StillOverwrites(j)
  BY <1>1 DEF NoNewData, NoNewRights, CacheStays, StillOverwrites, Overwrites, VictimFrame,
              ReqIndex
<1>5. dirty_acc => /\ dirty_data = latest[cur.line]
                   /\ \A j \in Masters, f \in Frames : ~Owns(j, f, cur.line)
  BY <1>1 DEF FrontCarriesLatest
<1>6. ~dirty_acc => L2Current(cur.line)
  BY <1>1, CleanMeansCurrent
<1>7. \A j \in Masters, f \in Frames :
         mesi'[j][f] \in {"M", "E"} /\ tag'[j][f] = e.line => Owns(j, f, cur.line)
  BY <1>1, <1>3 DEF Owns
<1>8. /\ QueuedWritesAreLatest' /\ AnswersAreLatest' /\ L2Handshake'
      /\ \A l : OnItsWay(l) => OnItsWay(l)'
  <2>1. e.wr => /\ e.wdata = latest[e.line]
                /\ \A j \in Masters, f \in Frames :
                      mesi'[j][f] \in {"M", "E"} /\ tag'[j][f] = e.line =>
                            Overwrites(j)' /\ f = VictimFrame(j)'
    BY <1>3, <1>5, <1>7
  <2>2. ~e.wr => L2Current(e.line)
    BY <1>3, <1>6
  <2>. QED
    BY <1>1, <1>3, <1>4, <2>1, <2>2, PushData
<1>9. WaitingWritebacks'
  BY <1>1, <1>4, WritebackStays DEF WaitingWritebacks
<1>10. VictimsAreSaved'
  BY <1>1, <1>8 DEF VictimsAreSaved, VictimSaved, Overwrites, VictimFrame, ReqIndex, OnItsWay,
                    L2Current
<1>11. FrontCarriesLatest'
  BY <1>1 DEF FrontCarriesLatest
<1>12. LatestSurvives'
  <2>1. /\ \A k \in 1 .. Len(queue) : k \in 1 .. Len(queue') /\ queue'[k] = queue[k]
        /\ \E k \in 1 .. Len(queue') : queue'[k] = e
    BY <1>1, <1>3, PushFacts DEF IInv, TypeInv, TypeOK, BusTypeOK
  <2>2. LatestSurvives
    OBVIOUS
  <2>. QED
    BY <1>1, <1>3, <2>1, <2>2 DEF LatestSurvives
<1>. QED
  BY <1>1, <1>4, <1>8, <1>9, <1>10, <1>11, <1>12, CopiesStay

\* A write-back whose victim the snoop takes is cancelled, any other waits on.
LEMMA EvictingAnswers ==
    ASSUME IInv, NEW k \in Masters, SnoopAnswer(k), state[k] = "EVICT",
           Hits(k, cur.line) # {}
    PROVE  /\ bus_req[k].line = cur.line => state'[k] = "REQ"
           /\ bus_req[k].line # cur.line => /\ state'[k] = "EVICT"
                                            /\ bus_req'[k] = bus_req[k]
<1>1. DOMAIN state = Masters /\ DOMAIN bus_req = Masters
  BY DEF IInv, TypeInv, TypeOK, L1TypeOK
<1>. QED
  BY <1>1 DEF SnoopAnswer, SnoopHits, LosesVictim, LosesUpgrade

\* A snoop that finds a dirty copy takes its value along and leaves no owner.
LEMMA SnoopAnswerData ==
    ASSUME IInv, DataInv, NEW k \in Masters, SnoopAnswer(k)
    PROVE  DataInv'
<1>. USE DEF DataInv
<1>. DEFINE Kept == UNCHANGED <<bus_req, state>>
            Refetch == /\ state[k] = "REQ" /\ bus_req[k].type = "UPGR" /\ UNCHANGED state
                       /\ bus_req' = [bus_req EXCEPT ![k] = [@ EXCEPT !.type = "RDX"]]
            Cancel == /\ state[k] = "EVICT"
                      /\ bus_req' = [bus_req EXCEPT ![k] = FetchReq(k)]
                      /\ state' = [state EXCEPT ![k] = "REQ"]
            Missed == /\ UNCHANGED <<mesi, bus_req, state, dirty_data>>
                      /\ dirty_acc' = dirty_acc
            Found(f) == /\ mesi[k][f] # "I" /\ tag[k][f] = cur.line
                        /\ mesi' = [mesi EXCEPT ![k][f] = SnoopedState(cur.type)]
                        /\ dirty_acc' = (dirty_acc \/ mesi[k][f] = "M")
                        /\ dirty_data' = IF mesi[k][f] = "M" THEN data[k][f] ELSE dirty_data
                        /\ Hits(k, cur.line) # {}
                        /\ Kept \/ Refetch \/ Cancel
<1>1. TypeInv /\ SnoopAnswer(k)
  BY DEF IInv
<1>2. /\ fstate = "SNOOP" /\ k \in snp_pending /\ k # f_grant
      /\ state[k] \in {"IDLE", "EVICT", "REQ"} /\ cur.line \in Lines
      /\ UNCHANGED <<tag, data, req, victim, fl_pos, fstate, cur, latest>>
      /\ UNCHANGED <<enginevars, l2vars>>
  BY <1>1, SnoopAnswerFacts
<1>3. Missed \/ \E f \in Frames : Found(f)
  <2>1. dirty_acc \in BOOLEAN
    BY <1>1 DEF TypeInv, TypeOK, BusTypeOK
  <2>2. \/ /\ UNCHANGED <<mesi, bus_req, state, dirty_data>>
           /\ dirty_acc' = (dirty_acc \/ FALSE)
        \/ \E f \in Frames :
              /\ f = HitFrame(k, cur.line)
              /\ mesi[k][f] # "I" /\ tag[k][f] = cur.line
              /\ mesi' = [mesi EXCEPT ![k][f] = SnoopedState(cur.type)]
              /\ dirty_acc' = (dirty_acc \/ mesi[k][f] = "M")
              /\ dirty_data' = IF mesi[k][f] = "M" THEN data[k][f] ELSE dirty_data
              /\ Kept \/ Refetch \/ Cancel
    BY <1>1, SnoopAnswerFacts, ZenonT(40)
  <2>3. dirty_acc' = (dirty_acc \/ FALSE) => dirty_acc' = dirty_acc
    BY <2>1
  <2>4. ASSUME NEW f \in Frames, mesi[k][f] # "I", tag[k][f] = cur.line
        PROVE  Hits(k, cur.line) # {}
    BY <1>2, <2>4, MissLacks DEF Lacks
  <2>. HIDE DEF Kept, Refetch, Cancel
  <2>. QED
    BY <2>2, <2>3, <2>4
<1>4. /\ state \in [Masters -> L1States] /\ mesi \in [Masters -> [Frames -> Mesi]]
      /\ bus_req \in [Masters -> BusReqs \union {NoBusReq}] /\ dirty_acc \in BOOLEAN
      /\ RequestFits(k) /\ RequestFitsCopies(k) /\ OneFramePerLine
      /\ WritebackWaits(k) /\ VictimSaved(k)
  BY DEF IInv, TypeInv, TypeOK, L1TypeOK, BusTypeOK, RequestsFit, CoherenceInv,
         RequestsFitCopies, WaitingWritebacks, VictimsAreSaved
<1>5. SnoopedState(cur.type) \in {"S", "I"}
  BY DEF SnoopedState
<1>6. NoNewData
  BY <1>2, <1>3, <1>4, <1>5 DEF NoNewData, NoNewRights
<1>7. \A j \in Masters : j # k => CacheStays(j)
  BY <1>2, <1>3, <1>4 DEF CacheStays
<1>8. VictimFrame(k)' = VictimFrame(k)
  BY <1>2 DEF VictimFrame, ReqIndex
<1>9. \A j \in Masters : StillOverwrites(j)
  <2>1. StillOverwrites(k)
    <3>1. bus_req'[k].type = bus_req[k].type \/ Overwrites(k) = FALSE
      BY <1>3, <1>4 DEF Overwrites
    <3>2. state'[k] = state[k] \/ Overwrites(k) = FALSE
      BY <1>3, <1>4 DEF Overwrites
    <3>. QED
      BY <1>8, <3>1, <3>2 DEF StillOverwrites, Overwrites
  <2>2. ASSUME NEW j \in Masters, j # k PROVE StillOverwrites(j)
    BY <1>7, <2>2 DEF StillOverwrites, CacheStays, Overwrites, VictimFrame, ReqIndex
  <2>. QED
    BY <2>1, <2>2
<1>10. FrontCarriesLatest'
  <2>1. CASE Missed
    BY <1>2, <1>6, <2>1, FrontStays
  <2>2. ASSUME NEW f \in Frames, Found(f), mesi[k][f] = "M" PROVE FrontCarriesLatest'
    <3>1. dirty_data' = latest[cur.line]
      BY <1>2, <2>2 DEF CopiesAreLatest
    <3>2. ASSUME NEW j \in Masters, NEW g \in Frames, mesi'[j][g] \in {"M", "E"},
                 tag[j][g] = cur.line
          PROVE  FALSE
      <4>1. mesi[j][g] # "I"
        BY <1>6, <3>2 DEF NoNewData, NoNewRights
      <4>2. j = k /\ g = f
        BY <1>4, <2>2, <3>2, <4>1 DEF IInv, CoherenceInv, SingleOwner, OneFramePerLine
      <4>. QED
        BY <1>4, <1>5, <2>2, <3>2, <4>2
    <3>. QED
      BY <1>2, <3>1, <3>2 DEF FrontCarriesLatest, Owns
  <2>3. ASSUME NEW f \in Frames, Found(f), mesi[k][f] # "M" PROVE FrontCarriesLatest'
    BY <1>2, <1>4, <1>6, <2>3, FrontStays
  <2>. QED
    BY <1>3, <2>1, <2>2, <2>3
<1>11. WaitingWritebacks'
  <2>1. WritebackWaits(k)'
    <3>1. CASE Missed
      BY <1>2, <1>4, <1>8, <3>1 DEF WritebackWaits
    <3>2. ASSUME NEW f \in Frames, Found(f) PROVE WritebackWaits(k)'
      <4>1. CASE state[k] = "EVICT" /\ bus_req[k].line # cur.line
        <5>1. state'[k] = "EVICT" /\ bus_req'[k] = bus_req[k]
          BY <3>2, <4>1, EvictingAnswers
        <5>2. mesi'[k][VictimFrame(k)] = mesi[k][VictimFrame(k)]
          BY <1>4, <3>2, <4>1 DEF WritebackWaits
        <5>. QED
          BY <1>2, <1>4, <1>8, <4>1, <5>1, <5>2 DEF WritebackWaits
      <4>2. CASE state[k] = "EVICT" /\ bus_req[k].line = cur.line
        <5>1. state'[k] = "REQ"
          BY <3>2, <4>2, EvictingAnswers
        <5>. QED
          BY <5>1 DEF WritebackWaits
      <4>3. CASE state[k] # "EVICT"
        <5>1. state'[k] = state[k]
          BY <3>2, <4>3
        <5>. QED
          BY <1>2, <4>3, <5>1 DEF WritebackWaits
      <4>. QED
        BY <4>1, <4>2, <4>3
    <3>. QED
      BY <1>3, <3>1, <3>2
  <2>. QED
    BY <1>2, <1>7, <2>1, WritebackStays DEF WaitingWritebacks
<1>12. VictimsAreSaved'
  <2>1. VictimSaved(k)'
    <3>. SUFFICES ASSUME Overwrites(k)', mesi'[k][VictimFrame(k)] = "M"
                  PROVE  OnItsWay(tag[k][VictimFrame(k)])'
      BY <1>2, <1>8 DEF VictimSaved
    <3>1. CASE Overwrites(k)
      <4>1. VictimFrame(k) \in Frames
        BY <1>1, <3>1, VictimFrameType DEF Overwrites
      <4>2. mesi[k][VictimFrame(k)] = "M"
        BY <1>3, <1>4, <1>5, <4>1
      <4>3. OnItsWay(tag[k][VictimFrame(k)])
        BY <1>4, <3>1, <4>2 DEF VictimSaved
      <4>. QED
        BY <1>2, <1>8, <4>3 DEF OnItsWay, L2Current
    <3>2. CASE ~Overwrites(k)
      <4>1. PICK f \in Frames : Found(f)
        BY <1>3, <3>2 DEF Overwrites
      <4>2. CASE state[k] = "REQ"
        <5>1. bus_req[k].type = "UPGR"
          BY <3>2, <4>2 DEF Overwrites
        <5>2. mesi[k][VictimFrame(k)] = "S"
          BY <1>4, <4>2, <5>1 DEF RequestFitsCopies
        <5>3. mesi'[k][VictimFrame(k)] # "M"
          BY <1>4, <1>5, <4>1, <5>2
        <5>. QED
          BY <5>3
      <4>3. CASE state[k] = "EVICT"
        <5>1. bus_req[k].line = cur.line
          BY <1>2, <4>1, <4>3, EvictingAnswers DEF Overwrites
        <5>2. VictimFrame(k) \in Frames
          BY <4>3, VictimFrameType DEF IInv
        <5>3. mesi[k][VictimFrame(k)] = "M" /\ tag[k][VictimFrame(k)] = cur.line
          BY <1>4, <4>3, <5>1 DEF WritebackWaits
        <5>4. VictimFrame(k) = f
          BY <1>4, <4>1, <5>2, <5>3 DEF OneFramePerLine
        <5>5. mesi'[k][VictimFrame(k)] # "M"
          BY <1>4, <1>5, <4>1, <5>4
        <5>. QED
          BY <5>5
      <4>4. CASE state[k] = "IDLE"
        BY <1>2, <4>1, <4>4 DEF Overwrites
      <4>. QED
        BY <1>2, <4>2, <4>3, <4>4
    <3>. QED
      BY <3>1, <3>2
  <2>. QED
    BY <1>2, <1>7, <2>1, VictimStays DEF VictimsAreSaved
<1>13. LatestSurvives'
  <2>1. dirty_acc => dirty_acc'
    BY <1>3
  <2>2. ASSUME NEW j \in Masters, NEW f \in Frames, mesi[j][f] = "M", mesi'[j][f] # "M"
        PROVE  tag[j][f] = cur.line /\ dirty_acc'
    <3>1. PICK g \in Frames : Found(g)
      BY <1>3, <2>2
    <3>2. j = k /\ f = g
      BY <1>4, <2>2, <3>1
    <3>. QED
      BY <2>2, <3>1, <3>2
  <2>3. dirty_acc' => dirty_data' = latest[cur.line]
    BY <1>2, <1>10 DEF FrontCarriesLatest
  <2>4. LatestSurvives
    OBVIOUS
  <2>. QED
    BY <1>2, <2>1, <2>2, <2>3, <2>4 DEF LatestSurvives
<1>. QED
  BY <1>2, <1>6, <1>9, <1>10, <1>11, <1>12, <1>13, CopiesStay, QueuedWritesStay,
     AnswersStay, HandshakeStays

----------------------------------------------------------------------------
(* Steps that commit a store or hand out a copy.                           *)

\* A cache that is about to write its own copy is not part of a transaction in
\* flight on the line, and holds the only copy.
LEMMA WriterIsAlone ==
    ASSUME IInv, DataInv, NEW i \in Masters, NEW f \in Frames, NEW l \in Lines,
           state[i] = "LOOKUP", Owns(i, f, l)
    PROVE  /\ \A k \in 1 .. Len(queue) : queue[k].line # l
           /\ fstate # "IDLE" /\ dirty_acc => cur.line # l
           /\ \A j \in Masters, g \in Frames :
                 (j # i \/ g # f) /\ mesi[j][g] # "I" => tag[j][g] # l
<1>1. mesi[i][f] \in {"M", "E"} /\ tag[i][f] = l
  BY DEF Owns
<1>2. ASSUME NEW k \in 1 .. Len(queue), queue[k].line = l PROVE FALSE
  <2>1. CASE queue[k].wr
    BY <1>2, <2>1 DEF DataInv, QueuedWritesAreLatest, Overwrites
  <2>2. CASE ~queue[k].wr
    <3>1. /\ queue[k].respond /\ state[queue[k].master] = "FILL"
          /\ \A j \in Masters \ {queue[k].master} :
                LeftBehind(j, queue[k].line, ~queue[k].shared)
      BY <2>2 DEF IInv, TypeInv, EngineFits, ResponsesAreAwaited, CoherenceInv,
                  QueuedAnswers
    <3>. QED
      BY <1>1, <1>2, <3>1 DEF LeftBehind
  <2>. QED
    BY <2>1, <2>2
<1>3. ASSUME fstate # "IDLE", dirty_acc, cur.line = l PROVE FALSE
  BY <1>3 DEF DataInv, FrontCarriesLatest
<1>4. \A j \in Masters, g \in Frames :
         (j # i \/ g # f) /\ mesi[j][g] # "I" => tag[j][g] # l
  BY <1>1 DEF IInv, CoherenceInv, SingleOwner, OneFramePerLine
<1>. QED
  BY <1>2, <1>3, <1>4

LEMMA LookupWriteHitData ==
    ASSUME IInv, DataInv, NEW i \in Masters, LookupWriteHit(i)
    PROVE  DataInv'
<1>. USE DEF DataInv
<1>. DEFINE l == req[i].line
            f == HitFrame(i, l)
            x == merge_line(data[i][f], req[i].wdata, req[i].be)
            y == merge_line(latest[l], req[i].wdata, req[i].be)
<1>1. /\ state[i] = "LOOKUP" /\ state' = [state EXCEPT ![i] = "IDLE"]
      /\ Hits(i, l) # {} /\ mesi[i][f] \in {"M", "E"}
      /\ data' = [data EXCEPT ![i][f] = x]
      /\ mesi' = [mesi EXCEPT ![i][f] = "M"]
      /\ latest' = [latest EXCEPT ![l] = y]
      /\ req' = [req EXCEPT ![i] = NoReq]
      /\ UNCHANGED <<tag, victim, bus_req, fl_pos>>
      /\ UNCHANGED <<frontvars, enginevars, l2vars>>
  BY DEF LookupWriteHit, Commit
<1>2. /\ state \in [Masters -> L1States] /\ mesi \in [Masters -> [Frames -> Mesi]]
      /\ data \in [Masters -> [Frames -> LineData \union {NoData}]]
      /\ latest \in [Lines -> LineData] /\ DOMAIN req = Masters
      /\ queue \in Seq(QEntries) /\ l \in Lines
  BY <1>1 DEF IInv, TypeInv, TypeOK, L1TypeOK, BusTypeOK, RequestsFit, RequestFits, CoreReqs,
              CoreReads, CoreWrites
<1>3. f \in Frames /\ tag[i][f] = l
  BY <1>1, <1>2, HitFrameHolds
<1>4. x = y
  BY <1>1, <1>3 DEF CopiesAreLatest
<1>. HIDE DEF f, l, x, y
<1>5. /\ \A k \in 1 .. Len(queue) : queue[k].line # l
      /\ fstate # "IDLE" /\ dirty_acc => cur.line # l
      /\ \A j \in Masters, g \in Frames :
            (j # i \/ g # f) /\ mesi[j][g] # "I" => tag[j][g] # l
  BY <1>1, <1>2, <1>3, WriterIsAlone DEF Owns
<1>6. /\ mesi'[i][f] = "M" /\ data'[i][f] = y /\ latest'[l] = y
      /\ \A j \in Masters, g \in Frames :
            j # i \/ g # f => mesi'[j][g] = mesi[j][g] /\ data'[j][g] = data[j][g]
      /\ \A j \in Masters : j # i => /\ state'[j] = state[j] /\ mesi'[j] = mesi[j]
                                     /\ req'[j] = req[j]
      /\ \A m : m # l => latest'[m] = latest[m]
      /\ state'[i] = "IDLE"
  BY <1>1, <1>2, <1>3, <1>4
<1>7. CopiesAreLatest'
  BY <1>1, <1>3, <1>5, <1>6 DEF CopiesAreLatest
<1>8. ASSUME NEW j \in Masters, j # i PROVE WritebackWaits(j)' /\ VictimSaved(j)'
  <2>1. VictimFrame(j)' = VictimFrame(j) /\ Overwrites(j)' = Overwrites(j)
    BY <1>1, <1>6, <1>8 DEF VictimFrame, ReqIndex, Overwrites
  <2>2. WritebackWaits(j) /\ VictimSaved(j)
    BY DEF WaitingWritebacks, VictimsAreSaved
  <2>3. state[j] = "FLUSH_WB" => fl_pos[j] \in Frames
    BY DEF IInv, TypeInv, RequestsFit, RequestFits
  <2>4. state[j] \in {"EVICT", "REQ", "FILL"} => VictimFrame(j) \in Frames
    BY VictimFrameType DEF IInv
  <2>5. state[j] \in {"EVICT", "FLUSH_WB"} => bus_req[j].line # l
    BY <1>5, <1>8, <2>2, <2>3, <2>4 DEF WritebackWaits
  <2>6. WritebackWaits(j)'
    BY <1>1, <1>6, <1>8, <2>1, <2>2, <2>5 DEF WritebackWaits
  <2>7. VictimSaved(j)'
    <3>. SUFFICES ASSUME Overwrites(j), mesi[j][VictimFrame(j)] = "M"
                  PROVE  OnItsWay(tag[j][VictimFrame(j)])'
      BY <1>1, <1>6, <1>8, <2>1 DEF VictimSaved
    <3>1. tag[j][VictimFrame(j)] # l
      BY <1>5, <1>8, <2>4 DEF Overwrites
    <3>. QED
      BY <1>1, <1>6, <2>1, <2>2, <3>1 DEF VictimSaved, OnItsWay, L2Current
  <2>. QED
    BY <2>6, <2>7
<1>9. WaitingWritebacks' /\ VictimsAreSaved'
  <2>1. WritebackWaits(i)' /\ VictimSaved(i)'
    BY <1>6 DEF WritebackWaits, VictimSaved, Overwrites
  <2>. QED
    BY <1>8, <2>1 DEF WaitingWritebacks, VictimsAreSaved
<1>10. FrontCarriesLatest'
  BY <1>1, <1>3, <1>5, <1>6 DEF FrontCarriesLatest, Owns
<1>11. QueuedWritesAreLatest'
  <2>. SUFFICES ASSUME NEW k \in 1 .. Len(queue), queue[k].wr
                PROVE  /\ queue[k].wdata = latest'[queue[k].line]
                       /\ \A j \in Masters, g \in Frames :
                             mesi'[j][g] \in {"M", "E"} /\ tag[j][g] = queue[k].line
                                => Overwrites(j)' /\ g = VictimFrame(j)'
    BY <1>1 DEF QueuedWritesAreLatest, Owns
  <2>1. queue[k].wdata = latest'[queue[k].line]
    BY <1>5, <1>6 DEF QueuedWritesAreLatest
  <2>2. ASSUME NEW j \in Masters, NEW g \in Frames, mesi'[j][g] \in {"M", "E"},
               tag[j][g] = queue[k].line
        PROVE  Overwrites(j)' /\ g = VictimFrame(j)'
    <3>1. j # i \/ g # f
      BY <1>3, <1>5, <2>2
    <3>2. Overwrites(j) /\ g = VictimFrame(j)
      BY <1>6, <2>2, <3>1 DEF QueuedWritesAreLatest, Owns
    <3>3. j # i
      BY <1>1, <3>2 DEF Overwrites
    <3>. QED
      BY <1>1, <1>6, <3>2, <3>3 DEF Overwrites, VictimFrame, ReqIndex
  <2>. QED
    BY <2>1, <2>2
<1>12. estate # "IDLE" => Head0.line # l
  BY <1>2, <1>5, PopFacts DEF Head0, IInv, TypeInv, EngineFits
<1>13. AnswersAreLatest' /\ L2Handshake'
  BY <1>1, <1>5, <1>6, <1>12 DEF AnswersAreLatest, L2Handshake, L2Current, Head0
<1>14. LatestSurvives'
  BY <1>1, <1>2, <1>3, <1>5, <1>6 DEF LatestSurvives
<1>. QED
  BY <1>7, <1>9, <1>10, <1>11, <1>13, <1>14

\* What a response that carries the latest value leaves in the cache it is for.
LEMMA FillEffects ==
    ASSUME IInv, CopiesAreLatest, NEW i \in Masters, state[i] = "FILL", NEW d,
           NEW sh \in BOOLEAN, Fill(i, d, sh),
           bus_req[i].type # "UPGR" => d = latest[bus_req[i].line]
    PROVE  /\ VictimFrame(i) \in Frames /\ bus_req[i].line \in Lines
           /\ state'[i] = "IDLE"
           /\ \A j \in Masters : j # i => CacheStays(j)
           /\ mesi'[i][VictimFrame(i)] # "I"
           /\ tag'[i][VictimFrame(i)] = bus_req[i].line
           /\ data'[i][VictimFrame(i)] = latest'[bus_req[i].line]
           /\ IF bus_req[i].type = "RD" THEN latest' = latest
                                        ELSE mesi'[i][VictimFrame(i)] = "M"
           /\ \A m : m # bus_req[i].line => latest'[m] = latest[m]
           /\ \A j \in Masters, g \in Frames : j # i \/ g # VictimFrame(i) =>
                 /\ mesi'[j][g] = mesi[j][g] /\ tag'[j][g] = tag[j][g]
                 /\ data'[j][g] = data[j][g]
           /\ \A g \in Frames : g # VictimFrame(i) /\ mesi[i][g] # "I" =>
                                   tag[i][g] # bus_req[i].line
<1>. DEFINE f == VictimFrame(i)
            l == bus_req[i].line
<1>1. /\ state \in [Masters -> L1States] /\ mesi \in [Masters -> [Frames -> Mesi]]
      /\ tag \in [Masters -> [Frames -> Lines \union {NoData}]]
      /\ data \in [Masters -> [Frames -> LineData \union {NoData}]]
      /\ DOMAIN req = Masters /\ DOMAIN victim = Masters /\ DOMAIN bus_req = Masters
      /\ latest \in [Lines -> LineData]
      /\ RequestFits(i) /\ RequestFitsCopies(i)
  BY DEF IInv, TypeInv, TypeOK, L1TypeOK, BusTypeOK, RequestsFit, CoherenceInv,
         RequestsFitCopies
<1>2. /\ bus_req[i].type \in SnoopTypes /\ req[i].line = l /\ l \in Lines
      /\ bus_req[i].type = "UPGR" => tag[i][f] = l /\ mesi[i][f] = "S"
      /\ bus_req[i].type # "UPGR" => Lacks(i, l)
  BY <1>1 DEF RequestFits, RequestFitsCopies, CoreReqs, CoreReads, CoreWrites
<1>3. f \in Frames
  BY VictimFrameType DEF IInv
<1>4. /\ state' = [state EXCEPT ![i] = "IDLE"]
      /\ req' = [req EXCEPT ![i] = NoReq]
      /\ bus_req' = [bus_req EXCEPT ![i] = NoBusReq]
      /\ victim' = [victim EXCEPT ![i] = 0]
      /\ fl_pos' = fl_pos
  BY DEF Fill
<1>5. \A g \in Frames : g # f /\ mesi[i][g] # "I" => tag[i][g] # l
  <2>1. CASE bus_req[i].type = "UPGR"
    BY <1>2, <1>3, <2>1 DEF IInv, CoherenceInv, OneFramePerLine
  <2>2. CASE bus_req[i].type # "UPGR"
    BY <1>2, <2>2 DEF Lacks
  <2>. QED
    BY <2>1, <2>2
<1>6. \E n \in {"S", "E", "M"} : \E x :
         /\ mesi' = [mesi EXCEPT ![i][f] = n]
         /\ data' = [data EXCEPT ![i][f] = x]
         /\ latest' = [latest EXCEPT ![l] = x]
         /\ tag' = [tag EXCEPT ![i][f] = l] \/ (tag' = tag /\ tag[i][f] = l)
         /\ IF bus_req[i].type = "RD" THEN latest' = latest ELSE n = "M"
  <2>1. CASE bus_req[i].type = "RD"
    <3>1. /\ mesi' = [mesi EXCEPT ![i][f] = IF sh THEN "S" ELSE "E"]
          /\ data' = [data EXCEPT ![i][f] = d]
          /\ tag' = [tag EXCEPT ![i][f] = l] /\ latest' = latest
      BY <1>2, <2>1 DEF Fill
    <3>2. latest' = [latest EXCEPT ![l] = latest[l]]
      BY <1>1, <1>2, <3>1
    <3>. QED
      BY <2>1, <3>1, <3>2
  <2>2. CASE bus_req[i].type = "RDX"
    <3>1. /\ Commit(i, f, d) /\ tag' = [tag EXCEPT ![i][f] = l] /\ d = latest[l]
      BY <1>2, <2>2 DEF Fill
    <3>. QED
      BY <1>2, <2>2, <3>1 DEF Commit
  <2>3. CASE bus_req[i].type = "UPGR"
    <3>1. /\ Commit(i, f, data[i][f]) /\ tag' = tag /\ tag[i][f] = l
      BY <1>2, <2>3 DEF Fill
    <3>2. data[i][f] = latest[l]
      BY <1>2, <1>3, <2>3 DEF CopiesAreLatest
    <3>. QED
      BY <1>2, <2>3, <3>1, <3>2 DEF Commit
  <2>. QED
    BY <1>2, <2>1, <2>2, <2>3 DEF SnoopTypes
<1>. HIDE DEF f, l
<1>7. /\ mesi'[i][f] # "I" /\ tag'[i][f] = l /\ data'[i][f] = latest'[l]
      /\ IF bus_req[i].type = "RD" THEN latest' = latest ELSE mesi'[i][f] = "M"
      /\ \A m : m # l => latest'[m] = latest[m]
      /\ \A j \in Masters, g \in Frames : j # i \/ g # f =>
            mesi'[j][g] = mesi[j][g] /\ tag'[j][g] = tag[j][g] /\ data'[j][g] = data[j][g]
      /\ \A j \in Masters : j # i => mesi'[j] = mesi[j] /\ tag'[j] = tag[j]
  <2>0. PICK n \in {"S", "E", "M"} : \E x :
         /\ mesi' = [mesi EXCEPT ![i][f] = n]
         /\ data' = [data EXCEPT ![i][f] = x]
         /\ latest' = [latest EXCEPT ![l] = x]
         /\ tag' = [tag EXCEPT ![i][f] = l] \/ (tag' = tag /\ tag[i][f] = l)
         /\ IF bus_req[i].type = "RD" THEN latest' = latest ELSE n = "M"
    BY <1>6
  <2>1. PICK x :
         /\ mesi' = [mesi EXCEPT ![i][f] = n]
         /\ data' = [data EXCEPT ![i][f] = x]
         /\ latest' = [latest EXCEPT ![l] = x]
         /\ tag' = [tag EXCEPT ![i][f] = l] \/ (tag' = tag /\ tag[i][f] = l)
         /\ IF bus_req[i].type = "RD" THEN latest' = latest ELSE n = "M"
    BY <2>0
  <2>2. /\ mesi'[i][f] = n /\ data'[i][f] = x /\ latest'[l] = x
        /\ \A m : m # l => latest'[m] = latest[m]
    BY <1>1, <1>2, <1>3, <2>1
  <2>3. /\ tag'[i][f] = l
        /\ \A j \in Masters, g \in Frames : j # i \/ g # f => tag'[j][g] = tag[j][g]
        /\ \A j \in Masters : j # i => tag'[j] = tag[j]
    BY <1>1, <1>3, <2>1
  <2>4. /\ \A j \in Masters, g \in Frames : j # i \/ g # f =>
              mesi'[j][g] = mesi[j][g] /\ data'[j][g] = data[j][g]
        /\ \A j \in Masters : j # i => mesi'[j] = mesi[j]
    BY <1>1, <1>3, <2>1
  <2>. QED
    BY <2>0, <2>1, <2>2, <2>3, <2>4
<1>8. \A j \in Masters : j # i => CacheStays(j)
  BY <1>1, <1>4, <1>7 DEF CacheStays
<1>9. state'[i] = "IDLE"
  BY <1>1, <1>4
<1>. QED
  BY <1>2, <1>3, <1>5, <1>7, <1>8, <1>9 DEF f, l

\* The response to cache i keeps the values, given that it is the end of the one
\* transaction on the line, that a store finds no other copy, and that a reader
\* leaves the latest value in the L2.
LEMMA FillData ==
    ASSUME IInv, DataInv, NEW i \in Masters, state[i] = "FILL", NEW d,
           NEW sh \in BOOLEAN, Fill(i, d, sh),
           bus_req[i].type # "UPGR" => d = latest[bus_req[i].line],
           bus_req[i].type = "RD" => L2Current(bus_req[i].line),
           bus_req[i].type # "RD" =>
              \A j \in Masters \ {i} : LeftBehind(j, bus_req[i].line, TRUE),
           \A k \in 1 .. Len(queue') : /\ queue'[k].line # bus_req[i].line
                                       /\ \E n \in 1 .. Len(queue) : queue'[k] = queue[n],
           \A n \in 1 .. Len(queue) : queue[n].line # bus_req[i].line =>
                                         \E k \in 1 .. Len(queue') : queue'[k] = queue[n],
           \/ fstate' = "IDLE" /\ (fstate # "IDLE" => cur.line = bus_req[i].line)
           \/ /\ UNCHANGED <<fstate, cur, dirty_acc, dirty_data>>
              /\ fstate # "IDLE" => cur.line # bus_req[i].line,
           estate' # "RESP", l2' = l2, L2Handshake'
    PROVE  DataInv'
<1>. USE DEF DataInv
<1>. DEFINE f == VictimFrame(i)
            l == bus_req[i].line
            type == bus_req[i].type
<1>1. /\ f \in Frames /\ l \in Lines /\ state'[i] = "IDLE"
      /\ \A j \in Masters : j # i => CacheStays(j)
      /\ mesi'[i][f] # "I" /\ tag'[i][f] = l /\ data'[i][f] = latest'[l]
      /\ IF type = "RD" THEN latest' = latest ELSE mesi'[i][f] = "M"
      /\ \A m : m # l => latest'[m] = latest[m]
      /\ \A j \in Masters, g \in Frames : j # i \/ g # f =>
            mesi'[j][g] = mesi[j][g] /\ tag'[j][g] = tag[j][g] /\ data'[j][g] = data[j][g]
      /\ \A g \in Frames : g # f /\ mesi[i][g] # "I" => tag[i][g] # l
  BY FillEffects
<1>2. /\ type = "RD" => L2Current(l)
      /\ type # "RD" => \A j \in Masters \ {i}, g \in Frames :
                           mesi[j][g] # "I" => tag[j][g] # l
      /\ type = "UPGR" => mesi[i][f] = "S"
  BY DEF LeftBehind, IInv, CoherenceInv, RequestsFitCopies, RequestFitsCopies
<1>3. /\ \A k \in 1 .. Len(queue') : /\ queue'[k].line # l
                                     /\ \E n \in 1 .. Len(queue) : queue'[k] = queue[n]
      /\ \A n \in 1 .. Len(queue) : queue[n].line # l =>
                                       \E k \in 1 .. Len(queue') : queue'[k] = queue[n]
      /\ \/ fstate' = "IDLE" /\ (fstate # "IDLE" => cur.line = l)
         \/ /\ UNCHANGED <<fstate, cur, dirty_acc, dirty_data>>
            /\ fstate # "IDLE" => cur.line # l
  OBVIOUS
<1>4. type # "UPGR" => Overwrites(i)
  BY DEF Overwrites
<1>5. \A j \in Masters, g \in Frames : j # i /\ mesi[j][g] # "I" =>
                                          latest'[tag[j][g]] = latest[tag[j][g]]
  BY <1>1, <1>2
<1>. HIDE DEF f, l, type
<1>6. CopiesAreLatest'
  <2>. SUFFICES ASSUME NEW j \in Masters, NEW g \in Frames, mesi'[j][g] # "I"
                PROVE  data'[j][g] = latest'[tag'[j][g]]
    BY DEF CopiesAreLatest
  <2>1. CASE j = i /\ g = f
    BY <1>1, <2>1
  <2>2. CASE j # i \/ g # f
    <3>1. mesi[j][g] # "I" /\ data[j][g] = latest[tag[j][g]]
      BY <1>1, <2>2 DEF CopiesAreLatest
    <3>2. latest'[tag[j][g]] = latest[tag[j][g]]
      BY <1>1, <1>5, <2>2, <3>1
    <3>. QED
      BY <1>1, <2>2, <3>1, <3>2
  <2>. QED
    BY <2>1, <2>2
<1>7. WaitingWritebacks'
  <2>1. WritebackWaits(i)'
    BY <1>1 DEF WritebackWaits
  <2>2. ASSUME NEW j \in Masters, j # i PROVE WritebackWaits(j)'
    <3>1. CacheStays(j) /\ WritebackWaits(j)
      BY <1>1, <2>2 DEF WaitingWritebacks
    <3>2. VictimFrame(j)' = VictimFrame(j)
      BY <3>1 DEF CacheStays, VictimFrame, ReqIndex
    <3>3. /\ state[j] = "FLUSH_WB" => fl_pos[j] \in Frames
          /\ state[j] = "EVICT" => VictimFrame(j) \in Frames
      BY VictimFrameType DEF IInv, TypeInv, RequestsFit, RequestFits
    <3>4. state[j] \in {"EVICT", "FLUSH_WB"} => latest'[bus_req[j].line] = latest[bus_req[j].line]
      BY <1>5, <2>2, <3>1, <3>3 DEF WritebackWaits
    <3>. QED
      BY <3>1, <3>2, <3>4 DEF CacheStays, WritebackWaits
  <2>. QED
    BY <2>1, <2>2 DEF WaitingWritebacks
<1>8. FrontCarriesLatest'
  <2>1. CASE fstate' = "IDLE"
    BY <2>1 DEF FrontCarriesLatest
  <2>2. CASE /\ UNCHANGED <<fstate, cur, dirty_acc, dirty_data>>
             /\ fstate # "IDLE" => cur.line # l
    BY <1>1, <2>2 DEF FrontCarriesLatest, Owns
  <2>. QED
    BY <1>3, <2>1, <2>2
<1>9. \A j \in Masters : j # i => /\ Overwrites(j)' = Overwrites(j)
                                  /\ VictimFrame(j)' = VictimFrame(j)
  BY <1>1 DEF CacheStays, Overwrites, VictimFrame, ReqIndex
<1>10. QueuedWritesAreLatest'
  <2>. SUFFICES ASSUME NEW k \in 1 .. Len(queue'), queue'[k].wr
                PROVE  /\ queue'[k].wdata = latest'[queue'[k].line]
                       /\ \A j \in Masters, g \in Frames :
                             Owns(j, g, queue[k].line)' => Overwrites(j)' /\ g = VictimFrame(j)'
    BY DEF QueuedWritesAreLatest
  <2>1. PICK n \in 1 .. Len(queue) : queue'[k] = queue[n]
    BY <1>3
  <2>2. queue'[k].line # l
    BY <1>3
  <2>3. /\ queue'[k].wdata = latest[queue'[k].line]
        /\ \A j \in Masters, g \in Frames :
              Owns(j, g, queue'[k].line) => Overwrites(j) /\ g = VictimFrame(j)
    BY <2>1 DEF QueuedWritesAreLatest
  <2>4. ASSUME NEW j \in Masters, NEW g \in Frames, Owns(j, g, queue[k].line)'
        PROVE  Overwrites(j)' /\ g = VictimFrame(j)'
    <3>1. mesi'[j][g] \in {"M", "E"} /\ tag'[j][g] = queue'[k].line
      BY <2>4 DEF Owns
    <3>2. j # i \/ g # f
      BY <1>1, <2>2, <3>1
    <3>3. Overwrites(j) /\ g = VictimFrame(j)
      <4>1. mesi'[j][g] = mesi[j][g] /\ tag'[j][g] = tag[j][g]
        BY <1>1, <3>2
      <4>2. Owns(j, g, queue'[k].line)
        BY <3>1, <4>1 DEF Owns
      <4>. QED
        BY <2>3, <4>2
    <3>4. j # i
      BY <3>2, <3>3 DEF f
    <3>. QED
      BY <1>9, <3>3, <3>4
  <2>. QED
    BY <1>1, <2>2, <2>3, <2>4
<1>11. \A m : L2Current(m) /\ (m # l \/ latest' = latest) => L2Current(m)'
  BY <1>1 DEF L2Current
<1>12. AnswersAreLatest'
  BY <1>3, <1>11 DEF AnswersAreLatest
<1>13. VictimsAreSaved'
  <2>1. VictimSaved(i)'
    BY <1>1 DEF VictimSaved, Overwrites
  <2>2. ASSUME NEW j \in Masters, j # i, Overwrites(j), mesi'[j][VictimFrame(j)] = "M"
        PROVE  OnItsWay(tag[j][VictimFrame(j)])'
    <3>. DEFINE m == tag[j][VictimFrame(j)]
    <3>1. VictimFrame(j) \in Frames
      BY <2>2, VictimFrameType DEF Overwrites, IInv
    <3>2. mesi[j][VictimFrame(j)] = "M"
      BY <1>1, <2>2, <3>1
    <3>3. OnItsWay(m)
      BY <2>2, <3>2 DEF VictimsAreSaved, VictimSaved
    <3>4. tag'[j][VictimFrame(j)'] = m
      BY <1>1, <1>9, <2>2, <3>1
    <3>5. l2'[m] = latest'[m] \/ \E k \in 1 .. Len(queue') : queue'[k].wr /\ queue'[k].line = m
      <4>1. CASE m = l
        <5>1. latest' = latest /\ L2Current(m)
          BY <1>1, <1>2, <2>2, <3>1, <3>2, <4>1
        <5>. QED
          BY <5>1 DEF L2Current
      <4>2. CASE m # l
        BY <1>1, <1>3, <3>3, <4>2 DEF OnItsWay, L2Current
      <4>. QED
        BY <4>1, <4>2
    <3>. QED
      BY <3>4, <3>5 DEF OnItsWay, L2Current
  <2>3. ASSUME NEW j \in Masters, j # i PROVE VictimSaved(j)'
    <3>1. mesi'[j] = mesi[j] /\ tag'[j] = tag[j]
      BY <1>1, <2>3 DEF CacheStays
    <3>. QED
      BY <1>9, <2>2, <2>3, <3>1 DEF VictimSaved
  <2>. QED
    BY <2>1, <2>3 DEF VictimsAreSaved
<1>14. LatestSurvives'
  <2>. SUFFICES ASSUME NEW m \in Lines
                PROVE  \/ l2'[m] = latest'[m]
                       \/ \E j \in Masters, g \in Frames : mesi'[j][g] = "M" /\ tag'[j][g] = m
                       \/ \E k \in 1 .. Len(queue') : /\ queue'[k].wr /\ queue'[k].line = m
                                                      /\ queue'[k].wdata = latest'[m]
                       \/ /\ fstate' # "IDLE" /\ cur'.line = m
                          /\ dirty_acc' /\ dirty_data' = latest'[m]
    BY DEF LatestSurvives
  <2>1. CASE m = l
    BY <1>1, <1>2, <2>1 DEF L2Current
  <2>2. CASE m # l /\ mesi[i][f] = "M" /\ tag[i][f] = m
    <3>1. OnItsWay(m)
      BY <1>2, <1>4, <2>2 DEF VictimsAreSaved, VictimSaved, f
    <3>2. \A n \in 1 .. Len(queue) : queue[n].wr /\ queue[n].line = m =>
                                        queue[n].wdata = latest'[m]
      BY <1>1, <2>2 DEF QueuedWritesAreLatest
    <3>3. CASE L2Current(m)
      BY <1>1, <2>2, <3>3 DEF L2Current
    <3>4. CASE \E n \in 1 .. Len(queue) : queue[n].wr /\ queue[n].line = m
      <4>1. PICK n \in 1 .. Len(queue) : queue[n].wr /\ queue[n].line = m
        BY <3>4
      <4>2. \E k \in 1 .. Len(queue') : queue'[k] = queue[n]
        BY <1>3, <2>2, <4>1
      <4>. QED
        BY <3>2, <4>1, <4>2
    <3>. QED
      BY <3>1, <3>3, <3>4 DEF OnItsWay
  <2>3. CASE m # l /\ ~(mesi[i][f] = "M" /\ tag[i][f] = m)
    <3>1. latest'[m] = latest[m]
      BY <1>1, <2>3
    <3>2. \/ l2[m] = latest[m]
          \/ \E j \in Masters, g \in Frames : mesi[j][g] = "M" /\ tag[j][g] = m
          \/ \E k \in 1 .. Len(queue) : /\ queue[k].wr /\ queue[k].line = m
                                        /\ queue[k].wdata = latest[m]
          \/ fstate # "IDLE" /\ cur.line = m /\ dirty_acc /\ dirty_data = latest[m]
      BY DEF LatestSurvives
    <3>3. ASSUME NEW j \in Masters, NEW g \in Frames, mesi[j][g] = "M", tag[j][g] = m
          PROVE  mesi'[j][g] = "M" /\ tag'[j][g] = m
      BY <1>1, <2>3, <3>3
    <3>. QED
      BY <1>3, <2>3, <3>1, <3>2, <3>3
  <2>. QED
    BY <2>1, <2>2, <2>3
<1>. QED
  BY <1>6, <1>7, <1>8, <1>10, <1>12, <1>13, <1>14

\* An answer without the L2 carries what the snoop phase has collected.
LEMMA FastResponseData ==
    ASSUME IInv, DataInv, FastResponse
    PROVE  DataInv'
<1>. DEFINE i == f_grant
<1>1. /\ fstate = "FAST" /\ Fill(i, dirty_data, dirty_acc) /\ fstate' = "IDLE"
      /\ estate # "RESP" /\ UNCHANGED <<queue, estate, l2_accepted, l2_busy, l2>>
  BY DEF FastResponse, ClearFront
<1>2. /\ i \in Masters /\ dirty_acc \in BOOLEAN /\ queue \in Seq(QEntries)
      /\ state[i] = "FILL" /\ bus_req[i].line = cur.line /\ bus_req[i].type = cur.type
      /\ cur.type # "RD" /\ snp_pending = {} /\ cur.line \notin QueuedLines
      /\ cur.type = "RDX" => dirty_acc
      /\ cur.type \in SnoopTypes
      /\ estate # "IDLE" => queue # <<>>
  BY <1>1 DEF IInv, TypeInv, TypeOK, BusTypeOK, ResponsesAreAwaited, FrontFits,
              OneTransactionPerLine, EngineFits
<1>3. \A j \in Masters \ {i} : LeftBehind(j, bus_req[i].line, TRUE)
  BY <1>1, <1>2 DEF IInv, CoherenceInv, AnsweredSnoops, LeftBehind
<1>4. bus_req[i].type # "UPGR" => dirty_data = latest[bus_req[i].line]
  BY <1>1, <1>2 DEF DataInv, FrontCarriesLatest, SnoopTypes
<1>5. \A k \in 1 .. Len(queue) : queue[k].line # bus_req[i].line
  BY <1>2 DEF QueuedLines
<1>6. CopiesAreLatest /\ L2Handshake
  BY DEF DataInv
<1>. HIDE DEF i
<1>7. L2Handshake'
  <2>1. estate # "IDLE" => Head0' = Head0 /\ Head0.line # bus_req[i].line
    BY <1>1, <1>2, <1>5, PopFacts DEF Head0
  <2>2. \A m : m # bus_req[i].line => latest'[m] = latest[m]
    BY <1>1, <1>2, <1>4, <1>6, FillEffects
  <2>. QED
    BY <1>1, <1>6, <2>1, <2>2 DEF L2Handshake, L2Current
<1>. QED
  BY <1>1, <1>2, <1>3, <1>4, <1>5, <1>7, FillData

\* An answer of the L2 carries the latest value, which the L2 keeps.
LEMMA EngineRespData ==
    ASSUME IInv, DataInv, EngineResp
    PROVE  DataInv'
<1>. DEFINE i == Head0.master
<1>1. /\ estate = "RESP" /\ Fill(i, e_rdata, Head0.shared) /\ queue' = Tail(queue)
      /\ estate' = "IDLE" /\ UNCHANGED <<fstate, cur, dirty_acc, dirty_data>>
      /\ UNCHANGED <<l2_accepted, l2_busy, l2>>
  BY DEF EngineResp
<1>2. queue \in Seq(QEntries) /\ queue # <<>> /\ Head0.respond
  BY <1>1 DEF IInv, TypeInv, TypeOK, BusTypeOK, EngineFits
<1>3. /\ \A k \in 1 .. Len(queue') : k + 1 \in 1 .. Len(queue) /\ queue'[k] = queue[k + 1]
      /\ 1 \in 1 .. Len(queue) /\ Head0 = queue[1] /\ Head0 \in QEntries
      /\ Len(queue') = Len(queue) - 1 /\ Len(queue) \in Nat
  BY <1>1, <1>2, PopFacts DEF Head0
<1>4. /\ i \in Masters /\ Head0.shared \in BOOLEAN
      /\ state[i] = "FILL" /\ bus_req[i].line = Head0.line
  BY <1>2, <1>3 DEF IInv, TypeInv, ResponsesAreAwaited, QEntries
<1>5. /\ Head0.shared => bus_req[i].type = "RD"
      /\ \A j \in Masters \ {i} : LeftBehind(j, bus_req[i].line, ~Head0.shared)
  BY <1>2, <1>3, <1>4 DEF IInv, CoherenceInv, QueuedAnswers
<1>6. bus_req[i].type # "RD" =>
         \A j \in Masters \ {i} : LeftBehind(j, bus_req[i].line, TRUE)
  BY <1>5 DEF LeftBehind
<1>7. e_rdata = latest[bus_req[i].line] /\ L2Current(bus_req[i].line)
  BY <1>1, <1>4 DEF DataInv, AnswersAreLatest
<1>8. /\ fstate # "IDLE" => cur.line # bus_req[i].line
      /\ \A k \in 1 .. Len(queue') : queue'[k].line # bus_req[i].line
  BY <1>3, <1>4 DEF IInv, TypeInv, OneTransactionPerLine, QueuedLines
<1>9. \A n \in 1 .. Len(queue) : queue[n].line # bus_req[i].line =>
                                    \E k \in 1 .. Len(queue') : queue'[k] = queue[n]
  <2>. SUFFICES ASSUME NEW n \in 1 .. Len(queue), queue[n].line # bus_req[i].line
                PROVE  \E k \in 1 .. Len(queue') : queue'[k] = queue[n]
    OBVIOUS
  <2>1. n # 1
    BY <1>3, <1>4
  <2>2. n - 1 \in 1 .. Len(queue') /\ (n - 1) + 1 = n
    BY <1>3, <2>1
  <2>. QED
    BY <1>3, <2>2
<1>10. L2Handshake'
  BY <1>1 DEF DataInv, L2Handshake
<1>. HIDE DEF i
<1>11. \A k \in 1 .. Len(queue') : \E n \in 1 .. Len(queue) : queue'[k] = queue[n]
  BY <1>3
<1>. QED
  BY <1>1, <1>4, <1>6, <1>7, <1>8, <1>9, <1>10, <1>11, FillData

----------------------------------------------------------------------------
LEMMA InitData == Init => DataInv
  BY DEF Init, DataInv, CopiesAreLatest, WaitingWritebacks, WritebackWaits, FrontCarriesLatest,
         QueuedWritesAreLatest, AnswersAreLatest, L2Handshake, VictimsAreSaved, VictimSaved,
         Overwrites, LatestSurvives

LEMMA StillData ==
    ASSUME IInv, DataInv, UNCHANGED vars
    PROVE  DataInv'
<1>1. /\ UNCHANGED <<state, mesi, tag, data, req, victim, bus_req, fl_pos, latest>>
      /\ UNCHANGED <<frontvars, enginevars, l2vars>>
  BY DEF vars
<1>2. NoNewData /\ \A j \in Masters : CacheStays(j) /\ StillOverwrites(j)
  BY <1>1 DEF NoNewData, NoNewRights, CacheStays, StillOverwrites, Overwrites, VictimFrame,
              ReqIndex
<1>3. WaitingWritebacks' /\ VictimsAreSaved'
  BY <1>1, <1>2, WritebackStays, VictimStays DEF DataInv, WaitingWritebacks, VictimsAreSaved
<1>. QED
  BY <1>1, <1>2, <1>3, CopiesStay, FrontStays, QueuedWritesStay, AnswersStay,
     HandshakeStays, LatestStays DEF DataInv

LEMMA NextData ==
    ASSUME IInv, DataInv, [Next]_vars
    PROVE  DataInv'
<1>1. CASE \E i \in Masters : CoreRequest(i) \/ Lookup(i)
  BY <1>1, CoreRequestData, LookupReadHitData, LookupWriteHitData, LookupUpgradeData,
     LookupMissDirtyData, LookupMissCleanData DEF Lookup
<1>2. CASE \E i \in Masters : FlushWalk(i)
  BY <1>2, FlushStartData, FlushDropData, FlushWritebackData, FlushDoneData DEF FlushWalk
<1>3. CASE \E i \in Masters : GrantWB(i) \/ GrantSnoop(i) \/ SnoopAnswer(i)
  BY <1>3, GrantWBData, GrantSnoopData, SnoopAnswerData
<1>4. CASE Decide \/ FastResponse
  BY <1>4, DecideFastData, DecideQueueData, FastResponseData DEF Decide
<1>5. CASE Engine
  BY <1>5, EngineStartData, EngineWriteDoneData, EngineRespData DEF Engine
<1>6. CASE L2Port \/ Fence
  BY <1>6, L2AcceptData, L2WriteData, L2ReadData, FenceData DEF L2Port
<1>7. CASE UNCHANGED vars
  BY <1>7, StillData
<1>. QED
  BY <1>1, <1>2, <1>3, <1>4, <1>5, <1>6, <1>7 DEF Next

\* The values of the lines: what the copies, the write-backs, the snoop phase,
\* the queue, the L2 engine and the L2 hold is what the committed stores left.
THEOREM DataInvariant == Spec => []DataInv
<1>1. Init => DataInv
  BY InitData
<1>2. IInv /\ DataInv /\ [Next]_vars => DataInv'
  BY NextData
<1>. QED
  BY <1>1, <1>2, CoherenceInvariant, PTL DEF Spec

\* No cache ever holds a stale byte: a read hit returns what the last committed
\* store of any core has left.
THEOREM NoStaleCopy == Spec => []CopiesAreLatest
<1>1. DataInv => CopiesAreLatest
  BY DEF DataInv
<1>. QED
  BY <1>1, DataInvariant, PTL

\* No committed store is ever lost between the caches, the bus and the L2.
THEOREM NoLostStore == Spec => []LatestSurvives
<1>1. DataInv => LatestSurvives
  BY DEF DataInv
<1>. QED
  BY <1>1, DataInvariant, PTL

----------------------------------------------------------------------------
(* The room in the queue.                                                  *)

LEMMA NextRoom ==
    ASSUME IInv, QueueHasRoom, [Next]_vars
    PROVE  QueueHasRoom'
<1>. USE GeometryAssumption DEF QueueHasRoom
<1>1. queue \in Seq(QEntries) /\ Len(queue) \in Nat
  BY DEF IInv, TypeInv, TypeOK, BusTypeOK
<1>2. \A e : Len(Append(queue, e)) = Len(queue) + 1
  BY <1>1
<1>3. CASE UNCHANGED <<queue, fstate>>
  BY <1>3
<1>4. CASE \E i \in Masters : GrantWB(i) \/ GrantSnoop(i)
  BY <1>1, <1>2, <1>4 DEF GrantWB, GrantSnoop, ArbGrant
<1>5. CASE Decide
  BY <1>1, <1>2, <1>5 DEF Decide, DecideFast, DecideQueue, Decided, ClearFront
<1>6. CASE FastResponse
  BY <1>6 DEF FastResponse, ClearFront
<1>7. CASE EngineWriteDone \/ EngineResp
  <2>1. queue # <<>>
    BY <1>7 DEF EngineWriteDone, EngineResp, IInv, TypeInv, EngineFits
  <2>2. Len(Tail(queue)) = Len(queue) - 1
    BY <1>1, <2>1
  <2>3. fstate' = fstate /\ (queue' = queue \/ queue' = Tail(queue))
    BY <1>7 DEF EngineWriteDone, EngineResp
  <2>. QED
    BY <1>1, <2>2, <2>3
<1>8. CASE \E i \in Masters : CoreRequest(i) \/ Lookup(i) \/ FlushWalk(i) \/ SnoopAnswer(i)
  BY <1>3, <1>8 DEF CoreRequest, Lookup, LookupReadHit, LookupWriteHit, LookupUpgrade,
     LookupMissDirty, LookupMissClean, FlushWalk, FlushStart, FlushDrop, FlushWriteback,
     FlushDone, SnoopAnswer
<1>9. CASE EngineStart \/ L2Port \/ Fence
  BY <1>3, <1>9 DEF EngineStart, L2Port, L2Accept, L2Write, L2Read, Fence, FenceStart,
     FenceDrain, FenceL2, FenceComplete, FenceRelease
<1>. QED
  BY <1>3, <1>4, <1>5, <1>6, <1>7, <1>8, <1>9 DEF Next, Engine, vars

\* The transaction queue never overflows: the slot a decision at the end of a
\* snoop phase takes is the one its grant has reserved.
THEOREM QueueNeverOverflows == Spec => []QueueHasRoom
<1>1. Init => QueueHasRoom
  BY GeometryAssumption DEF Init, QueueHasRoom
<1>2. IInv /\ QueueHasRoom /\ [Next]_vars => QueueHasRoom'
  BY NextRoom
<1>. QED
  BY <1>1, <1>2, CoherenceInvariant, PTL DEF Spec

----------------------------------------------------------------------------
(* The fence.                                                              *)

\* What a response does to the requests and to the other caches.
LEMMA FillKeeps ==
    ASSUME TypeInv, NEW i \in Masters, NEW d, NEW sh, Fill(i, d, sh)
    PROVE  /\ state'[i] = "IDLE" /\ req'[i] = NoReq
           /\ \A j \in Masters : j # i => /\ state'[j] = state[j] /\ req'[j] = req[j]
                                          /\ bus_req'[j] = bus_req[j]
                                          /\ mesi'[j] = mesi[j]
           /\ fl_pos' = fl_pos /\ flush_seen' = flush_seen
<1>1. /\ DOMAIN state = Masters /\ DOMAIN req = Masters /\ DOMAIN bus_req = Masters
      /\ DOMAIN mesi = Masters
  BY DEF TypeInv, TypeOK, L1TypeOK
<1>. QED
  BY <1>1 DEF Fill, Commit

\* What a fence knows of cache j stays.
FenceKeeps(j) ==
    /\ state'[j] = state[j] /\ fl_pos'[j] = fl_pos[j]
    /\ \A f \in Frames : mesi[j][f] = "I" => mesi'[j][f] = "I"

\* A step of a cache that has not finished the walk.
LEMMA CacheStepFence ==
    ASSUME FenceInv, NEW i \in Masters, i \notin flush_seen, fctrl' = fctrl,
           flush_seen' = flush_seen \/ flush_seen' = flush_seen \union {i},
           \A j \in Masters : j # i => FenceKeeps(j),
           state'[i] \in {"FLUSH", "FLUSH_WB"} =>
              /\ fctrl = "L1" /\ i \notin flush_seen'
              /\ \A f \in Frames : Walked(i, f)' => mesi'[i][f] = "I",
           i \in flush_seen' =>
              /\ fctrl = "L1" /\ state'[i] = "IDLE"
              /\ \A f \in Frames : mesi'[i][f] = "I"
    PROVE  FenceInv'
<1>1. WalkInv'
  <2>. SUFFICES ASSUME NEW j \in Masters
                PROVE  /\ state'[j] \in {"FLUSH", "FLUSH_WB"} =>
                             /\ fctrl' = "L1" /\ j \notin flush_seen'
                             /\ \A f \in Frames : Walked(j, f)' => mesi'[j][f] = "I"
                       /\ j \in flush_seen' =>
                             /\ state'[j] = "IDLE"
                             /\ \A f \in Frames : mesi'[j][f] = "I"
    BY DEF WalkInv
  <2>1. CASE j = i
    BY <2>1
  <2>2. CASE j # i
    BY <2>2 DEF FenceInv, WalkInv, FenceKeeps, Walked
  <2>. QED
    BY <2>1, <2>2
<1>2. SequencerInv'
  <2>1. fctrl \notin {"DRAIN", "L2", "DONE"}
    BY DEF FenceInv, SequencerInv
  <2>2. fctrl = "IDLE" => flush_seen' = {}
    BY DEF FenceInv, SequencerInv
  <2>. QED
    BY <2>1, <2>2 DEF SequencerInv
<1>. QED
  BY <1>1, <1>2 DEF FenceInv

\* A cache that works on a request has not finished the walk, and one that gets
\* a new request does so outside a fence.
LEMMA RequestFence ==
    ASSUME IInv, FenceInv, NEW i \in Masters, CoreRequest(i) \/ Lookup(i)
    PROVE  FenceInv'
<1>1. /\ state'[i] \notin {"FLUSH", "FLUSH_WB"}
      /\ \A j \in Masters : j # i => state'[j] = state[j] /\ mesi'[j] = mesi[j]
      /\ UNCHANGED <<fl_pos, flush_seen, fctrl>>
  <2>1. DOMAIN state = Masters /\ DOMAIN mesi = Masters
    BY DEF IInv, TypeInv, TypeOK, L1TypeOK
  <2>2. CASE CoreRequest(i)
    BY <2>1, <2>2 DEF CoreRequest
  <2>3. CASE LookupReadHit(i) \/ LookupWriteHit(i) \/ LookupUpgrade(i)
    BY <2>1, <2>3 DEF LookupReadHit, LookupWriteHit, Commit, LookupUpgrade
  <2>4. CASE LookupMissDirty(i) \/ LookupMissClean(i)
    BY <2>1, <2>4 DEF LookupMissDirty, LookupMissClean
  <2>. QED
    BY <2>2, <2>3, <2>4 DEF Lookup
<1>2. i \notin flush_seen
  <2>1. CASE CoreRequest(i)
    BY <2>1 DEF CoreRequest, flush_req, FenceInv, SequencerInv
  <2>2. CASE Lookup(i)
    <3>1. state[i] = "LOOKUP"
      BY <2>2 DEF Lookup, LookupReadHit, LookupWriteHit, LookupUpgrade, LookupMissDirty,
                  LookupMissClean
    <3>. QED
      BY <3>1 DEF FenceInv, WalkInv
  <2>. QED
    BY <2>1, <2>2
<1>3. \A j \in Masters : j # i => FenceKeeps(j)
  BY <1>1 DEF FenceKeeps
<1>. QED
  BY <1>1, <1>2, <1>3, CacheStepFence

\* The walk has passed a frame after a step of the position if it had before, or
\* was at the frame.
LEMMA NextWalked ==
    ASSUME NEW i \in Masters, NEW f \in Frames, fl_pos[i] \in Frames,
           fl_pos'[i] = NextPos(fl_pos[i]), Walked(i, f)'
    PROVE  Walked(i, f) \/ f = fl_pos[i]
<1>1. PICK s \in Sets, w \in Ways : fl_pos[i] = <<s, w>>
  BY DEF Frames
<1>2. PICK t \in Sets, v \in Ways : f = <<t, v>>
  BY DEF Frames
<1>3. s \in Int /\ w \in Int /\ t \in Int /\ v \in Int /\ v <= WAYS - 1
  BY GeometryAssumption DEF Sets, Ways
<1>4. fl_pos'[i] = IF w = WAYS - 1 THEN <<s + 1, 0>> ELSE <<s, w + 1>>
  BY <1>1 DEF NextPos
<1>. QED
  BY <1>1, <1>2, <1>3, <1>4, GeometryAssumption DEF Walked, Ways

LEMMA FlushWalkFence ==
    ASSUME IInv, FenceInv, NEW i \in Masters, FlushWalk(i)
    PROVE  FenceInv'
<1>1. /\ state \in [Masters -> L1States] /\ mesi \in [Masters -> [Frames -> Mesi]]
      /\ fl_pos \in [Masters -> (0 .. SETS) \X Ways]
  BY DEF IInv, TypeInv, TypeOK, L1TypeOK
<1>2. i \notin flush_seen
  BY DEF FlushWalk, FlushStart, FlushDrop, FlushWriteback, FlushDone, FenceInv, WalkInv
<1>3. fctrl' = fctrl
  BY DEF FlushWalk, FlushStart, FlushDrop, FlushWriteback, FlushDone
<1>4. CASE FlushStart(i)
  <2>1. /\ state' = [state EXCEPT ![i] = "FLUSH"] /\ fl_pos' = [fl_pos EXCEPT ![i] = <<0, 0>>]
        /\ mesi' = mesi /\ flush_seen' = flush_seen /\ fctrl # "IDLE"
    BY <1>4 DEF FlushStart, flush_req
  <2>2. fctrl = "L1"
    BY <1>2, <2>1 DEF FenceInv, SequencerInv, IInv, TypeInv, TypeOK, BusTypeOK
  <2>3. \A f \in Frames : ~Walked(i, f)'
    <3>1. fl_pos'[i] = <<0, 0>>
      BY <1>1, <2>1
    <3>. QED
      BY <3>1, GeometryAssumption DEF Walked, Frames, Sets, Ways
  <2>4. \A j \in Masters : j # i => FenceKeeps(j)
    BY <1>1, <2>1 DEF FenceKeeps
  <2>. QED
    BY <1>2, <1>3, <2>1, <2>2, <2>3, <2>4, CacheStepFence
<1>5. CASE FlushDrop(i)
  <2>1. /\ state[i] = "FLUSH" /\ state' = state /\ fl_pos[i][1] < SETS
        /\ mesi' = [mesi EXCEPT ![i][fl_pos[i]] = "I"]
        /\ fl_pos' = [fl_pos EXCEPT ![i] = NextPos(@)] /\ flush_seen' = flush_seen
    BY <1>5 DEF FlushDrop
  <2>2. fl_pos[i] \in Frames
    BY <1>1, <2>1, WalkFrame
  <2>3. fl_pos'[i] = NextPos(fl_pos[i])
    BY <1>1, <2>1
  <2>4. /\ fctrl = "L1"
        /\ \A f \in Frames : Walked(i, f) => mesi[i][f] = "I"
    BY <2>1 DEF FenceInv, WalkInv
  <2>5. \A f \in Frames : Walked(i, f)' => mesi'[i][f] = "I"
    BY <1>1, <2>1, <2>2, <2>3, <2>4, NextWalked
  <2>6. \A j \in Masters : j # i => FenceKeeps(j)
    BY <1>1, <2>1 DEF FenceKeeps
  <2>. QED
    BY <1>2, <1>3, <2>1, <2>4, <2>5, <2>6, CacheStepFence
<1>6. CASE FlushWriteback(i)
  <2>1. /\ state[i] = "FLUSH" /\ state' = [state EXCEPT ![i] = "FLUSH_WB"]
        /\ UNCHANGED <<mesi, fl_pos, flush_seen>>
    BY <1>6 DEF FlushWriteback
  <2>2. \A j \in Masters : j # i => FenceKeeps(j)
    BY <1>1, <2>1 DEF FenceKeeps
  <2>3. /\ fctrl = "L1"
        /\ \A f \in Frames : Walked(i, f)' => mesi'[i][f] = "I"
    BY <2>1 DEF FenceInv, WalkInv, Walked
  <2>. QED
    BY <1>2, <1>3, <2>1, <2>2, <2>3, CacheStepFence
<1>7. CASE FlushDone(i)
  <2>1. /\ state[i] = "FLUSH" /\ state' = [state EXCEPT ![i] = "IDLE"]
        /\ fl_pos[i][1] = SETS /\ fl_pos' = [fl_pos EXCEPT ![i] = <<0, 0>>]
        /\ mesi' = mesi /\ flush_seen' = flush_seen \union {i}
    BY <1>7 DEF FlushDone
  <2>2. \A f \in Frames : Walked(i, f)
    BY <2>1, GeometryAssumption DEF Walked, Frames, Sets
  <2>3. fctrl = "L1" /\ \A f \in Frames : mesi'[i][f] = "I"
    BY <2>1, <2>2 DEF FenceInv, WalkInv
  <2>4. \A j \in Masters : j # i => FenceKeeps(j)
    BY <1>1, <2>1 DEF FenceKeeps
  <2>5. state'[i] = "IDLE"
    BY <1>1, <2>1
  <2>. QED
    BY <1>2, <1>3, <2>1, <2>3, <2>4, <2>5, CacheStepFence
<1>. QED
  BY <1>4, <1>5, <1>6, <1>7 DEF FlushWalk

\* A granted write-back of the walk drops the line and moves the walk on.
LEMMA GrantFence ==
    ASSUME IInv, FenceInv, NEW i \in Masters, GrantWB(i) \/ GrantSnoop(i)
    PROVE  FenceInv'
<1>1. /\ state \in [Masters -> L1States] /\ mesi \in [Masters -> [Frames -> Mesi]]
      /\ fl_pos \in [Masters -> (0 .. SETS) \X Ways]
  BY DEF IInv, TypeInv, TypeOK, L1TypeOK
<1>2. /\ state[i] \in {"EVICT", "REQ", "FLUSH_WB"}
      /\ fctrl' = fctrl /\ flush_seen' = flush_seen
  BY DEF GrantWB, GrantSnoop, ArbGrant, Grantable, Requesting
<1>3. i \notin flush_seen
  BY <1>2 DEF FenceInv, WalkInv
<1>4. CASE GrantSnoop(i)
  <2>1. state' = [state EXCEPT ![i] = "FILL"] /\ UNCHANGED <<mesi, fl_pos>>
    BY <1>4 DEF GrantSnoop
  <2>2. \A j \in Masters : j # i => FenceKeeps(j)
    BY <1>1, <2>1 DEF FenceKeeps
  <2>3. state'[i] = "FILL"
    BY <1>1, <2>1
  <2>. QED
    BY <1>2, <1>3, <2>2, <2>3, CacheStepFence
<1>5. CASE GrantWB(i) /\ state[i] = "EVICT"
  <2>1. state' = [state EXCEPT ![i] = "REQ"] /\ UNCHANGED <<mesi, fl_pos>>
    BY <1>5 DEF GrantWB
  <2>2. \A j \in Masters : j # i => FenceKeeps(j)
    BY <1>1, <2>1 DEF FenceKeeps
  <2>3. state'[i] = "REQ"
    BY <1>1, <2>1
  <2>. QED
    BY <1>2, <1>3, <2>2, <2>3, CacheStepFence
<1>6. CASE GrantWB(i) /\ state[i] # "EVICT"
  <2>1. /\ state[i] = "FLUSH_WB" /\ state' = [state EXCEPT ![i] = "FLUSH"]
        /\ mesi' = [mesi EXCEPT ![i][fl_pos[i]] = "I"]
        /\ fl_pos' = [fl_pos EXCEPT ![i] = NextPos(@)]
    BY <1>6 DEF GrantWB
  <2>2. fl_pos[i] \in Frames
    BY <2>1 DEF IInv, TypeInv, RequestsFit, RequestFits
  <2>3. fl_pos'[i] = NextPos(fl_pos[i])
    BY <1>1, <2>1
  <2>4. /\ fctrl = "L1"
        /\ \A f \in Frames : Walked(i, f) => mesi[i][f] = "I"
    BY <2>1 DEF FenceInv, WalkInv
  <2>5. \A f \in Frames : Walked(i, f)' => mesi'[i][f] = "I"
    BY <1>1, <2>1, <2>2, <2>3, <2>4, NextWalked
  <2>6. \A j \in Masters : j # i => FenceKeeps(j)
    BY <1>1, <2>1 DEF FenceKeeps
  <2>. QED
    BY <1>2, <1>3, <2>4, <2>5, <2>6, CacheStepFence
<1>. QED
  BY <1>4, <1>5, <1>6

\* A response ends the request of a cache that therefore has not finished the walk.
LEMMA ResponseFence ==
    ASSUME IInv, FenceInv, NEW i \in Masters, state[i] = "FILL", NEW d, NEW sh,
           Fill(i, d, sh), fctrl' = fctrl
    PROVE  FenceInv'
<1>1. i \notin flush_seen
  BY DEF FenceInv, WalkInv
<1>2. /\ state'[i] = "IDLE" /\ flush_seen' = flush_seen
      /\ \A j \in Masters : j # i => FenceKeeps(j)
  BY FillKeeps DEF FenceKeeps, IInv
<1>. QED
  BY <1>1, <1>2, CacheStepFence

\* A cache that has finished the walk has nothing a snoop could find.
LEMMA SnoopAnswerFence ==
    ASSUME IInv, FenceInv, NEW k \in Masters, SnoopAnswer(k)
    PROVE  FenceInv'
<1>1. /\ state \in [Masters -> L1States] /\ mesi \in [Masters -> [Frames -> Mesi]]
      /\ fstate = "SNOOP" /\ state[k] \in {"IDLE", "EVICT", "REQ"} /\ cur.line \in Lines
      /\ UNCHANGED <<fl_pos, flush_seen, fctrl>>
      /\ state' = [state EXCEPT ![k] = IF LosesVictim(k) THEN "REQ" ELSE @]
      /\ mesi' = IF SnoopHits(k)
                 THEN [mesi EXCEPT ![k][HitFrame(k, cur.line)] = SnoopedState(cur.type)]
                 ELSE mesi
  BY SnoopAnswerFacts DEF IInv, TypeInv, TypeOK, L1TypeOK, SnoopAnswer, SnoopWaiting,
     snoop_allowed
<1>2. SnoopHits(k) => /\ HitFrame(k, cur.line) \in Frames
                      /\ mesi[k][HitFrame(k, cur.line)] # "I"
  BY <1>1, HitFrameHolds DEF SnoopHits
<1>3. /\ \A j \in Masters : j # k => FenceKeeps(j)
      /\ \A f \in Frames : mesi[k][f] = "I" => mesi'[k][f] = "I"
      /\ state'[k] \notin {"FLUSH", "FLUSH_WB"}
      /\ state[k] = "IDLE" => state'[k] = "IDLE"
  BY <1>1, <1>2 DEF FenceKeeps, LosesVictim
<1>4. WalkInv'
  BY <1>1, <1>3 DEF FenceInv, WalkInv, FenceKeeps, Walked
<1>5. SequencerInv'
  BY <1>1 DEF FenceInv, SequencerInv, bus_idle
<1>. QED
  BY <1>4, <1>5 DEF FenceInv

\* The bus is not quiet while anything is in flight, so the sequencer waits.
LEMMA BusFence ==
    ASSUME IInv, FenceInv, ~bus_idle, UNCHANGED <<l1vars, fctrl>>
    PROVE  FenceInv'
<1>1. WalkInv'
  BY DEF FenceInv, WalkInv, Walked
<1>2. SequencerInv'
  BY DEF FenceInv, SequencerInv
<1>. QED
  BY <1>1, <1>2 DEF FenceInv

LEMMA SequencerFence ==
    ASSUME IInv, FenceInv, Fence
    PROVE  FenceInv'
<1>1. /\ UNCHANGED <<state, mesi, fl_pos, fstate, queue, estate>>
      /\ bus_idle' = bus_idle
  BY DEF Fence, FenceStart, FenceDrain, FenceL2, FenceComplete, FenceRelease, bus_idle
<1>2. CASE FenceStart
  BY <1>1, <1>2 DEF FenceStart, FenceInv, WalkInv, SequencerInv, Walked
<1>3. CASE FenceDrain
  BY <1>1, <1>3 DEF FenceDrain, FenceInv, WalkInv, SequencerInv, Walked
<1>4. CASE FenceL2
  BY <1>1, <1>4 DEF FenceL2, FenceInv, WalkInv, SequencerInv, Walked
<1>5. CASE FenceComplete
  BY <1>1, <1>5 DEF FenceComplete, FenceInv, WalkInv, SequencerInv, Walked
<1>6. CASE FenceRelease
  BY <1>1, <1>6 DEF FenceRelease, FenceInv, WalkInv, SequencerInv, Walked
<1>. QED
  BY <1>2, <1>3, <1>4, <1>5, <1>6 DEF Fence

LEMMA NextFence ==
    ASSUME IInv, FenceInv, [Next]_vars
    PROVE  FenceInv'
<1>1. CASE \E i \in Masters : CoreRequest(i) \/ Lookup(i) \/ FlushWalk(i)
  BY <1>1, RequestFence, FlushWalkFence
<1>2. CASE \E i \in Masters : GrantWB(i) \/ GrantSnoop(i) \/ SnoopAnswer(i)
  BY <1>2, GrantFence, SnoopAnswerFence
<1>3. CASE Decide
  <2>1. ~bus_idle /\ UNCHANGED <<l1vars, fctrl>>
    BY <1>3 DEF Decide, DecideFast, DecideQueue, Decided, bus_idle
  <2>. QED
    BY <2>1, BusFence
<1>4. CASE FastResponse
  <2>1. /\ fstate # "IDLE" /\ f_grant \in Masters
        /\ Fill(f_grant, dirty_data, dirty_acc) /\ fctrl' = fctrl
    BY <1>4 DEF FastResponse, IInv, TypeInv, TypeOK, BusTypeOK
  <2>2. state[f_grant] = "FILL"
    BY <2>1 DEF IInv, TypeInv, ResponsesAreAwaited
  <2>. QED
    BY <2>1, <2>2, ResponseFence
<1>5. CASE EngineStart \/ EngineWriteDone \/ L2Port
  <2>1. ~bus_idle /\ UNCHANGED <<l1vars, fctrl>>
    BY <1>5 DEF EngineStart, EngineWriteDone, L2Port, L2Accept, L2Write, L2Read, bus_idle
  <2>. QED
    BY <2>1, BusFence
<1>6. CASE EngineResp
  <2>1. /\ estate = "RESP" /\ Fill(Head0.master, e_rdata, Head0.shared) /\ fctrl' = fctrl
    BY <1>6 DEF EngineResp
  <2>2. queue \in Seq(QEntries) /\ queue # <<>> /\ Head0.respond
    BY <2>1 DEF IInv, TypeInv, TypeOK, BusTypeOK, EngineFits
  <2>3. 1 \in 1 .. Len(queue) /\ Head0 = queue[1]
    BY <2>2, PopFacts DEF Head0
  <2>4. Head0.master \in Masters /\ state[Head0.master] = "FILL"
    BY <2>2, <2>3, SlotFacts DEF IInv, TypeInv, ResponsesAreAwaited
  <2>. QED
    BY <2>1, <2>4, ResponseFence
<1>7. CASE Fence
  BY <1>7, SequencerFence
<1>8. CASE UNCHANGED vars
  BY <1>8 DEF vars, FenceInv, WalkInv, SequencerInv, Walked, bus_idle
<1>. QED
  BY <1>1, <1>2, <1>3, <1>4, <1>5, <1>6, <1>7, <1>8 DEF Next, Engine

\* The sequencer and the walks of the caches: a cache that has reported its walk
\* finished stays empty, and the sequencer leaves the bus only when it is quiet.
THEOREM FenceInvariant == Spec => []FenceInv
<1>1. Init => FenceInv
  BY DEF Init, FenceInv, WalkInv, SequencerInv
<1>2. IInv /\ FenceInv /\ [Next]_vars => FenceInv'
  BY NextFence
<1>. QED
  BY <1>1, <1>2, CoherenceInvariant, PTL DEF Spec

\* The fence of the command processor: once the sequencer turns to the L2, no L1
\* holds a line, nothing is in flight, and the L2 has every committed store.
THEOREM FenceFlushes == Spec => []FlushedToL2
<1>1. ASSUME IInv, DataInv, FenceInv, fctrl \in {"L2", "DONE"}
      PROVE  /\ \A i \in Masters, f \in Frames : mesi[i][f] = "I"
             /\ \A i \in Masters : state[i] = "IDLE"
             /\ bus_idle
             /\ l2 = latest
  <2>1. /\ \A i \in Masters : state[i] = "IDLE" /\ \A f \in Frames : mesi[i][f] = "I"
        /\ bus_idle
    BY <1>1 DEF FenceInv, WalkInv, SequencerInv
  <2>2. fstate = "IDLE" /\ Len(queue) = 0
    BY <2>1 DEF bus_idle
  <2>3. \A l \in Lines : l2[l] = latest[l]
    BY <1>1, <2>1, <2>2 DEF DataInv, LatestSurvives
  <2>4. l2 \in [Lines -> LineData] /\ latest \in [Lines -> LineData]
    BY <1>1 DEF IInv, TypeInv, TypeOK, BusTypeOK
  <2>. QED
    BY <2>1, <2>3, <2>4
<1>2. IInv /\ DataInv /\ FenceInv => FlushedToL2
  BY <1>1 DEF FlushedToL2
<1>. QED
  BY <1>2, CoherenceInvariant, DataInvariant, FenceInvariant, PTL

----------------------------------------------------------------------------
(* The refinement of LineMemory.                                           *)

\* Cache j is at the same point of the same request.
RequestKept(j) == state'[j] = state[j] /\ req'[j] = req[j] /\ bus_req'[j] = bus_req[j]

LEMMA RequestStays ==
    ASSUME RequestsInFlight, NEW i \in Masters, RequestInFlight(i)',
           \A j \in Masters : j # i => RequestKept(j)
    PROVE  RequestsInFlight'
BY DEF RequestsInFlight, RequestInFlight, RequestKept

\* The fetch a cache asks for is that of its request.
LEMMA FetchFits ==
    ASSUME NEW i \in Masters, req[i] \in CoreReqs
    PROVE  FetchReq(i).type = "RD" <=> ~req[i].write
BY DEF FetchReq, FetchType

\* A request is never the empty one.
LEMMA RequestPending ==
    ASSUME NEW r \in CoreReqs
    PROVE  r # NoReq /\ r.line \in Lines
<1>1. r.line \in Lines
  BY DEF CoreReqs, CoreReads, CoreWrites
<1>2. NoReq.line \notin Lines
  BY DataAssumption DEF NoReq
<1>. QED
  BY <1>1, <1>2

\* Only the answer to a snoop, a grant and a response touch a request on the bus.
LEMMA NextInFlight ==
    ASSUME IInv, RequestsInFlight, [Next]_vars
    PROVE  RequestsInFlight'
<1>1. /\ DOMAIN state = Masters /\ DOMAIN req = Masters /\ DOMAIN bus_req = Masters
  BY DEF IInv, TypeInv, TypeOK, L1TypeOK
<1>2. CASE UNCHANGED <<state, req, bus_req>>
  BY <1>2 DEF RequestsInFlight, RequestInFlight
<1>3. ASSUME NEW i \in Masters, CoreRequest(i) \/ Lookup(i) PROVE RequestsInFlight'
  <2>1. \A j \in Masters : j # i => RequestKept(j)
    <3>1. CASE CoreRequest(i) \/ LookupReadHit(i) \/ LookupWriteHit(i) \/ LookupUpgrade(i)
      BY <1>1, <3>1 DEF CoreRequest, LookupReadHit, LookupWriteHit, LookupUpgrade, RequestKept
    <3>2. CASE LookupMissDirty(i) \/ LookupMissClean(i)
      BY <1>1, <3>2 DEF LookupMissDirty, LookupMissClean, RequestKept
    <3>. QED
      BY <1>3, <3>1, <3>2 DEF Lookup
  <2>2. state[i] = "LOOKUP" => req[i] \in CoreReqs
    BY DEF IInv, TypeInv, RequestsFit, RequestFits
  <2>3. RequestInFlight(i)'
    <3>1. CASE CoreRequest(i)
      BY <1>1, <3>1 DEF CoreRequest, RequestInFlight
    <3>2. CASE LookupReadHit(i) \/ LookupWriteHit(i)
      BY <1>1, <3>2 DEF LookupReadHit, LookupWriteHit, RequestInFlight
    <3>3. CASE LookupUpgrade(i)
      BY <1>1, <3>3 DEF LookupUpgrade, RequestInFlight
    <3>4. CASE LookupMissDirty(i)
      BY <1>1, <3>4 DEF LookupMissDirty, RequestInFlight
    <3>5. CASE LookupMissClean(i)
      <4>1. /\ state[i] = "LOOKUP" /\ state'[i] = "REQ" /\ req' = req
            /\ bus_req'[i] = FetchReq(i)
        BY <1>1, <3>5 DEF LookupMissClean
      <4>. QED
        BY <2>2, <4>1, FetchFits DEF RequestInFlight
    <3>. QED
      BY <1>3, <3>1, <3>2, <3>3, <3>4, <3>5 DEF Lookup
  <2>. QED
    BY <2>1, <2>3, RequestStays
<1>4. ASSUME NEW i \in Masters, FlushWalk(i) PROVE RequestsInFlight'
  <2>1. /\ state[i] \in {"IDLE", "FLUSH"} /\ state'[i] \in {"IDLE", "FLUSH", "FLUSH_WB"}
        /\ req' = req
        /\ \A j \in Masters : j # i => RequestKept(j)
    BY <1>1, <1>4 DEF FlushWalk, FlushStart, FlushDrop, FlushWriteback, FlushDone, RequestKept
  <2>2. RequestInFlight(i)'
    BY <2>1 DEF RequestsInFlight, RequestInFlight
  <2>. QED
    BY <2>1, <2>2, RequestStays
<1>5. ASSUME NEW i \in Masters, GrantWB(i) PROVE RequestsInFlight'
  <2>1. /\ \A j \in Masters : j # i => RequestKept(j)
        /\ req' = req
        /\ \/ state[i] = "EVICT" /\ state'[i] = "REQ" /\ bus_req'[i] = FetchReq(i)
           \/ state[i] = "FLUSH_WB" /\ state'[i] = "FLUSH"
    BY <1>1, <1>5 DEF GrantWB, RequestKept
  <2>2. state[i] = "EVICT" => req[i] \in CoreReqs
    BY DEF IInv, TypeInv, RequestsFit, RequestFits
  <2>3. RequestInFlight(i)'
    BY <2>1, <2>2, FetchFits DEF RequestsInFlight, RequestInFlight
  <2>. QED
    BY <2>1, <2>3, RequestStays
<1>6. ASSUME NEW i \in Masters, GrantSnoop(i) PROVE RequestsInFlight'
  <2>1. /\ state[i] \in {"EVICT", "REQ", "FLUSH_WB"} /\ bus_req[i].type # "WB"
        /\ state' = [state EXCEPT ![i] = "FILL"] /\ UNCHANGED <<req, bus_req>>
    BY <1>6 DEF GrantSnoop, ArbGrant, Grantable, Requesting, SnoopTypes
  <2>2. state[i] = "REQ"
    BY <2>1 DEF IInv, TypeInv, RequestsFit, RequestFits
  <2>3. RequestInFlight(i)' /\ \A j \in Masters : j # i => RequestKept(j)
    BY <1>1, <2>1, <2>2 DEF RequestsInFlight, RequestInFlight, RequestKept
  <2>. QED
    BY <2>3, RequestStays
<1>7. ASSUME NEW k \in Masters, SnoopAnswer(k) PROVE RequestsInFlight'
  <2>1. /\ state[k] \in {"IDLE", "EVICT", "REQ"} /\ req' = req
        /\ \A j \in Masters : j # k => RequestKept(j)
        /\ \/ state'[k] = state[k] /\ bus_req'[k] = bus_req[k]
           \/ state[k] = "REQ" /\ state'[k] = "REQ"
              /\ bus_req[k].type = "UPGR" /\ bus_req'[k] = [bus_req[k] EXCEPT !.type = "RDX"]
           \/ state[k] = "EVICT" /\ state'[k] = "REQ" /\ bus_req'[k] = FetchReq(k)
    BY <1>1, <1>7 DEF SnoopAnswer, snoop_allowed, LosesUpgrade, LosesVictim, RequestKept
  <2>2. /\ state[k] = "EVICT" => req[k] \in CoreReqs
        /\ state[k] = "REQ" => bus_req[k] \in BusReqs
    <3>1. /\ state[k] \in {"EVICT", "REQ"} => req[k] \in CoreReqs
          /\ state[k] = "REQ" => bus_req[k].line = req[k].line
          /\ bus_req[k] \in BusReqs \union {NoBusReq}
      BY DEF IInv, TypeInv, TypeOK, L1TypeOK, RequestsFit, RequestFits
    <3>2. NoBusReq.line \notin Lines
      BY DataAssumption DEF NoBusReq
    <3>. QED
      BY <3>1, <3>2, RequestPending
  <2>3. state[k] = "REQ" => [bus_req[k] EXCEPT !.type = "RDX"].type = "RDX"
    BY <2>2 DEF BusReqs
  <2>4. RequestInFlight(k)'
    BY <2>1, <2>2, <2>3, FetchFits DEF RequestsInFlight, RequestInFlight
  <2>. QED
    BY <2>1, <2>4, RequestStays
<1>8. ASSUME NEW i \in Masters, NEW d, NEW sh, Fill(i, d, sh) PROVE RequestsInFlight'
  <2>1. RequestInFlight(i)' /\ \A j \in Masters : j # i => RequestKept(j)
    BY <1>8, FillKeeps DEF IInv, RequestInFlight, RequestKept
  <2>. QED
    BY <2>1, RequestStays
<1>9. CASE FastResponse
  BY <1>8, <1>9 DEF FastResponse, IInv, TypeInv, TypeOK, BusTypeOK
<1>10. CASE EngineResp
  <2>1. Fill(Head0.master, e_rdata, Head0.shared) /\ estate = "RESP"
    BY <1>10 DEF EngineResp
  <2>2. queue \in Seq(QEntries) /\ queue # <<>>
    BY <2>1 DEF IInv, TypeInv, TypeOK, BusTypeOK, EngineFits
  <2>3. Head0.master \in Masters
    BY <2>2, PopFacts, SlotFacts DEF Head0
  <2>. QED
    BY <1>8, <2>1, <2>3
<1>11. CASE Decide \/ EngineStart \/ EngineWriteDone \/ L2Port \/ Fence
  BY <1>2, <1>11 DEF Decide, DecideFast, DecideQueue, EngineStart, EngineWriteDone, L2Port,
     L2Accept, L2Write, L2Read, Fence, FenceStart, FenceDrain, FenceL2, FenceComplete,
     FenceRelease
<1>. QED
  BY <1>2, <1>3, <1>4, <1>5, <1>6, <1>7, <1>9, <1>10, <1>11 DEF Next, Engine, vars

\* A core waits for a request exactly while its cache works on one.
THEOREM RequestInvariant == Spec => []RequestsInFlight
<1>1. Init => RequestsInFlight
  BY DEF Init, RequestsInFlight, RequestInFlight
<1>2. IInv /\ RequestsInFlight /\ [Next]_vars => RequestsInFlight'
  BY NextInFlight
<1>. QED
  BY <1>1, <1>2, CoherenceInvariant, PTL DEF Spec

\* Everything that is known of a reachable state of the memory system.
THEOREM MemoryInvariant == Spec => []MemoryInv
<1>1. DataInv /\ FenceInv /\ RequestsInFlight => MemoryInv
  BY DEF MemoryInv
<1>. QED
  BY <1>1, DataInvariant, FenceInvariant, RequestInvariant, PTL

\* A response returns the line to a reader, or performs a store.
LEMMA FillRefines ==
    ASSUME IInv, RequestsInFlight, NEW i \in Masters, state[i] = "FILL", NEW d, NEW sh,
           Fill(i, d, sh),
           bus_req[i].type # "UPGR" => d = latest[bus_req[i].line]
    PROVE  Abstract!Read(i) \/ Abstract!Write(i)
<1>1. /\ req[i] \in CoreReqs /\ bus_req[i].line = req[i].line
      /\ bus_req[i].type \in SnoopTypes
      /\ bus_req[i].type = "RD" <=> ~req[i].write
  BY DEF IInv, TypeInv, RequestsFit, RequestFits, RequestsInFlight, RequestInFlight
<1>2. req[i] # NoReq /\ req' = [req EXCEPT ![i] = NoReq]
  BY <1>1, RequestPending DEF Fill
<1>3. CASE bus_req[i].type = "RD"
  <2>1. rdata' = [rdata EXCEPT ![i] = latest[req[i].line]] /\ latest' = latest
    BY <1>1, <1>3 DEF Fill
  <2>. QED
    BY <1>1, <1>2, <1>3, <2>1 DEF Abstract!Read
<1>4. CASE bus_req[i].type # "RD"
  <2>1. /\ rdata' = rdata
        /\ latest' = [latest EXCEPT ![req[i].line] = merge_line(@, req[i].wdata, req[i].be)]
    BY <1>4 DEF Fill, Commit
  <2>. QED
    BY <1>1, <1>2, <1>4, <2>1 DEF Abstract!Write
<1>. QED
  BY <1>3, <1>4

\* Every step issues a request, completes one on the line as the committed stores
\* left it, or changes nothing a core sees.
LEMMA NextRefines ==
    ASSUME IInv, DataInv, RequestsInFlight, [Next]_vars
    PROVE  [Abstract!Next]_<<latest, req, rdata>>
<1>1. ASSUME NEW i \in Masters, CoreRequest(i) PROVE Abstract!Next
  <2>1. PICK r \in Workload[i] : req' = [req EXCEPT ![i] = r]
    BY <1>1 DEF CoreRequest
  <2>2. r \in CoreReqs
    BY WorkloadAssumption
  <2>3. /\ req[i] = NoReq /\ rdata' = [rdata EXCEPT ![i] = NoData] /\ latest' = latest
    BY <1>1 DEF CoreRequest, RequestsInFlight, RequestInFlight
  <2>4. Abstract!Issue(i, r)
    BY <2>1, <2>3 DEF Abstract!Issue
  <2>. QED
    BY <2>2, <2>4 DEF Abstract!Next
<1>2. ASSUME NEW i \in Masters, state[i] = "LOOKUP"
      PROVE  req[i] \in CoreReqs /\ req[i] # NoReq /\ req[i].line \in Lines
  BY <1>2, RequestPending DEF IInv, TypeInv, RequestsFit, RequestFits
<1>3. ASSUME NEW i \in Masters, LookupReadHit(i) PROVE Abstract!Next
  <2>. DEFINE f == HitFrame(i, req[i].line)
  <2>1. /\ state[i] = "LOOKUP" /\ ~req[i].write /\ Hits(i, req[i].line) # {}
        /\ rdata' = [rdata EXCEPT ![i] = data[i][f]]
        /\ req' = [req EXCEPT ![i] = NoReq] /\ latest' = latest
    BY <1>3 DEF LookupReadHit
  <2>2. /\ f \in Frames /\ mesi[i][f] # "I" /\ tag[i][f] = req[i].line
    BY <1>2, <2>1, HitFrameHolds
  <2>3. data[i][f] = latest[req[i].line]
    BY <2>2 DEF DataInv, CopiesAreLatest
  <2>4. Abstract!Read(i)
    BY <1>2, <2>1, <2>3 DEF Abstract!Read
  <2>. QED
    BY <2>4 DEF Abstract!Next
<1>4. ASSUME NEW i \in Masters, LookupWriteHit(i) PROVE Abstract!Next
  <2>1. /\ state[i] = "LOOKUP" /\ req[i].write /\ req' = [req EXCEPT ![i] = NoReq]
        /\ latest' = [latest EXCEPT ![req[i].line] = merge_line(@, req[i].wdata, req[i].be)]
        /\ rdata' = rdata
    BY <1>4 DEF LookupWriteHit, Commit
  <2>2. Abstract!Write(i)
    BY <1>2, <2>1 DEF Abstract!Write
  <2>. QED
    BY <2>2 DEF Abstract!Next
<1>5. CASE FastResponse
  <2>1. /\ fstate = "FAST" /\ f_grant \in Masters
        /\ Fill(f_grant, dirty_data, dirty_acc)
    BY <1>5 DEF FastResponse, IInv, TypeInv, TypeOK, BusTypeOK
  <2>2. /\ state[f_grant] = "FILL" /\ bus_req[f_grant].line = cur.line
        /\ bus_req[f_grant].type = cur.type /\ cur.type \in SnoopTypes
        /\ cur.type # "RD" /\ (cur.type = "RDX" => dirty_acc)
    BY <2>1 DEF IInv, TypeInv, TypeOK, BusTypeOK, ResponsesAreAwaited, FrontFits
  <2>3. bus_req[f_grant].type # "UPGR" => dirty_data = latest[bus_req[f_grant].line]
    BY <2>1, <2>2 DEF DataInv, FrontCarriesLatest, SnoopTypes
  <2>. QED
    BY <2>1, <2>2, <2>3, FillRefines DEF Abstract!Next
<1>6. CASE EngineResp
  <2>1. estate = "RESP" /\ Fill(Head0.master, e_rdata, Head0.shared)
    BY <1>6 DEF EngineResp
  <2>2. queue \in Seq(QEntries) /\ queue # <<>> /\ Head0.respond
    BY <2>1 DEF IInv, TypeInv, TypeOK, BusTypeOK, EngineFits
  <2>3. 1 \in 1 .. Len(queue) /\ Head0 = queue[1] /\ Head0.master \in Masters
    BY <2>2, PopFacts, SlotFacts DEF Head0
  <2>4. state[Head0.master] = "FILL" /\ bus_req[Head0.master].line = Head0.line
    BY <2>2, <2>3 DEF IInv, TypeInv, ResponsesAreAwaited
  <2>5. e_rdata = latest[Head0.line]
    BY <2>1 DEF DataInv, AnswersAreLatest
  <2>. QED
    BY <2>1, <2>3, <2>4, <2>5, FillRefines DEF Abstract!Next
<1>7. CASE \E i \in Masters : LookupUpgrade(i) \/ LookupMissDirty(i) \/ LookupMissClean(i)
  BY <1>7 DEF LookupUpgrade, LookupMissDirty, LookupMissClean
<1>8. CASE \E i \in Masters : FlushWalk(i) \/ GrantWB(i) \/ GrantSnoop(i) \/ SnoopAnswer(i)
  BY <1>8 DEF FlushWalk, FlushStart, FlushDrop, FlushWriteback, FlushDone, GrantWB, GrantSnoop,
     SnoopAnswer
<1>9. CASE Decide \/ EngineStart \/ EngineWriteDone \/ L2Port \/ Fence \/ UNCHANGED vars
  BY <1>9 DEF Decide, DecideFast, DecideQueue, EngineStart, EngineWriteDone, L2Port,
     L2Accept, L2Write, L2Read, Fence, FenceStart, FenceDrain, FenceL2, FenceComplete,
     FenceRelease, vars
<1>. QED
  BY <1>1, <1>3, <1>4, <1>5, <1>6, <1>7, <1>8, <1>9 DEF Next, Lookup, Engine

\* The caches, the bus, the flushes and the L2 together are one atomic memory for
\* the cores: CoherentBus implements LineMemory.
THEOREM Refinement == Spec => RefinesLineMemory
<1>1. Init => Abstract!Init
  BY DEF Init, Abstract!Init
<1>2. IInv /\ DataInv /\ RequestsInFlight /\ [Next]_vars
         => [Abstract!Next]_<<latest, req, rdata>>
  BY NextRefines
<1>. QED
  BY <1>1, <1>2, CoherenceInvariant, DataInvariant, RequestInvariant, PTL
     DEF Spec, RefinesLineMemory, Abstract!Spec
=============================================================================
