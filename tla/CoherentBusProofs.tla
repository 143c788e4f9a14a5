------------------------- MODULE CoherentBusProofs -------------------------
(***************************************************************************)
(* Proofs about CoherentBus for every number of caches, every geometry,    *)
(* every set of lines and every line content.                              *)
(***************************************************************************)
EXTENDS CoherentBus, TLAPS, FiniteSetTheorems

----------------------------------------------------------------------------
(* Least and greatest elements, which the way searches choose.             *)

\* In a family of subsets of a finite set one has no strict subset in it.
LEMMA MinimalSubset ==
    ASSUME NEW D, IsFiniteSet(D), NEW F \in SUBSET SUBSET D, F # {}
    PROVE  \E X \in F : \A Y \in F : Y \subseteq X => Y = X
<1>1. IsWellFoundedOn(StrictSubsetOrdering(D), SUBSET D)
  BY FS_StrictSubsetOrderingWellFounded, FS_FiniteSubsetsOfFinite
<1>2. \E X \in F : \A Y \in F : ~(<<Y, X>> \in StrictSubsetOrdering(D))
  BY <1>1, WFMin
<1>. QED
  BY <1>2 DEF StrictSubsetOrdering

\* The elements of a set of ways below and above one of them.
Below(T, x) == {y \in T : y < x}
Above(T, x) == {y \in T : x < y}
AllBelow(T) == {Below(T, x) : x \in T}
AllAbove(T) == {Above(T, x) : x \in T}

\* A nonempty set of ways has a lowest one.
LEMMA LowestWay ==
    ASSUME NEW T \in SUBSET Ways, T # {}
    PROVE  \E x \in T : \A y \in T : x <= y
<1>1. IsFiniteSet(Ways)
  BY FS_Interval, GeometryAssumption DEF Ways
<1>2. AllBelow(T) \in SUBSET SUBSET Ways /\ AllBelow(T) # {}
  BY DEF Below, AllBelow
<1>3. \E X \in AllBelow(T) : \A Y \in AllBelow(T) : Y \subseteq X => Y = X
  BY <1>1, <1>2, MinimalSubset
<1>4. PICK x \in T :
         \A y \in T : Below(T, y) \subseteq Below(T, x) => Below(T, y) = Below(T, x)
  BY <1>3 DEF AllBelow
<1>5. \A y \in T : x <= y
  <2>. SUFFICES ASSUME NEW y \in T, ~(x <= y) PROVE FALSE
    OBVIOUS
  <2>1. Ways \subseteq Int
    BY GeometryAssumption DEF Ways
  <2>2. \A z \in Ways : z < y => z < x
    BY <2>1
  <2>3. y < x /\ ~(y < y)
    BY <2>1
  <2>4. Below(T, y) \subseteq Below(T, x) /\ y \in Below(T, x) /\ y \notin Below(T, y)
    BY <2>2, <2>3 DEF Below
  <2>. QED
    BY <1>4, <2>4
<1>. QED
  BY <1>5

\* A nonempty set of ways has a highest one.
LEMMA HighestWay ==
    ASSUME NEW T \in SUBSET Ways, T # {}
    PROVE  \E x \in T : \A y \in T : y <= x
<1>1. IsFiniteSet(Ways)
  BY FS_Interval, GeometryAssumption DEF Ways
<1>2. AllAbove(T) \in SUBSET SUBSET Ways /\ AllAbove(T) # {}
  BY DEF Above, AllAbove
<1>3. \E X \in AllAbove(T) : \A Y \in AllAbove(T) : Y \subseteq X => Y = X
  BY <1>1, <1>2, MinimalSubset
<1>4. PICK x \in T :
         \A y \in T : Above(T, y) \subseteq Above(T, x) => Above(T, y) = Above(T, x)
  BY <1>3 DEF AllAbove
<1>5. \A y \in T : y <= x
  <2>. SUFFICES ASSUME NEW y \in T, ~(y <= x) PROVE FALSE
    OBVIOUS
  <2>1. Ways \subseteq Int
    BY GeometryAssumption DEF Ways
  <2>2. \A z \in Ways : y < z => x < z
    BY <2>1
  <2>3. x < y /\ ~(y < y)
    BY <2>1
  <2>4. Above(T, y) \subseteq Above(T, x) /\ y \in Above(T, x) /\ y \notin Above(T, y)
    BY <2>2, <2>3 DEF Above
  <2>. QED
    BY <1>4, <2>4
<1>. QED
  BY <1>5

----------------------------------------------------------------------------
(* The operators of the model. *)

\* A merge of two lines is a line.
LEMMA MergeType ==
    ASSUME NEW old \in LineData, NEW new \in LineData, NEW be \in SUBSET Bytes
    PROVE  merge_line(old, new, be) \in LineData
  BY DEF merge_line, LineData

\* A search that hits returns a valid frame that holds the line.
LEMMA HitFrameHolds ==
    ASSUME NEW i \in Masters, NEW l \in Lines, Hits(i, l) # {}
    PROVE  /\ HitWay(i, l) \in Ways
           /\ HitFrame(i, l) \in Frames
           /\ HitFrame(i, l) = <<IndexOf[l], HitWay(i, l)>>
           /\ mesi[i][HitFrame(i, l)] # "I"
           /\ tag[i][HitFrame(i, l)] = l
<1>1. Hits(i, l) \in SUBSET Ways
  BY DEF Hits
<1>2. \E w \in Hits(i, l) : \A v \in Hits(i, l) : v <= w
  BY <1>1, HighestWay
<1>3. HitWay(i, l) \in Hits(i, l)
  BY <1>2 DEF HitWay
<1>. QED
  BY <1>1, <1>3, IndexAssumption DEF Hits, HitFrame, Frames

\* The way a miss allocates exists, and is free if any way of the set is.
LEMMA VictimWayType ==
    ASSUME NEW i \in Masters, NEW s \in Sets, rep_ptr[i][s] \in Ways
    PROVE  victim_way(i, s) \in Ways
<1>1. InvalidWays(i, s) \in SUBSET Ways
  BY DEF InvalidWays
<1>2. CASE InvalidWays(i, s) # {}
  <2>1. \E w \in InvalidWays(i, s) : \A v \in InvalidWays(i, s) : w <= v
    BY <1>1, <1>2, LowestWay
  <2>. QED
    BY <1>1, <1>2, <2>1 DEF victim_way
<1>3. CASE InvalidWays(i, s) = {}
  BY <1>3 DEF victim_way
<1>. QED
  BY <1>2, <1>3

\* The walk goes from a frame to a frame or past the last set.
LEMMA NextPosType ==
    ASSUME NEW p \in Frames
    PROVE  NextPos(p) \in (0 .. SETS) \X Ways
  BY GeometryAssumption DEF Frames, Sets, Ways, NextPos

----------------------------------------------------------------------------
(* Type correctness: TypeInv is inductive. *)

USE DEF l1vars, frontvars, enginevars, l2vars

LEMMA InitType == Init => TypeInv
<1>. SUFFICES ASSUME Init PROVE TypeInv
  OBVIOUS
<1>. USE DEF Init
<1>1. TypeOK
  <2>1. 0 \in Masters /\ 0 \in Sets /\ 0 \in Ways /\ <<0, 0>> \in (0 .. SETS) \X Ways
    BY GeometryAssumption DEF Masters, Sets, Ways
  <2>2. L1TypeOK
    BY <2>1 DEF L1TypeOK, L1States, Mesi
  <2>3. cur \in [type : SnoopTypes, line : Lines \union {NoData}]
    BY DEF NoCur, SnoopTypes
  <2>4. queue \in Seq(QEntries)
    OBVIOUS
  <2>5. hit_acc \in BOOLEAN /\ dirty_acc \in BOOLEAN /\ l2_accepted \in BOOLEAN /\ l2_busy \in BOOLEAN
    OBVIOUS
  <2>6. BusTypeOK
    BY <2>1, <2>3, <2>4, <2>5, Zenon DEF BusTypeOK
  <2>. QED
    BY <2>2, <2>6 DEF TypeOK
<1>2. OneTransactionPerLine
  BY DEF OneTransactionPerLine
<1>3. ResponsesAreAwaited
  BY DEF ResponsesAreAwaited
<1>4. FramesFit
  BY DataAssumption DEF FramesFit
<1>5. RequestsFit
  BY DEF RequestsFit, RequestFits
<1>6. FrontFits
  BY DEF FrontFits
<1>7. EngineFits
  BY DEF EngineFits
<1>. QED
  BY <1>1, <1>2, <1>3, <1>4, <1>5, <1>6, <1>7 DEF TypeInv

\* Awaited responses stay awaited in a step of the caches alone that leaves
\* S_FILL, and what a cache in S_FILL asked for, as they are.
LEMMA StillAwaited ==
    ASSUME TypeInv,
           UNCHANGED <<fstate, f_grant, cur, queue>>,
           \A j \in Masters : state[j] = "FILL" => /\ state'[j] = "FILL"
                                                   /\ bus_req'[j] = bus_req[j]
    PROVE  ResponsesAreAwaited'
<1>1. f_grant \in Masters /\ \A k \in 1 .. Len(queue) : queue[k].master \in Masters
  <2>1. f_grant \in Masters /\ queue \in Seq(QEntries)
    BY DEF TypeInv, TypeOK, BusTypeOK
  <2>2. \A k \in 1 .. Len(queue) : queue[k] \in QEntries
    BY <2>1
  <2>. QED
    BY <2>1, <2>2 DEF QEntries
<1>2. fstate' = fstate /\ f_grant' = f_grant /\ cur' = cur /\ queue' = queue
  OBVIOUS
<1>3. ResponsesAreAwaited
  BY DEF TypeInv
<1>4. fstate # "IDLE" => /\ state'[f_grant] = "FILL"
                         /\ bus_req'[f_grant].line = cur.line
                         /\ bus_req'[f_grant].type = cur.type
  BY <1>1, <1>3 DEF ResponsesAreAwaited
<1>5. ASSUME NEW k \in 1 .. Len(queue), queue[k].respond
      PROVE  /\ state'[queue[k].master] = "FILL"
             /\ bus_req'[queue[k].master].line = queue[k].line
  BY <1>1, <1>3, <1>5 DEF ResponsesAreAwaited
<1>. QED
  BY <1>2, <1>4, <1>5 DEF ResponsesAreAwaited

\* A cache whose registers a step leaves alone asks for what it asked for.
LEMMA StillFits ==
    ASSUME NEW j \in Masters, RequestFits(j),
           UNCHANGED <<state[j], req[j], victim[j], bus_req[j], fl_pos[j], tag[j]>>
    PROVE  RequestFits(j)'
BY DEF RequestFits, VictimFrame, ReqIndex

LEMMA CoreRequestType ==
    ASSUME TypeInv, NEW i \in Masters, CoreRequest(i)
    PROVE  TypeInv'
<1>. USE DEF TypeInv, CoreRequest
<1>0. PICK r \in CoreReqs : req' = [req EXCEPT ![i] = r]
  BY WorkloadAssumption
<1>1. TypeOK'
  BY <1>0 DEF TypeOK, L1TypeOK, BusTypeOK, L1States
<1>2. OneTransactionPerLine'
  BY DEF OneTransactionPerLine, QueuedLines
<1>3. ResponsesAreAwaited'
  BY DEF TypeOK, L1TypeOK, BusTypeOK, ResponsesAreAwaited, QEntries
<1>4. FramesFit'
  BY DEF FramesFit
<1>5. RequestsFit'
  BY <1>0 DEF TypeOK, L1TypeOK, RequestsFit, RequestFits, VictimFrame, ReqIndex
<1>6. FrontFits'
  BY DEF FrontFits
<1>7. EngineFits'
  BY DEF EngineFits, Head0
<1>. QED
  BY <1>1, <1>2, <1>3, <1>4, <1>5, <1>6, <1>7 DEF TypeInv

LEMMA LookupReadHitType ==
    ASSUME TypeInv, NEW i \in Masters, LookupReadHit(i)
    PROVE  TypeInv'
<1>. USE DEF TypeInv, LookupReadHit
<1>1. data[i][HitFrame(i, req[i].line)] \in LineData
  <2>1. req[i].line \in Lines
    BY DEF RequestsFit, RequestFits, CoreReqs, CoreReads, CoreWrites
  <2>. QED
    BY <2>1, HitFrameHolds DEF FramesFit
<1>2. TypeOK'
  BY <1>1 DEF TypeOK, L1TypeOK, BusTypeOK, L1States
<1>3. OneTransactionPerLine'
  BY DEF OneTransactionPerLine, QueuedLines
<1>4. ResponsesAreAwaited'
  <2>1. UNCHANGED <<fstate, f_grant, cur, queue>>
    BY DEF frontvars, enginevars
  <2>2. state[i] = "LOOKUP" /\ state' = [state EXCEPT ![i] = "IDLE"] /\ bus_req' = bus_req
    OBVIOUS
  <2>3. \A j \in Masters : state[j] = "FILL" => state'[j] = "FILL" /\ bus_req'[j] = bus_req[j]
    BY <2>2 DEF TypeOK, L1TypeOK
  <2>. QED
    BY <2>1, <2>3, StillAwaited
<1>5. FramesFit'
  BY DEF FramesFit
<1>6. RequestsFit'
  BY DEF TypeOK, L1TypeOK, RequestsFit, RequestFits, VictimFrame, ReqIndex
<1>7. FrontFits'
  BY DEF FrontFits
<1>8. EngineFits'
  BY DEF EngineFits, Head0
<1>. QED
  BY <1>2, <1>3, <1>4, <1>5, <1>6, <1>7, <1>8 DEF TypeInv

\* A committed store leaves a typed line in its frame and in the history.
LEMMA CommitType ==
    ASSUME TypeInv, NEW i \in Masters, NEW f \in Frames, NEW old \in LineData,
           req[i] \in CoreReqs, req[i].write, Commit(i, f, old)
    PROVE  /\ data' \in [Masters -> [Frames -> LineData \union {NoData}]]
           /\ mesi' \in [Masters -> [Frames -> Mesi]]
           /\ latest' \in [Lines -> LineData]
           /\ data'[i][f] \in LineData
           /\ mesi'[i][f] = "M"
           /\ \A j \in Masters, g \in Frames :
                 (j # i \/ g # f) => data'[j][g] = data[j][g] /\ mesi'[j][g] = mesi[j][g]
<1>1. /\ req[i].line \in Lines /\ req[i].wdata \in LineData
      /\ req[i].be \in SUBSET Bytes
  BY DEF CoreReqs, CoreReads, CoreWrites
<1>2. latest[req[i].line] \in LineData
  BY <1>1 DEF TypeInv, TypeOK, BusTypeOK
<1>3. /\ merge_line(old, req[i].wdata, req[i].be) \in LineData
      /\ merge_line(latest[req[i].line], req[i].wdata, req[i].be) \in LineData
  BY <1>1, <1>2, MergeType
<1>. QED
  BY <1>1, <1>3 DEF Commit, TypeInv, TypeOK, L1TypeOK, BusTypeOK, Mesi

LEMMA LookupWriteHitType ==
    ASSUME TypeInv, NEW i \in Masters, LookupWriteHit(i)
    PROVE  TypeInv'
<1>. USE DEF TypeInv, LookupWriteHit
<1>. DEFINE f == HitFrame(i, req[i].line)
<1>1. /\ req[i] \in CoreReqs /\ req[i].line \in Lines
      /\ f \in Frames /\ tag[i][f] = req[i].line /\ data[i][f] \in LineData
  <2>1. req[i] \in CoreReqs /\ req[i].line \in Lines
    BY DEF RequestsFit, RequestFits, CoreReqs, CoreReads, CoreWrites
  <2>. QED
    BY <2>1, HitFrameHolds DEF FramesFit
<1>2. /\ data' \in [Masters -> [Frames -> LineData \union {NoData}]]
      /\ mesi' \in [Masters -> [Frames -> Mesi]]
      /\ latest' \in [Lines -> LineData]
      /\ data'[i][f] \in LineData
      /\ \A j \in Masters, g \in Frames :
            (j # i \/ g # f) => data'[j][g] = data[j][g] /\ mesi'[j][g] = mesi[j][g]
  BY <1>1, CommitType
<1>. HIDE DEF f
<1>3. TypeOK'
  <2>1. L1TypeOK'
    BY <1>2 DEF TypeOK, L1TypeOK, L1States
  <2>2. BusTypeOK'
    BY <1>2 DEF TypeOK, BusTypeOK
  <2>. QED
    BY <2>1, <2>2 DEF TypeOK
<1>4. OneTransactionPerLine'
  BY DEF OneTransactionPerLine, QueuedLines
<1>5. ResponsesAreAwaited'
  BY DEF TypeOK, L1TypeOK, BusTypeOK, ResponsesAreAwaited, QEntries
<1>6. FramesFit'
  BY <1>1, <1>2 DEF FramesFit
<1>7. RequestsFit'
  BY DEF TypeOK, L1TypeOK, RequestsFit, RequestFits, VictimFrame, ReqIndex
<1>8. FrontFits'
  BY DEF FrontFits
<1>9. EngineFits'
  BY DEF EngineFits, Head0
<1>. QED
  BY <1>3, <1>4, <1>5, <1>6, <1>7, <1>8, <1>9 DEF TypeInv

LEMMA LookupUpgradeType ==
    ASSUME TypeInv, NEW i \in Masters, LookupUpgrade(i)
    PROVE  TypeInv'
<1>. USE DEF TypeInv, LookupUpgrade
<1>1. req[i] \in CoreReqs /\ req[i].line \in Lines
  BY DEF RequestsFit, RequestFits, CoreReqs, CoreReads, CoreWrites
<1>2. /\ HitWay(i, req[i].line) \in Ways
      /\ tag[i][<<IndexOf[req[i].line], HitWay(i, req[i].line)>>] = req[i].line
  BY <1>1, HitFrameHolds
<1>3. TypeOK'
  BY <1>1, <1>2 DEF TypeOK, L1TypeOK, BusTypeOK, L1States, BusReqs, BusTypes, SnoopTypes
<1>4. OneTransactionPerLine'
  BY DEF OneTransactionPerLine, QueuedLines
<1>5. ResponsesAreAwaited'
  BY DEF TypeOK, L1TypeOK, BusTypeOK, ResponsesAreAwaited, QEntries
<1>6. FramesFit'
  BY DEF FramesFit
<1>7. RequestsFit'
  BY <1>1, <1>2 DEF TypeOK, L1TypeOK, RequestsFit, RequestFits, VictimFrame, ReqIndex, SnoopTypes
<1>8. FrontFits'
  BY DEF FrontFits
<1>9. EngineFits'
  BY DEF TypeOK, L1TypeOK, BusTypeOK, EngineFits, ResponsesAreAwaited, Head0, QEntries
<1>. QED
  BY <1>3, <1>4, <1>5, <1>6, <1>7, <1>8, <1>9 DEF TypeInv

\* What a miss latches: the way to allocate and the moved pointer.
LEMMA AllocateType ==
    ASSUME TypeInv, NEW i \in Masters, req[i] \in CoreReqs, Allocate(i)
    PROVE  /\ victim_way(i, ReqIndex(i)) \in Ways
           /\ <<ReqIndex(i), victim_way(i, ReqIndex(i))>> \in Frames
           /\ victim' = [victim EXCEPT ![i] = victim_way(i, ReqIndex(i))]
           /\ victim' \in [Masters -> Ways]
           /\ rep_ptr' \in [Masters -> [Sets -> Ways]]
<1>. DEFINE s == ReqIndex(i)
<1>1. s \in Sets
  BY IndexAssumption DEF ReqIndex, CoreReqs, CoreReads, CoreWrites
<1>2. victim_way(i, s) \in Ways
  BY <1>1, VictimWayType DEF TypeInv, TypeOK, L1TypeOK
<1>3. <<s, victim_way(i, s)>> \in Frames
  BY <1>1, <1>2 DEF Frames
<1>4. (rep_ptr[i][s] + 1) % WAYS \in Ways
  BY <1>1, GeometryAssumption DEF TypeInv, TypeOK, L1TypeOK, Ways
<1>5. rep_ptr' \in [Masters -> [Sets -> Ways]]
  BY <1>1, <1>4 DEF Allocate, TypeInv, TypeOK, L1TypeOK
<1>. QED
  BY <1>2, <1>3, <1>5 DEF Allocate, TypeInv, TypeOK, L1TypeOK

LEMMA LookupMissDirtyType ==
    ASSUME TypeInv, NEW i \in Masters, LookupMissDirty(i)
    PROVE  TypeInv'
<1>. USE DEF TypeInv, LookupMissDirty
<1>. DEFINE v == <<ReqIndex(i), victim_way(i, ReqIndex(i))>>
<1>1. req[i] \in CoreReqs
  BY DEF RequestsFit, RequestFits
<1>2. /\ v \in Frames
      /\ victim' = [victim EXCEPT ![i] = victim_way(i, ReqIndex(i))]
      /\ victim' \in [Masters -> Ways]
      /\ rep_ptr' \in [Masters -> [Sets -> Ways]]
  BY <1>1, AllocateType
<1>3. tag[i][v] \in Lines /\ data[i][v] \in LineData
  BY <1>2 DEF FramesFit
<1>4. bus_req' = [bus_req EXCEPT ![i] = [type |-> "WB", line |-> tag[i][v], wdata |-> data[i][v]]]
  OBVIOUS
<1>. HIDE DEF v
<1>5. TypeOK'
  BY <1>2, <1>3, <1>4 DEF TypeOK, L1TypeOK, BusTypeOK, L1States, BusReqs, BusTypes, SnoopTypes
<1>6. OneTransactionPerLine'
  BY DEF OneTransactionPerLine, QueuedLines
<1>7. ResponsesAreAwaited'
  BY <1>4 DEF TypeOK, L1TypeOK, BusTypeOK, ResponsesAreAwaited, QEntries
<1>8. FramesFit'
  BY DEF FramesFit
<1>9. RequestsFit'
  <2>. SUFFICES ASSUME NEW j \in Masters PROVE RequestFits(j)'
    BY DEF RequestsFit, RequestFits
  <2>1. CASE j = i
    BY <2>1, <1>1, <1>2, <1>3, <1>4 DEF TypeOK, L1TypeOK, RequestFits
  <2>2. CASE j # i
    <3>1. /\ state' = [state EXCEPT ![i] = "EVICT"]
          /\ UNCHANGED <<req, fl_pos, tag>>
      OBVIOUS
    <3>2. UNCHANGED <<state[j], req[j], victim[j], bus_req[j], fl_pos[j], tag[j]>>
      BY <2>2, <1>2, <1>4, <3>1 DEF TypeOK, L1TypeOK
    <3>. QED
      BY <3>2, StillFits DEF RequestsFit
  <2>. QED
    BY <2>1, <2>2
<1>10. FrontFits'
  BY DEF FrontFits
<1>11. EngineFits'
  BY <1>4 DEF TypeOK, L1TypeOK, BusTypeOK, EngineFits, ResponsesAreAwaited, Head0, QEntries
<1>. QED
  BY <1>5, <1>6, <1>7, <1>8, <1>9, <1>10, <1>11 DEF TypeInv

LEMMA LookupMissCleanType ==
    ASSUME TypeInv, NEW i \in Masters, LookupMissClean(i)
    PROVE  TypeInv'
<1>. USE DEF TypeInv, LookupMissClean
<1>. DEFINE v == <<ReqIndex(i), victim_way(i, ReqIndex(i))>>
<1>1. req[i] \in CoreReqs /\ req[i].line \in Lines /\ req[i].write \in BOOLEAN
  BY DEF RequestsFit, RequestFits, CoreReqs, CoreReads, CoreWrites
<1>2. /\ v \in Frames
      /\ victim' = [victim EXCEPT ![i] = victim_way(i, ReqIndex(i))]
      /\ victim' \in [Masters -> Ways]
      /\ rep_ptr' \in [Masters -> [Sets -> Ways]]
  BY <1>1, AllocateType
<1>3. mesi' = [mesi EXCEPT ![i][v] = "I"]
  OBVIOUS
<1>4. /\ FetchReq(i).type \in {"RD", "RDX"} /\ FetchReq(i).line = req[i].line
      /\ FetchReq(i).type # "RD" => req[i].write
      /\ FetchReq(i) \in BusReqs
  BY <1>1 DEF FetchReq, FetchType, BusReqs, BusTypes, SnoopTypes
<1>. HIDE DEF v
<1>5. TypeOK'
  <2>1. mesi' \in [Masters -> [Frames -> Mesi]]
    <3>1. mesi \in [Masters -> [Frames -> Mesi]] /\ "I" \in Mesi
      BY DEF TypeOK, L1TypeOK, Mesi
    <3>2. [mesi EXCEPT ![i][v] = "I"] \in [Masters -> [Frames -> Mesi]]
      <4>. HIDE DEF TypeInv, LookupMissClean
      <4>. QED
        BY <1>2, <3>1
    <3>. QED
      BY <1>3, <3>2
  <2>2. bus_req' \in [Masters -> BusReqs \union {NoBusReq}]
    BY <1>4 DEF TypeOK, L1TypeOK
  <2>3. state' \in [Masters -> L1States]
    BY DEF TypeOK, L1TypeOK, L1States
  <2>4. L1TypeOK'
    BY <1>2, <2>1, <2>2, <2>3 DEF TypeOK, L1TypeOK
  <2>5. BusTypeOK'
    BY DEF TypeOK, BusTypeOK
  <2>. QED
    BY <2>4, <2>5 DEF TypeOK
<1>6. OneTransactionPerLine'
  BY DEF OneTransactionPerLine, QueuedLines
<1>7. ResponsesAreAwaited'
  BY DEF TypeOK, L1TypeOK, BusTypeOK, ResponsesAreAwaited, QEntries
<1>8. FramesFit'
  BY <1>2, <1>3 DEF TypeOK, L1TypeOK, FramesFit
<1>9. RequestsFit'
  BY <1>1, <1>2, <1>4 DEF TypeOK, L1TypeOK, RequestsFit, RequestFits, VictimFrame, ReqIndex, SnoopTypes
<1>10. FrontFits'
  BY DEF FrontFits
<1>11. EngineFits'
  BY DEF TypeOK, L1TypeOK, BusTypeOK, EngineFits, ResponsesAreAwaited, Head0, QEntries
<1>. QED
  BY <1>5, <1>6, <1>7, <1>8, <1>9, <1>10, <1>11 DEF TypeInv

\* The position of a walk that is not over is a frame.
LEMMA WalkFrame ==
    ASSUME NEW p \in (0 .. SETS) \X Ways, p[1] < SETS
    PROVE  p \in Frames
  BY GeometryAssumption DEF Frames, Sets

LEMMA FlushStartType ==
    ASSUME TypeInv, NEW i \in Masters, FlushStart(i)
    PROVE  TypeInv'
<1>. USE DEF TypeInv, FlushStart
<1>1. TypeOK'
  <2>1. <<0, 0>> \in (0 .. SETS) \X Ways
    BY GeometryAssumption DEF Ways
  <2>2. L1TypeOK'
    BY <2>1 DEF TypeOK, L1TypeOK, L1States
  <2>3. BusTypeOK'
    BY DEF TypeOK, BusTypeOK
  <2>. QED
    BY <2>2, <2>3 DEF TypeOK
<1>2. OneTransactionPerLine'
  BY DEF OneTransactionPerLine, QueuedLines
<1>3. ResponsesAreAwaited'
  BY DEF TypeOK, L1TypeOK, BusTypeOK, ResponsesAreAwaited, QEntries
<1>4. FramesFit'
  BY DEF FramesFit
<1>5. RequestsFit'
  BY DEF TypeOK, L1TypeOK, RequestsFit, RequestFits, VictimFrame, ReqIndex
<1>6. FrontFits'
  BY DEF FrontFits
<1>7. EngineFits'
  BY DEF EngineFits, Head0
<1>. QED
  BY <1>1, <1>2, <1>3, <1>4, <1>5, <1>6, <1>7 DEF TypeInv

LEMMA FlushDropType ==
    ASSUME TypeInv, NEW i \in Masters, FlushDrop(i)
    PROVE  TypeInv'
<1>1. /\ mesi \in [Masters -> [Frames -> Mesi]] /\ "I" \in Mesi
      /\ fl_pos \in [Masters -> (0 .. SETS) \X Ways] /\ fl_pos[i][1] < SETS
      /\ mesi' = [mesi EXCEPT ![i][fl_pos[i]] = "I"]
      /\ fl_pos' = [fl_pos EXCEPT ![i] = NextPos(@)]
  BY DEF TypeInv, TypeOK, L1TypeOK, FlushDrop, Mesi
<1>2. fl_pos[i] \in Frames
  BY <1>1, WalkFrame
<1>3. mesi' \in [Masters -> [Frames -> Mesi]]
  BY <1>1, <1>2
<1>4. fl_pos' \in [Masters -> (0 .. SETS) \X Ways]
  BY <1>1, <1>2, NextPosType
<1>. USE DEF TypeInv, FlushDrop
<1>5. TypeOK'
  <2>1. L1TypeOK'
    BY <1>3, <1>4 DEF TypeOK, L1TypeOK
  <2>2. BusTypeOK'
    BY DEF TypeOK, BusTypeOK
  <2>. QED
    BY <2>1, <2>2 DEF TypeOK
<1>6. OneTransactionPerLine'
  BY DEF OneTransactionPerLine, QueuedLines
<1>7. ResponsesAreAwaited'
  BY DEF ResponsesAreAwaited
<1>8. FramesFit'
  <2>. HIDE DEF TypeInv, FlushDrop
  <2>1. \A j \in Masters, f \in Frames : mesi'[j][f] # "I" => mesi[j][f] # "I"
    BY <1>1, <1>2
  <2>. QED
    BY <2>1 DEF TypeInv, FlushDrop, FramesFit
<1>9. RequestsFit'
  <2>. SUFFICES ASSUME NEW j \in Masters PROVE RequestFits(j)'
    BY DEF RequestsFit
  <2>1. /\ state[i] = "FLUSH"
        /\ UNCHANGED <<state, req, victim, bus_req, tag>>
    BY DEF FlushDrop
  <2>2. RequestFits(j)
    BY DEF RequestsFit
  <2>3. CASE j = i
    BY <2>1, <2>2, <2>3 DEF RequestFits
  <2>4. CASE j # i
    <3>1. fl_pos'[j] = fl_pos[j]
      BY <1>1, <2>4
    <3>. QED
      BY <2>1, <2>2, <3>1, StillFits
  <2>. QED
    BY <2>3, <2>4
<1>10. FrontFits'
  BY DEF FrontFits
<1>11. EngineFits'
  BY DEF EngineFits, Head0
<1>. QED
  BY <1>5, <1>6, <1>7, <1>8, <1>9, <1>10, <1>11 DEF TypeInv

LEMMA FlushWritebackType ==
    ASSUME TypeInv, NEW i \in Masters, FlushWriteback(i)
    PROVE  TypeInv'
<1>. DEFINE p == fl_pos[i]
<1>1. p \in Frames
  BY WalkFrame DEF TypeInv, TypeOK, L1TypeOK, FlushWriteback
<1>2. tag[i][p] \in Lines /\ data[i][p] \in LineData
  BY <1>1 DEF TypeInv, FramesFit, FlushWriteback
<1>3. bus_req' = [bus_req EXCEPT ![i] = [type |-> "WB", line |-> tag[i][p], wdata |-> data[i][p]]]
  BY DEF FlushWriteback
<1>. USE DEF TypeInv, FlushWriteback
<1>4. TypeOK'
  <2>1. bus_req' \in [Masters -> BusReqs \union {NoBusReq}]
    BY <1>2, <1>3 DEF TypeOK, L1TypeOK, BusReqs, BusTypes
  <2>2. L1TypeOK'
    BY <2>1 DEF TypeOK, L1TypeOK, L1States
  <2>3. BusTypeOK'
    BY DEF TypeOK, BusTypeOK
  <2>. QED
    BY <2>2, <2>3 DEF TypeOK
<1>5. OneTransactionPerLine'
  BY DEF OneTransactionPerLine, QueuedLines
<1>6. ResponsesAreAwaited'
  BY DEF TypeOK, L1TypeOK, BusTypeOK, ResponsesAreAwaited, QEntries
<1>7. FramesFit'
  BY DEF FramesFit
<1>8. RequestsFit'
  <2>. SUFFICES ASSUME NEW j \in Masters PROVE RequestFits(j)'
    BY DEF RequestsFit
  <2>1. CASE j = i
    BY <2>1, <1>1, <1>2, <1>3 DEF TypeOK, L1TypeOK, RequestFits
  <2>2. CASE j # i
    BY <2>2, <1>3 DEF TypeOK, L1TypeOK, RequestsFit, RequestFits, VictimFrame, ReqIndex
  <2>. QED
    BY <2>1, <2>2
<1>9. FrontFits'
  BY DEF FrontFits
<1>10. EngineFits'
  BY <1>3 DEF TypeOK, L1TypeOK, BusTypeOK, EngineFits, ResponsesAreAwaited, Head0, QEntries
<1>. QED
  BY <1>4, <1>5, <1>6, <1>7, <1>8, <1>9, <1>10 DEF TypeInv

LEMMA FlushDoneType ==
    ASSUME TypeInv, NEW i \in Masters, FlushDone(i)
    PROVE  TypeInv'
<1>. USE DEF TypeInv, FlushDone
<1>1. TypeOK'
  <2>1. <<0, 0>> \in (0 .. SETS) \X Ways
    BY GeometryAssumption DEF Ways
  <2>2. L1TypeOK'
    BY <2>1 DEF TypeOK, L1TypeOK, L1States
  <2>3. BusTypeOK'
    BY DEF TypeOK, BusTypeOK
  <2>. QED
    BY <2>2, <2>3 DEF TypeOK
<1>2. OneTransactionPerLine'
  BY DEF OneTransactionPerLine, QueuedLines
<1>3. ResponsesAreAwaited'
  BY DEF TypeOK, L1TypeOK, BusTypeOK, ResponsesAreAwaited, QEntries
<1>4. FramesFit'
  BY DEF FramesFit
<1>5. RequestsFit'
  BY DEF TypeOK, L1TypeOK, RequestsFit, RequestFits, VictimFrame, ReqIndex
<1>6. FrontFits'
  BY DEF FrontFits
<1>7. EngineFits'
  BY DEF EngineFits, Head0
<1>. QED
  BY <1>1, <1>2, <1>3, <1>4, <1>5, <1>6, <1>7 DEF TypeInv

\* Steps that touch neither the caches' requests nor the bus.
LEMMA FenceType ==
    ASSUME TypeInv, Fence
    PROVE  TypeInv'
<1>1. /\ UNCHANGED <<state, mesi, tag, data, rep_ptr, req, victim, bus_req,
                     rdata, fl_pos, frontvars, enginevars, l2vars, latest>>
      /\ flush_seen' \in SUBSET Masters
      /\ fctrl' \in {"IDLE", "L1", "DRAIN", "L2", "DONE"}
  BY DEF Fence, FenceStart, FenceDrain, FenceL2, FenceComplete, FenceRelease,
     TypeInv, TypeOK, L1TypeOK
<1>. USE DEF TypeInv
<1>2. TypeOK'
  <2>1. L1TypeOK'
    BY <1>1 DEF TypeOK, L1TypeOK
  <2>2. BusTypeOK'
    BY <1>1 DEF TypeOK, BusTypeOK
  <2>. QED
    BY <2>1, <2>2 DEF TypeOK
<1>3. OneTransactionPerLine'
  BY <1>1 DEF OneTransactionPerLine, QueuedLines
<1>4. ResponsesAreAwaited'
  BY <1>1 DEF ResponsesAreAwaited
<1>5. FramesFit'
  BY <1>1 DEF FramesFit
<1>6. RequestsFit'
  BY <1>1 DEF RequestsFit, RequestFits, VictimFrame, ReqIndex
<1>7. FrontFits'
  BY <1>1 DEF FrontFits
<1>8. EngineFits'
  BY <1>1 DEF EngineFits, Head0
<1>. QED
  BY <1>2, <1>3, <1>4, <1>5, <1>6, <1>7, <1>8

\* A queue slot, appending to the queue and retiring its head.
LEMMA SlotFacts ==
    ASSUME NEW q \in Seq(QEntries), NEW k \in 1 .. Len(q)
    PROVE  q[k] \in QEntries /\ q[k].master \in Masters /\ q[k].line \in Lines
<1>1. q[k] \in QEntries
  OBVIOUS
<1>. QED
  BY <1>1 DEF QEntries

LEMMA PushFacts ==
    ASSUME NEW q \in Seq(QEntries), NEW e \in QEntries
    PROVE  /\ Append(q, e) \in Seq(QEntries)
           /\ Len(Append(q, e)) = Len(q) + 1
           /\ Append(q, e)[Len(q) + 1] = e
           /\ \A k \in 1 .. Len(q) : Append(q, e)[k] = q[k]
           /\ Append(q, e) # <<>>
           /\ q # <<>> => Append(q, e)[1] = q[1]
<1>1. /\ Append(q, e) \in Seq(QEntries)
      /\ Len(Append(q, e)) = Len(q) + 1
      /\ Append(q, e)[Len(q) + 1] = e
      /\ \A k \in 1 .. Len(q) : Append(q, e)[k] = q[k]
  OBVIOUS
<1>2. Append(q, e) # <<>>
  BY <1>1
<1>3. q # <<>> => 1 \in 1 .. Len(q)
  OBVIOUS
<1>. QED
  BY <1>1, <1>2, <1>3

LEMMA PopFacts ==
    ASSUME NEW q \in Seq(QEntries), q # <<>>
    PROVE  /\ Tail(q) \in Seq(QEntries)
           /\ Len(Tail(q)) = Len(q) - 1
           /\ \A k \in 1 .. Len(Tail(q)) : k + 1 \in 1 .. Len(q) /\ Tail(q)[k] = q[k + 1]
           /\ 1 \in 1 .. Len(q)
           /\ q[1] \in QEntries
  OBVIOUS

\* The arbiter moves to the next master, wrapping at the last.
LEMMA AdvanceType ==
    ASSUME NEW i \in Masters, Advance(i)
    PROVE  rr_ptr' \in Masters
  BY GeometryAssumption DEF Advance, Masters

LEMMA FetchReqType ==
    ASSUME NEW i \in Masters, req[i] \in CoreReqs
    PROVE  /\ FetchReq(i) \in BusReqs
           /\ FetchReq(i).type \in {"RD", "RDX"}
           /\ FetchReq(i).line = req[i].line
           /\ FetchReq(i).type # "RD" => req[i].write
  BY DEF FetchReq, FetchType, BusReqs, BusTypes, SnoopTypes, CoreReqs, CoreReads,
     CoreWrites

LEMMA GrantWBType ==
    ASSUME TypeInv, NEW i \in Masters, GrantWB(i)
    PROVE  TypeInv'
<1>. DEFINE e == [master |-> i, wr |-> TRUE, respond |-> FALSE, shared |-> FALSE,
                  line |-> bus_req[i].line, wdata |-> bus_req[i].wdata]
<1>1. /\ fstate = "IDLE" /\ Requesting(i) /\ ~conflict(i)
      /\ bus_req[i].type = "WB" /\ state[i] \in {"EVICT", "FLUSH_WB"}
      /\ queue' = Append(queue, e)
  BY DEF GrantWB, ArbGrant, Grantable
<1>2. /\ bus_req[i].line \in Lines /\ bus_req[i].wdata \in LineData
      /\ state[i] = "EVICT" => req[i] \in CoreReqs
      /\ state[i] = "FLUSH_WB" => fl_pos[i] \in Frames
  BY <1>1 DEF TypeInv, RequestsFit, RequestFits
<1>3. e \in QEntries
  BY <1>2 DEF QEntries
<1>4. queue \in Seq(QEntries)
  BY DEF TypeInv, TypeOK, BusTypeOK
<1>. HIDE DEF e
<1>5. /\ queue' \in Seq(QEntries) /\ Len(queue') = Len(queue) + 1
      /\ queue'[Len(queue) + 1] = e /\ \A k \in 1 .. Len(queue) : queue'[k] = queue[k]
      /\ queue' # <<>> /\ queue # <<>> => queue'[1] = queue[1]
      /\ Len(queue) \in Nat
  BY <1>1, <1>3, <1>4, PushFacts
<1>6. e.line = bus_req[i].line /\ e.wr /\ ~e.respond /\ e.wdata \in LineData
  BY <1>2 DEF e
<1>7. TypeOK'
  <2>1. \/ /\ state' = [state EXCEPT ![i] = "REQ"]
           /\ bus_req' = [bus_req EXCEPT ![i] = FetchReq(i)]
           /\ req[i] \in CoreReqs
           /\ UNCHANGED <<mesi, fl_pos>>
        \/ /\ state' = [state EXCEPT ![i] = "FLUSH"]
           /\ bus_req' = [bus_req EXCEPT ![i] = NoBusReq]
           /\ fl_pos[i] \in Frames
           /\ mesi' = [mesi EXCEPT ![i][fl_pos[i]] = "I"]
           /\ fl_pos' = [fl_pos EXCEPT ![i] = NextPos(fl_pos[i])]
    BY <1>2 DEF GrantWB
  <2>2. /\ state \in [Masters -> L1States] /\ mesi \in [Masters -> [Frames -> Mesi]]
        /\ bus_req \in [Masters -> BusReqs \union {NoBusReq}]
        /\ fl_pos \in [Masters -> (0 .. SETS) \X Ways]
    BY DEF TypeInv, TypeOK, L1TypeOK
  <2>3. state' \in [Masters -> L1States]
    BY <2>1, <2>2 DEF L1States
  <2>4. mesi' \in [Masters -> [Frames -> Mesi]]
    <3>1. CASE mesi' = mesi
      BY <2>2, <3>1
    <3>2. CASE fl_pos[i] \in Frames /\ mesi' = [mesi EXCEPT ![i][fl_pos[i]] = "I"]
      BY <2>2, <3>2 DEF Mesi
    <3>. QED
      BY <2>1, <3>1, <3>2
  <2>5. bus_req' \in [Masters -> BusReqs \union {NoBusReq}]
    BY <2>1, <2>2, FetchReqType
  <2>6. fl_pos' \in [Masters -> (0 .. SETS) \X Ways]
    BY <2>1, <2>2, NextPosType, SMTT(30)
  <2>7. L1TypeOK'
    BY <2>3, <2>4, <2>5, <2>6 DEF TypeInv, TypeOK, L1TypeOK, GrantWB
  <2>8. BusTypeOK'
    BY <1>5, AdvanceType DEF TypeInv, TypeOK, BusTypeOK, GrantWB
  <2>. QED
    BY <2>7, <2>8 DEF TypeOK
<1>8. OneTransactionPerLine'
  <2>1. \A k \in 1 .. Len(queue) : queue[k].line # e.line
    BY <1>1, <1>6 DEF conflict, QueuedLines
  <2>2. fstate' = "IDLE"
    BY <1>1 DEF GrantWB
  <2>. QED
    BY <1>5, <2>1, <2>2 DEF TypeInv, OneTransactionPerLine
<1>9. ResponsesAreAwaited'
  <2>1. fstate' = "IDLE" /\ \A j \in Masters : j # i => /\ state'[j] = state[j]
                                                          /\ bus_req'[j] = bus_req[j]
    BY <1>1 DEF GrantWB, TypeInv, TypeOK, L1TypeOK
  <2>2. \A k \in 1 .. Len(queue) : queue[k].respond => queue[k].master # i
    BY <1>1 DEF TypeInv, ResponsesAreAwaited
  <2>3. \A k \in 1 .. Len(queue) : queue[k].master \in Masters
    BY <1>4, SlotFacts
  <2>. QED
    BY <1>5, <1>6, <2>1, <2>2, <2>3 DEF TypeInv, ResponsesAreAwaited
<1>10. FramesFit'
  <2>1. \A j \in Masters, f \in Frames : mesi'[j][f] # "I" => mesi[j][f] # "I"
    <3>1. mesi' = mesi \/ (fl_pos[i] \in Frames /\ mesi' = [mesi EXCEPT ![i][fl_pos[i]] = "I"])
      BY <1>2 DEF GrantWB
    <3>2. mesi \in [Masters -> [Frames -> Mesi]]
      BY DEF TypeInv, TypeOK, L1TypeOK
    <3>. QED
      BY <3>1, <3>2
  <2>. QED
    BY <2>1 DEF TypeInv, GrantWB, FramesFit
<1>11. RequestsFit'
  <2>. SUFFICES ASSUME NEW j \in Masters PROVE RequestFits(j)'
    BY DEF RequestsFit
  <2>1. CASE j = i
    BY <2>1, <1>2, FetchReqType DEF GrantWB, TypeInv, TypeOK, L1TypeOK, RequestFits, SnoopTypes
  <2>2. CASE j # i
    BY <2>2 DEF GrantWB, TypeInv, TypeOK, L1TypeOK, RequestsFit, RequestFits, VictimFrame, ReqIndex
  <2>. QED
    BY <2>1, <2>2
<1>12. FrontFits'
  BY DEF TypeInv, GrantWB, FrontFits
<1>13. EngineFits'
  <2>1. \A j \in Masters : j # i => bus_req'[j] = bus_req[j]
    BY DEF GrantWB, TypeInv, TypeOK, L1TypeOK
  <2>2. \A k \in 1 .. Len(queue) : queue[k].respond => queue[k].master # i
    BY <1>1 DEF TypeInv, ResponsesAreAwaited
  <2>3. \A k \in 1 .. Len(queue) : queue[k].master \in Masters
    BY <1>4, SlotFacts
  <2>4. UNCHANGED <<estate, e_rdata>>
    BY DEF GrantWB
  <2>. QED
    BY <1>5, <1>6, <2>1, <2>2, <2>3, <2>4 DEF TypeInv, EngineFits, Head0
<1>. QED
  BY <1>7, <1>8, <1>9, <1>10, <1>11, <1>12, <1>13 DEF TypeInv

LEMMA GrantSnoopType ==
    ASSUME TypeInv, NEW i \in Masters, GrantSnoop(i)
    PROVE  TypeInv'
<1>1. /\ fstate = "IDLE" /\ ~conflict(i) /\ state[i] = "REQ"
      /\ bus_req[i].type \in SnoopTypes /\ bus_req[i].line \in Lines
  <2>1. fstate = "IDLE" /\ Requesting(i) /\ ~conflict(i) /\ bus_req[i].type \in SnoopTypes
    BY DEF GrantSnoop, ArbGrant, Grantable
  <2>2. state[i] = "REQ"
    BY <2>1 DEF Requesting, SnoopTypes, TypeInv, RequestsFit, RequestFits
  <2>. QED
    BY <2>1, <2>2 DEF TypeInv, RequestsFit, RequestFits, CoreReqs, CoreReads, CoreWrites
<1>. USE DEF TypeInv, GrantSnoop
<1>2. TypeOK'
  <2>1. L1TypeOK'
    BY DEF TypeOK, L1TypeOK, L1States
  <2>2. /\ rr_ptr' \in Masters /\ f_grant' \in Masters /\ snp_pending' \in SUBSET Masters
        /\ cur' \in [type : SnoopTypes, line : Lines \union {NoData}]
    BY <1>1, AdvanceType
  <2>3. hit_acc' \in BOOLEAN /\ dirty_acc' \in BOOLEAN
    OBVIOUS
  <2>4. UNCHANGED <<queue, estate, l2_accepted, e_rdata, l2_busy, l2, fctrl, latest>>
    OBVIOUS
  <2>5. fstate' = "SNOOP" /\ dirty_data' = NoData
    OBVIOUS
  <2>6. BusTypeOK'
    BY <2>2, <2>3, <2>4, <2>5, Zenon DEF TypeOK, BusTypeOK
  <2>. QED
    BY <2>1, <2>6 DEF TypeOK
<1>3. OneTransactionPerLine'
  BY <1>1 DEF OneTransactionPerLine, QueuedLines, conflict
<1>4. ResponsesAreAwaited'
  BY <1>1 DEF TypeOK, L1TypeOK, BusTypeOK, ResponsesAreAwaited, QEntries
<1>5. FramesFit'
  BY DEF FramesFit
<1>6. RequestsFit'
  BY <1>1 DEF TypeOK, L1TypeOK, RequestsFit, RequestFits, VictimFrame, ReqIndex
<1>7. FrontFits'
  BY <1>1 DEF FrontFits
<1>8. EngineFits'
  BY DEF EngineFits, Head0
<1>. QED
  BY <1>2, <1>3, <1>4, <1>5, <1>6, <1>7, <1>8

\* What answering a snoop does, without the definitions of the lookup: either
\* nothing of the line was there, or frame f held it and is downgraded.
LEMMA SnoopAnswerFacts ==
    ASSUME TypeInv, NEW k \in Masters, SnoopAnswer(k)
    PROVE  /\ fstate = "SNOOP" /\ k \in snp_pending /\ k # f_grant
           /\ state[k] \in {"IDLE", "EVICT", "REQ"}
           /\ cur.line \in Lines
           /\ snp_pending' = snp_pending \ {k}
           /\ UNCHANGED <<tag, data, rep_ptr, req, victim, rdata, fl_pos,
                          flush_seen, fstate, f_grant, rr_ptr, cur, enginevars,
                          l2vars, fctrl, latest>>
           /\ \/ /\ Hits(k, cur.line) = {}
                 /\ UNCHANGED <<mesi, bus_req, state, dirty_data>>
                 /\ hit_acc' = (hit_acc \/ FALSE) /\ dirty_acc' = (dirty_acc \/ FALSE)
              \/ \E f \in Frames :
                    /\ f = HitFrame(k, cur.line)
                    /\ mesi[k][f] # "I" /\ tag[k][f] = cur.line
                    /\ mesi' = [mesi EXCEPT ![k][f] = SnoopedState(cur.type)]
                    /\ hit_acc' = (hit_acc \/ TRUE)
                    /\ dirty_acc' = (dirty_acc \/ mesi[k][f] = "M")
                    /\ dirty_data' = IF mesi[k][f] = "M" THEN data[k][f] ELSE dirty_data
                    /\ \/ /\ UNCHANGED <<bus_req, state>>
                          /\ ~(/\ state[k] = "REQ" /\ bus_req[k].type = "UPGR"
                               /\ cur.type # "RD" /\ bus_req[k].line = cur.line)
                       \/ /\ state[k] = "REQ" /\ bus_req[k].type = "UPGR"
                          /\ cur.type # "RD" /\ bus_req[k].line = cur.line
                          /\ bus_req' = [bus_req EXCEPT ![k] = [@ EXCEPT !.type = "RDX"]]
                          /\ UNCHANGED state
                       \/ /\ state[k] = "EVICT"
                          /\ bus_req' = [bus_req EXCEPT ![k] = FetchReq(k)]
                          /\ state' = [state EXCEPT ![k] = "REQ"]
<1>1. /\ fstate = "SNOOP" /\ k \in snp_pending /\ k # f_grant
      /\ state[k] \in {"IDLE", "EVICT", "REQ"}
      /\ cur.line \in Lines
      /\ snp_pending' = snp_pending \ {k}
      /\ UNCHANGED <<tag, data, rep_ptr, req, victim, rdata, fl_pos,
                     flush_seen, fstate, f_grant, rr_ptr, cur, enginevars,
                     l2vars, fctrl, latest>>
  BY DEF SnoopAnswer, SnoopWaiting, snoop_allowed, TypeInv, FrontFits
<1>2. /\ state \in [Masters -> L1States]
      /\ bus_req \in [Masters -> BusReqs \union {NoBusReq}]
  BY DEF TypeInv, TypeOK, L1TypeOK
<1>3. CASE Hits(k, cur.line) = {}
  BY <1>1, <1>2, <1>3 DEF SnoopAnswer, SnoopHits, SomeHit, LosesUpgrade, LosesVictim
<1>4. CASE Hits(k, cur.line) # {}
  <2>. DEFINE f == HitFrame(k, cur.line)
              race1 == /\ state[k] = "REQ" /\ bus_req[k].type = "UPGR"
                       /\ cur.type # "RD" /\ bus_req[k].line = cur.line
              race2 == state[k] = "EVICT" /\ bus_req[k].line = cur.line
  <2>1. f \in Frames /\ mesi[k][f] # "I" /\ tag[k][f] = cur.line
    BY <1>1, <1>4, HitFrameHolds
  <2>2. /\ mesi' = [mesi EXCEPT ![k][f] = SnoopedState(cur.type)]
        /\ hit_acc' = (hit_acc \/ TRUE)
        /\ dirty_acc' = (dirty_acc \/ mesi[k][f] = "M")
        /\ dirty_data' = IF mesi[k][f] = "M" THEN data[k][f] ELSE dirty_data
    BY <1>4 DEF SnoopAnswer, SnoopHits, SomeHit
  <2>3. /\ bus_req' = [bus_req EXCEPT ![k] =
                         IF race1 THEN [@ EXCEPT !.type = "RDX"]
                         ELSE IF race2 THEN FetchReq(k) ELSE @]
        /\ state' = [state EXCEPT ![k] = IF race2 THEN "REQ" ELSE @]
    BY <1>4 DEF SnoopAnswer, SnoopHits, LosesUpgrade, LosesVictim
  <2>. HIDE DEF f
  <2>4. CASE race1
    <3>1. /\ bus_req' = [bus_req EXCEPT ![k] = [@ EXCEPT !.type = "RDX"]]
          /\ UNCHANGED state
      BY <1>2, <2>3, <2>4
    <3>. QED
      BY <1>1, <2>1, <2>2, <2>4, <3>1 DEF f
  <2>5. CASE ~race1 /\ race2
    <3>1. /\ bus_req' = [bus_req EXCEPT ![k] = FetchReq(k)]
          /\ state' = [state EXCEPT ![k] = "REQ"]
      BY <1>2, <2>3, <2>5
    <3>. QED
      BY <1>1, <2>1, <2>2, <2>5, <3>1 DEF f
  <2>6. CASE ~race1 /\ ~race2
    <3>1. UNCHANGED <<bus_req, state>>
      BY <1>2, <2>3, <2>6
    <3>. QED
      BY <1>1, <2>1, <2>2, <2>6, <3>1 DEF f
  <2>. QED
    BY <2>4, <2>5, <2>6
<1>. QED
  BY <1>3, <1>4

LEMMA SnoopAnswerType ==
    ASSUME TypeInv, NEW k \in Masters, SnoopAnswer(k)
    PROVE  TypeInv'
<1>1. /\ fstate = "SNOOP" /\ k \in snp_pending /\ k # f_grant
      /\ state[k] \in {"IDLE", "EVICT", "REQ"}
      /\ snp_pending' = snp_pending \ {k}
      /\ UNCHANGED <<tag, data, rep_ptr, req, victim, rdata, fl_pos,
                     flush_seen, fstate, f_grant, rr_ptr, cur, enginevars,
                     l2vars, fctrl, latest>>
  BY SnoopAnswerFacts
<1>2. \/ UNCHANGED <<bus_req, state>>
      \/ /\ state[k] = "REQ" /\ bus_req[k].type = "UPGR"
         /\ bus_req' = [bus_req EXCEPT ![k] = [@ EXCEPT !.type = "RDX"]]
         /\ UNCHANGED state
      \/ /\ state[k] = "EVICT"
         /\ bus_req' = [bus_req EXCEPT ![k] = FetchReq(k)]
         /\ state' = [state EXCEPT ![k] = "REQ"]
  BY SnoopAnswerFacts
<1>3. /\ mesi' \in [Masters -> [Frames -> Mesi]]
      /\ \A j \in Masters, f \in Frames : mesi'[j][f] # "I" => mesi[j][f] # "I"
  <2>1. mesi \in [Masters -> [Frames -> Mesi]] /\ SnoopedState(cur.type) \in Mesi
    BY DEF TypeInv, TypeOK, L1TypeOK, SnoopedState, Mesi
  <2>2. CASE UNCHANGED mesi
    BY <2>1, <2>2
  <2>3. CASE \E f \in Frames : mesi[k][f] # "I" /\ mesi' = [mesi EXCEPT ![k][f] = SnoopedState(cur.type)]
    BY <2>1, <2>3
  <2>. QED
    BY <2>2, <2>3, SnoopAnswerFacts
<1>4. /\ hit_acc' \in BOOLEAN /\ dirty_acc' \in BOOLEAN
      /\ dirty_data' \in LineData \union {NoData}
      /\ dirty_acc' => dirty_data' \in LineData
  <2>1. /\ hit_acc \in BOOLEAN /\ dirty_acc \in BOOLEAN
        /\ dirty_data \in LineData \union {NoData}
        /\ dirty_acc => dirty_data \in LineData
    BY DEF TypeInv, TypeOK, BusTypeOK, FrontFits
  <2>2. CASE UNCHANGED dirty_data /\ hit_acc' = (hit_acc \/ FALSE) /\ dirty_acc' = (dirty_acc \/ FALSE)
    BY <2>1, <2>2
  <2>3. CASE \E f \in Frames :
                    /\ mesi[k][f] # "I"
                    /\ hit_acc' = (hit_acc \/ TRUE)
                    /\ dirty_acc' = (dirty_acc \/ mesi[k][f] = "M")
                    /\ dirty_data' = IF mesi[k][f] = "M" THEN data[k][f] ELSE dirty_data
    <3>1. PICK f \in Frames :
                    /\ mesi[k][f] # "I"
                    /\ hit_acc' = (hit_acc \/ TRUE)
                    /\ dirty_acc' = (dirty_acc \/ mesi[k][f] = "M")
                    /\ dirty_data' = IF mesi[k][f] = "M" THEN data[k][f] ELSE dirty_data
      BY <2>3
    <3>2. data[k][f] \in LineData
      BY <3>1 DEF TypeInv, FramesFit
    <3>. QED
      BY <2>1, <3>1, <3>2
  <2>. QED
    BY <2>2, <2>3, SnoopAnswerFacts
<1>5. TypeOK'
  <2>1. state' \in [Masters -> L1States]
    BY <1>2 DEF TypeInv, TypeOK, L1TypeOK, L1States
  <2>2. bus_req' \in [Masters -> BusReqs \union {NoBusReq}]
    <3>1. bus_req \in [Masters -> BusReqs \union {NoBusReq}]
      BY DEF TypeInv, TypeOK, L1TypeOK
    <3>2. CASE /\ state[k] = "REQ" /\ bus_req[k].type = "UPGR"
               /\ bus_req' = [bus_req EXCEPT ![k] = [@ EXCEPT !.type = "RDX"]]
      <4>1. bus_req[k] \in BusReqs
        BY <3>1, <3>2 DEF NoBusReq
      <4>2. [bus_req[k] EXCEPT !.type = "RDX"] \in BusReqs
        BY <4>1 DEF BusReqs, BusTypes, SnoopTypes
      <4>. QED
        BY <3>1, <3>2, <4>2
    <3>3. CASE state[k] = "EVICT" /\ bus_req' = [bus_req EXCEPT ![k] = FetchReq(k)]
      <4>1. req[k] \in CoreReqs
        BY <3>3 DEF TypeInv, RequestsFit, RequestFits
      <4>. QED
        BY <3>1, <3>3, <4>1, FetchReqType
    <3>. QED
      BY <1>2, <3>1, <3>2, <3>3
  <2>3. L1TypeOK'
    BY <1>1, <1>3, <2>1, <2>2 DEF TypeInv, TypeOK, L1TypeOK
  <2>4. BusTypeOK'
    BY <1>1, <1>4 DEF TypeInv, TypeOK, BusTypeOK
  <2>. QED
    BY <2>3, <2>4 DEF TypeOK
<1>6. OneTransactionPerLine'
  BY <1>1 DEF TypeInv, OneTransactionPerLine, QueuedLines
<1>7. \A j \in Masters : j # k => state'[j] = state[j] /\ bus_req'[j] = bus_req[j]
  BY <1>2 DEF TypeInv, TypeOK, L1TypeOK
<1>8. \A n \in 1 .. Len(queue) : /\ queue[n].master \in Masters
                                 /\ queue[n].respond => queue[n].master # k
  BY <1>1, SlotFacts DEF TypeInv, TypeOK, BusTypeOK, ResponsesAreAwaited
<1>9. ResponsesAreAwaited'
  BY <1>1, <1>7, <1>8 DEF TypeInv, TypeOK, BusTypeOK, ResponsesAreAwaited
<1>10. FramesFit'
  BY <1>1, <1>3 DEF TypeInv, FramesFit
<1>11. RequestsFit'
  <2>. SUFFICES ASSUME NEW j \in Masters PROVE RequestFits(j)'
    BY DEF RequestsFit
  <2>1. RequestFits(j)
    BY DEF TypeInv, RequestsFit
  <2>2. VictimFrame(j)' = VictimFrame(j)
    BY <1>1 DEF VictimFrame, ReqIndex
  <2>3. CASE j # k
    BY <1>1, <1>7, <2>1, <2>2, <2>3 DEF RequestFits
  <2>4. CASE j = k /\ UNCHANGED <<bus_req, state>>
    BY <1>1, <2>1, <2>2, <2>4 DEF RequestFits
  <2>5. CASE /\ j = k /\ state[k] = "REQ" /\ bus_req[k].type = "UPGR"
             /\ bus_req' = [bus_req EXCEPT ![k] = [@ EXCEPT !.type = "RDX"]]
             /\ UNCHANGED state
    <3>1. bus_req[k] \in BusReqs
      BY <2>5 DEF TypeInv, TypeOK, L1TypeOK, NoBusReq
    <3>2. bus_req'[k].type = "RDX" /\ bus_req'[k].line = bus_req[k].line
      BY <2>5, <3>1 DEF BusReqs, TypeInv, TypeOK, L1TypeOK
    <3>. QED
      BY <1>1, <2>1, <2>2, <2>5, <3>2 DEF RequestFits, SnoopTypes
  <2>6. CASE /\ j = k /\ state[k] = "EVICT"
             /\ bus_req' = [bus_req EXCEPT ![k] = FetchReq(k)]
             /\ state' = [state EXCEPT ![k] = "REQ"]
    <3>1. req[k] \in CoreReqs
      BY <2>1, <2>6 DEF RequestFits
    <3>2. bus_req'[k] = FetchReq(k) /\ state'[k] = "REQ"
      BY <2>6 DEF TypeInv, TypeOK, L1TypeOK
    <3>. QED
      BY <1>1, <2>2, <2>6, <3>1, <3>2, FetchReqType DEF RequestFits, SnoopTypes
  <2>. QED
    BY <1>2, <2>3, <2>4, <2>5, <2>6
<1>12. FrontFits'
  BY <1>1, <1>4 DEF TypeInv, FrontFits
<1>13. EngineFits'
  BY <1>1, <1>7, <1>8 DEF TypeInv, EngineFits, Head0
<1>. QED
  BY <1>5, <1>6, <1>9, <1>10, <1>11, <1>12, <1>13 DEF TypeInv

LEMMA DecideFastType ==
    ASSUME TypeInv, DecideFast
    PROVE  TypeInv'
<1>. USE DEF TypeInv, DecideFast, Decided
<1>1. TypeOK'
  <2>1. L1TypeOK'
    BY DEF TypeOK, L1TypeOK
  <2>2. BusTypeOK'
    BY DEF TypeOK, BusTypeOK
  <2>. QED
    BY <2>1, <2>2 DEF TypeOK
<1>2. OneTransactionPerLine'
  BY DEF OneTransactionPerLine, QueuedLines
<1>3. ResponsesAreAwaited'
  BY DEF ResponsesAreAwaited
<1>4. FramesFit'
  BY DEF FramesFit
<1>5. RequestsFit'
  BY DEF RequestsFit, RequestFits, VictimFrame, ReqIndex
<1>6. FrontFits'
  BY DEF FrontFits, AnswersFast
<1>7. EngineFits'
  BY DEF EngineFits, Head0
<1>. QED
  BY <1>1, <1>2, <1>3, <1>4, <1>5, <1>6, <1>7

LEMMA DecideQueueType ==
    ASSUME TypeInv, DecideQueue
    PROVE  TypeInv'
<1>. DEFINE e == [master |-> f_grant, wr |-> dirty_acc, respond |-> TRUE,
                  shared |-> dirty_acc \/ (cur.type = "RD" /\ hit_acc),
                  line |-> cur.line,
                  wdata |-> IF dirty_acc THEN dirty_data ELSE NoData]
<1>1. /\ fstate = "SNOOP" /\ snp_pending = {} /\ ~AnswersFast
      /\ queue' = Append(queue, e) /\ ClearFront
      /\ UNCHANGED <<l1vars, estate, l2_accepted, e_rdata, l2vars, fctrl, latest>>
  BY DEF DecideQueue, Decided
<1>2. /\ queue \in Seq(QEntries) /\ f_grant \in Masters /\ cur.line \in Lines
      /\ dirty_acc \in BOOLEAN /\ hit_acc \in BOOLEAN
      /\ dirty_acc => dirty_data \in LineData
      /\ cur.type \in {"RD", "RDX"}
  BY <1>1 DEF TypeInv, TypeOK, BusTypeOK, FrontFits, AnswersFast, SnoopTypes
<1>3. e \in QEntries
  BY <1>2 DEF QEntries
<1>4. /\ e.master = f_grant /\ e.line = cur.line /\ e.respond
      /\ e.wr = dirty_acc /\ e.wdata = IF dirty_acc THEN dirty_data ELSE NoData
  OBVIOUS
<1>. HIDE DEF e
<1>5. /\ queue' \in Seq(QEntries) /\ Len(queue') = Len(queue) + 1
      /\ queue'[Len(queue) + 1] = e /\ \A k \in 1 .. Len(queue) : queue'[k] = queue[k]
      /\ queue' # <<>> /\ queue # <<>> => queue'[1] = queue[1]
      /\ Len(queue) \in Nat
  BY <1>1, <1>2, <1>3, PushFacts
<1>6. TypeOK'
  <2>1. L1TypeOK'
    BY <1>1 DEF TypeInv, TypeOK, L1TypeOK
  <2>2. cur' \in [type : SnoopTypes, line : Lines \union {NoData}] /\ f_grant' \in Masters
    BY <1>1, GeometryAssumption DEF ClearFront, NoCur, SnoopTypes, Masters
  <2>3. hit_acc' \in BOOLEAN /\ dirty_acc' \in BOOLEAN /\ dirty_data' = NoData /\ fstate' = "IDLE"
    BY <1>1 DEF ClearFront
  <2>4. UNCHANGED <<rr_ptr, snp_pending, estate, l2_accepted, e_rdata, l2_busy, l2, fctrl, latest>>
    BY <1>1 DEF ClearFront
  <2>5. BusTypeOK'
    BY <1>5, <2>2, <2>3, <2>4, Zenon DEF TypeInv, TypeOK, BusTypeOK
  <2>. QED
    BY <2>1, <2>5 DEF TypeOK
<1>7. OneTransactionPerLine'
  <2>1. \A k \in 1 .. Len(queue) : queue[k].line # e.line
    BY <1>1, <1>4 DEF TypeInv, OneTransactionPerLine, QueuedLines
  <2>. QED
    BY <1>1, <1>5, <2>1 DEF TypeInv, OneTransactionPerLine, ClearFront
<1>8. ResponsesAreAwaited'
  BY <1>1, <1>4, <1>5 DEF TypeInv, ResponsesAreAwaited, ClearFront
<1>9. FramesFit'
  BY <1>1 DEF TypeInv, FramesFit
<1>10. RequestsFit'
  BY <1>1 DEF TypeInv, RequestsFit, RequestFits, VictimFrame, ReqIndex
<1>11. FrontFits'
  BY <1>1 DEF TypeInv, FrontFits, ClearFront
<1>12. EngineFits'
  <2>1. bus_req[f_grant].type \in {"RD", "RDX"}
    BY <1>1, <1>2 DEF TypeInv, ResponsesAreAwaited
  <2>. QED
    BY <1>1, <1>2, <1>4, <1>5, <2>1 DEF TypeInv, EngineFits, Head0
<1>. QED
  BY <1>6, <1>7, <1>8, <1>9, <1>10, <1>11, <1>12 DEF TypeInv

\* What a response does to the cache that gets it.
LEMMA FillType ==
    ASSUME TypeInv, NEW i \in Masters, state[i] = "FILL", NEW d, NEW sh,
           bus_req[i].type # "UPGR" => d \in LineData, Fill(i, d, sh)
    PROVE  /\ L1TypeOK' /\ FramesFit' /\ RequestsFit'
           /\ latest' \in [Lines -> LineData]
           /\ \A j \in Masters : j # i => /\ state'[j] = state[j]
                                          /\ bus_req'[j] = bus_req[j]
<1>. DEFINE f == VictimFrame(i)
<1>1. /\ req[i] \in CoreReqs /\ req[i].line \in Lines
      /\ bus_req[i].type # "RD" => req[i].write
      /\ bus_req[i].type = "UPGR" => tag[i][f] \in Lines
  BY DEF TypeInv, RequestsFit, RequestFits, CoreReqs, CoreReads, CoreWrites
<1>2. f \in Frames
  BY <1>1, IndexAssumption DEF VictimFrame, ReqIndex, Frames, TypeInv, TypeOK, L1TypeOK
<1>3. /\ state' = [state EXCEPT ![i] = "IDLE"]
      /\ req' = [req EXCEPT ![i] = NoReq]
      /\ bus_req' = [bus_req EXCEPT ![i] = NoBusReq]
      /\ victim' = [victim EXCEPT ![i] = 0]
      /\ UNCHANGED <<rep_ptr, fl_pos, flush_seen>>
  BY DEF Fill
<1>4. \/ /\ bus_req[i].type = "RD"
         /\ data' = [data EXCEPT ![i][f] = d]
         /\ tag' = [tag EXCEPT ![i][f] = req[i].line]
         /\ mesi' = [mesi EXCEPT ![i][f] = IF sh THEN "S" ELSE "E"]
         /\ rdata' = [rdata EXCEPT ![i] = d]
         /\ UNCHANGED latest
      \/ /\ bus_req[i].type = "RDX"
         /\ tag' = [tag EXCEPT ![i][f] = req[i].line]
         /\ Commit(i, f, d)
         /\ UNCHANGED rdata
      \/ /\ bus_req[i].type = "UPGR"
         /\ Commit(i, f, data[i][f])
         /\ UNCHANGED <<tag, rdata>>
  BY DEF Fill
<1>5. bus_req[i].type = "UPGR" => data[i][f] \in LineData
  BY <1>1, <1>2 DEF TypeInv, FramesFit
<1>. HIDE DEF f
<1>6. /\ data' \in [Masters -> [Frames -> LineData \union {NoData}]]
      /\ mesi' \in [Masters -> [Frames -> Mesi]]
      /\ tag' \in [Masters -> [Frames -> Lines \union {NoData}]]
      /\ rdata' \in [Masters -> LineData \union {NoData}]
      /\ latest' \in [Lines -> LineData]
      /\ data'[i][f] \in LineData
      /\ tag'[i][f] \in Lines
      /\ \A j \in Masters, g \in Frames :
            (j # i \/ g # f) => /\ data'[j][g] = data[j][g]
                                /\ mesi'[j][g] = mesi[j][g]
                                /\ tag'[j][g] = tag[j][g]
  <2>1. /\ data \in [Masters -> [Frames -> LineData \union {NoData}]]
        /\ mesi \in [Masters -> [Frames -> Mesi]]
        /\ tag \in [Masters -> [Frames -> Lines \union {NoData}]]
        /\ rdata \in [Masters -> LineData \union {NoData}]
        /\ latest \in [Lines -> LineData]
    BY DEF TypeInv, TypeOK, L1TypeOK, BusTypeOK
  <2>2. CASE bus_req[i].type = "RD"
    <3>1. /\ data' = [data EXCEPT ![i][f] = d]
          /\ tag' = [tag EXCEPT ![i][f] = req[i].line]
          /\ mesi' = [mesi EXCEPT ![i][f] = IF sh THEN "S" ELSE "E"]
          /\ rdata' = [rdata EXCEPT ![i] = d]
          /\ latest' = latest /\ d \in LineData
      BY <1>4, <2>2
    <3>2. (IF sh THEN "S" ELSE "E") \in Mesi
      BY DEF Mesi
    <3>3. /\ mesi' \in [Masters -> [Frames -> Mesi]]
          /\ \A j \in Masters, g \in Frames :
                (j # i \/ g # f) => mesi'[j][g] = mesi[j][g]
      BY <1>2, <2>1, <3>1, <3>2
    <3>4. /\ data' \in [Masters -> [Frames -> LineData \union {NoData}]]
          /\ data'[i][f] \in LineData
          /\ \A j \in Masters, g \in Frames :
                (j # i \/ g # f) => data'[j][g] = data[j][g]
      BY <1>2, <2>1, <3>1
    <3>5. /\ tag' \in [Masters -> [Frames -> Lines \union {NoData}]]
          /\ tag'[i][f] \in Lines
          /\ \A j \in Masters, g \in Frames :
                (j # i \/ g # f) => tag'[j][g] = tag[j][g]
      BY <1>1, <1>2, <2>1, <3>1
    <3>. QED
      BY <2>1, <3>1, <3>3, <3>4, <3>5
  <2>3. CASE bus_req[i].type = "RDX"
    <3>1. /\ tag' = [tag EXCEPT ![i][f] = req[i].line]
          /\ Commit(i, f, d) /\ rdata' = rdata /\ d \in LineData /\ req[i].write
      BY <1>1, <1>4, <2>3
    <3>2. /\ tag' \in [Masters -> [Frames -> Lines \union {NoData}]]
          /\ tag'[i][f] \in Lines
          /\ \A j \in Masters, g \in Frames :
                (j # i \/ g # f) => tag'[j][g] = tag[j][g]
      BY <1>1, <1>2, <2>1, <3>1
    <3>. QED
      BY <1>1, <1>2, <2>1, <3>1, <3>2, CommitType
  <2>4. CASE bus_req[i].type = "UPGR"
    <3>1. /\ Commit(i, f, data[i][f]) /\ rdata' = rdata /\ tag' = tag
          /\ req[i].write /\ tag[i][f] \in Lines
      BY <1>1, <1>4, <2>4 DEF f
    <3>. QED
      BY <1>1, <1>2, <1>5, <2>1, <2>4, <3>1, CommitType
  <2>. QED
    BY <1>4, <2>2, <2>3, <2>4
<1>7. L1TypeOK'
  <2>1. 0 \in Ways
    BY GeometryAssumption DEF Ways
  <2>. QED
    BY <1>3, <1>6, <2>1 DEF TypeInv, TypeOK, L1TypeOK, L1States
<1>8. FramesFit'
  BY <1>2, <1>6, SMTT(30) DEF TypeInv, FramesFit
<1>9. RequestsFit'
  <2>. SUFFICES ASSUME NEW j \in Masters PROVE RequestFits(j)'
    BY DEF RequestsFit
  <2>1. CASE j = i
    BY <1>3, <2>1 DEF TypeInv, TypeOK, L1TypeOK, RequestFits
  <2>2. CASE j # i
    <3>1. /\ state'[j] = state[j] /\ req'[j] = req[j] /\ bus_req'[j] = bus_req[j]
          /\ victim'[j] = victim[j] /\ fl_pos'[j] = fl_pos[j]
      BY <1>3, <2>2 DEF TypeInv, TypeOK, L1TypeOK
    <3>2. VictimFrame(j)' = VictimFrame(j)
      BY <3>1 DEF VictimFrame, ReqIndex
    <3>3. state[j] \in {"REQ", "FILL"} => VictimFrame(j) \in Frames
      BY IndexAssumption DEF VictimFrame, ReqIndex, Frames, TypeInv, TypeOK, L1TypeOK,
         RequestsFit, RequestFits, CoreReqs, CoreReads, CoreWrites
    <3>. QED
      BY <1>6, <2>2, <3>1, <3>2, <3>3 DEF TypeInv, RequestsFit, RequestFits
  <2>. QED
    BY <2>1, <2>2
<1>10. \A j \in Masters : j # i => state'[j] = state[j] /\ bus_req'[j] = bus_req[j]
  BY <1>3 DEF TypeInv, TypeOK, L1TypeOK
<1>. QED
  BY <1>6, <1>7, <1>8, <1>9, <1>10

LEMMA FastResponseType ==
    ASSUME TypeInv, FastResponse
    PROVE  TypeInv'
<1>1. /\ fstate = "FAST" /\ Fill(f_grant, dirty_data, dirty_acc) /\ ClearFront
      /\ UNCHANGED <<queue, estate, l2_accepted, e_rdata, l2_busy, l2, fctrl>>
  BY DEF FastResponse
<1>2. /\ f_grant \in Masters /\ state[f_grant] = "FILL"
      /\ bus_req[f_grant].type = cur.type /\ bus_req[f_grant].line = cur.line
      /\ cur.type # "UPGR" => dirty_data \in LineData
  BY <1>1 DEF TypeInv, TypeOK, BusTypeOK, FrontFits, ResponsesAreAwaited, SnoopTypes
<1>3. /\ L1TypeOK' /\ FramesFit' /\ RequestsFit'
      /\ latest' \in [Lines -> LineData]
      /\ \A j \in Masters : j # f_grant => /\ state'[j] = state[j]
                                           /\ bus_req'[j] = bus_req[j]
  BY <1>1, <1>2, FillType
<1>4. BusTypeOK'
  <2>1. cur' \in [type : SnoopTypes, line : Lines \union {NoData}] /\ f_grant' \in Masters
    BY <1>1, GeometryAssumption DEF ClearFront, NoCur, SnoopTypes, Masters
  <2>2. hit_acc' \in BOOLEAN /\ dirty_acc' \in BOOLEAN /\ dirty_data' = NoData /\ fstate' = "IDLE"
    BY <1>1 DEF ClearFront
  <2>3. UNCHANGED <<rr_ptr, snp_pending>>
    BY <1>1 DEF ClearFront
  <2>. QED
    BY <1>1, <1>3, <2>1, <2>2, <2>3, Zenon DEF TypeInv, TypeOK, BusTypeOK
<1>5. \A n \in 1 .. Len(queue) : /\ queue[n].master \in Masters
                                 /\ queue[n].respond => queue[n].master # f_grant
  <2>1. \A n \in 1 .. Len(queue) : queue[n].master \in Masters /\ queue[n].line # cur.line
    BY <1>1, SlotFacts DEF TypeInv, TypeOK, BusTypeOK, OneTransactionPerLine, QueuedLines
  <2>. QED
    BY <1>2, <2>1 DEF TypeInv, ResponsesAreAwaited
<1>6. OneTransactionPerLine'
  BY <1>1 DEF TypeInv, OneTransactionPerLine, ClearFront
<1>7. ResponsesAreAwaited'
  BY <1>1, <1>3, <1>5 DEF TypeInv, ResponsesAreAwaited, ClearFront
<1>8. FrontFits'
  BY <1>1 DEF TypeInv, FrontFits, ClearFront
<1>9. EngineFits'
  BY <1>1, <1>3, <1>5 DEF TypeInv, EngineFits, Head0
<1>. QED
  BY <1>3, <1>4, <1>6, <1>7, <1>8, <1>9 DEF TypeInv, TypeOK

\* The engine moves on the head of the queue and touches no cache.
LEMMA EngineStepType ==
    ASSUME TypeInv,
           EngineStart \/ L2Accept \/ L2Write \/ L2Read \/ (EngineWriteDone /\ Head0.respond)
    PROVE  TypeInv'
<1>1. UNCHANGED <<l1vars, frontvars, queue, fctrl, latest>>
  BY Zenon DEF EngineStart, L2Accept, L2Write, L2Read, EngineWriteDone
<1>2. queue # <<>> => 1 \in 1 .. Len(queue) /\ Head0 \in QEntries /\ Head0.line \in Lines
  BY SlotFacts, PopFacts DEF TypeInv, TypeOK, BusTypeOK, Head0
<1>3. /\ estate \in {"IDLE", "WR", "RD", "RESP"}
      /\ e_rdata \in LineData \union {NoData} /\ l2 \in [Lines -> LineData]
      /\ l2_accepted \in BOOLEAN /\ l2_busy \in BOOLEAN
  BY DEF TypeInv, TypeOK, BusTypeOK
<1>4. /\ estate' \in {"IDLE", "WR", "RD", "RESP"}
      /\ e_rdata' \in LineData \union {NoData} /\ l2' \in [Lines -> LineData]
      /\ l2_accepted' \in BOOLEAN /\ l2_busy' \in BOOLEAN
      /\ estate' # "IDLE" => queue # <<>>
      /\ estate' = "WR" => Head0.wr
      /\ estate' = "RD" => ~Head0.wr
      /\ estate' = "RESP" => Head0.respond /\ e_rdata' \in LineData
  <2>1. CASE EngineStart
    BY <1>1, <1>2, <1>3, <2>1 DEF EngineStart
  <2>2. CASE L2Accept
    BY <1>3, <2>2 DEF L2Accept, TypeInv, EngineFits
  <2>3. CASE L2Write
    <3>1. Head0.wr /\ Head0.wdata \in LineData /\ Head0.line \in Lines
      BY <1>2, <2>3 DEF L2Write, TypeInv, EngineFits, Head0
    <3>. QED
      BY <1>3, <2>3, <3>1 DEF L2Write, TypeInv, EngineFits
  <2>4. CASE L2Read
    <3>1. Head0.respond /\ Head0.line \in Lines /\ queue # <<>>
      BY <1>2, <2>4 DEF L2Read, TypeInv, EngineFits, Head0
    <3>. QED
      BY <1>3, <2>4, <3>1 DEF L2Read
  <2>5. CASE EngineWriteDone /\ Head0.respond
    <3>1. Head0.wr /\ Head0.wdata \in LineData /\ queue # <<>>
      BY <1>2, <2>5 DEF EngineWriteDone, TypeInv, EngineFits, Head0
    <3>. QED
      BY <1>3, <2>5, <3>1 DEF EngineWriteDone
  <2>. QED
    BY <2>1, <2>2, <2>3, <2>4, <2>5
<1>5. TypeOK'
  <2>1. L1TypeOK'
    BY <1>1 DEF TypeInv, TypeOK, L1TypeOK
  <2>2. BusTypeOK'
    BY <1>1, <1>4, Zenon DEF TypeInv, TypeOK, BusTypeOK
  <2>. QED
    BY <2>1, <2>2 DEF TypeOK
<1>6. OneTransactionPerLine'
  BY <1>1 DEF TypeInv, OneTransactionPerLine, QueuedLines
<1>7. ResponsesAreAwaited'
  BY <1>1 DEF TypeInv, ResponsesAreAwaited
<1>8. FramesFit'
  BY <1>1 DEF TypeInv, FramesFit
<1>9. RequestsFit'
  BY <1>1 DEF TypeInv, RequestsFit, RequestFits, VictimFrame, ReqIndex
<1>10. FrontFits'
  BY <1>1 DEF TypeInv, FrontFits
<1>11. EngineFits'
  BY <1>1, <1>4 DEF TypeInv, EngineFits, Head0
<1>. QED
  BY <1>5, <1>6, <1>7, <1>8, <1>9, <1>10, <1>11 DEF TypeInv

LEMMA WritebackRetireType ==
    ASSUME TypeInv, EngineWriteDone, ~Head0.respond
    PROVE  TypeInv'
<1>1. /\ queue' = Tail(queue) /\ estate' = "IDLE" /\ estate = "WR"
      /\ l2_accepted' = FALSE
      /\ UNCHANGED <<l1vars, frontvars, e_rdata, l2vars, fctrl, latest>>
  BY Zenon DEF EngineWriteDone
<1>2. queue \in Seq(QEntries) /\ queue # <<>>
  BY <1>1 DEF TypeInv, TypeOK, BusTypeOK, EngineFits
<1>3. /\ queue' \in Seq(QEntries) /\ Len(queue') = Len(queue) - 1
      /\ \A k \in 1 .. Len(queue') : k + 1 \in 1 .. Len(queue) /\ queue'[k] = queue[k + 1]
      /\ Len(queue) \in Nat
  BY <1>1, <1>2, PopFacts
<1>4. TypeOK'
  <2>1. L1TypeOK'
    BY <1>1 DEF TypeInv, TypeOK, L1TypeOK
  <2>2. l2_accepted' \in BOOLEAN
    BY <1>1
  <2>3. BusTypeOK'
    BY <1>1, <1>3, <2>2, Zenon DEF TypeInv, TypeOK, BusTypeOK
  <2>. QED
    BY <2>1, <2>3 DEF TypeOK
<1>5. OneTransactionPerLine'
  BY <1>1, <1>3 DEF TypeInv, OneTransactionPerLine, QueuedLines
<1>6. ResponsesAreAwaited'
  BY <1>1, <1>3 DEF TypeInv, ResponsesAreAwaited
<1>7. FramesFit'
  BY <1>1 DEF TypeInv, FramesFit
<1>8. RequestsFit'
  BY <1>1 DEF TypeInv, RequestsFit, RequestFits, VictimFrame, ReqIndex
<1>9. FrontFits'
  BY <1>1 DEF TypeInv, FrontFits
<1>10. EngineFits'
  BY <1>1, <1>3 DEF TypeInv, EngineFits
<1>. QED
  BY <1>4, <1>5, <1>6, <1>7, <1>8, <1>9, <1>10 DEF TypeInv

LEMMA EngineRespType ==
    ASSUME TypeInv, EngineResp
    PROVE  TypeInv'
<1>. DEFINE m == Head0.master
<1>1. /\ estate = "RESP" /\ Fill(m, e_rdata, Head0.shared) /\ queue' = Tail(queue)
      /\ estate' = "IDLE" /\ e_rdata' = NoData
      /\ UNCHANGED <<frontvars, l2_accepted, l2vars, fctrl>>
  BY DEF EngineResp
<1>2. queue \in Seq(QEntries) /\ queue # <<>> /\ Head0.respond /\ e_rdata \in LineData
  BY <1>1 DEF TypeInv, TypeOK, BusTypeOK, EngineFits
<1>3. /\ queue' \in Seq(QEntries) /\ Len(queue') = Len(queue) - 1
      /\ \A k \in 1 .. Len(queue') : k + 1 \in 1 .. Len(queue) /\ queue'[k] = queue[k + 1]
      /\ Len(queue) \in Nat /\ 1 \in 1 .. Len(queue)
  BY <1>1, <1>2, PopFacts
<1>4. m \in Masters /\ state[m] = "FILL" /\ bus_req[m].line = Head0.line
  BY <1>2, <1>3, SlotFacts DEF TypeInv, ResponsesAreAwaited, Head0
<1>. HIDE DEF m
<1>5. /\ L1TypeOK' /\ FramesFit' /\ RequestsFit'
      /\ latest' \in [Lines -> LineData]
      /\ \A j \in Masters : j # m => /\ state'[j] = state[j]
                                     /\ bus_req'[j] = bus_req[j]
  BY <1>1, <1>2, <1>4, FillType
<1>6. BusTypeOK'
  BY <1>1, <1>3, <1>5, Zenon DEF TypeInv, TypeOK, BusTypeOK
<1>7. \A k \in 1 .. Len(queue') : /\ queue'[k].master \in Masters
                                  /\ queue'[k].respond => queue'[k].master # m
  <2>1. \A k \in 1 .. Len(queue') : queue'[k].line # Head0.line
    BY <1>3 DEF TypeInv, OneTransactionPerLine, Head0
  <2>2. \A k \in 1 .. Len(queue') : queue'[k].master \in Masters
    BY <1>3, SlotFacts
  <2>3. \A k \in 1 .. Len(queue') :
           queue'[k].respond => bus_req[queue'[k].master].line = queue'[k].line
    BY <1>3 DEF TypeInv, ResponsesAreAwaited
  <2>. QED
    BY <1>4, <2>1, <2>2, <2>3
<1>8. fstate # "IDLE" => f_grant # m
  <2>1. fstate # "IDLE" => cur.line # Head0.line
    BY <1>3 DEF TypeInv, OneTransactionPerLine, QueuedLines, Head0
  <2>. QED
    BY <1>4, <2>1 DEF TypeInv, ResponsesAreAwaited
<1>9. OneTransactionPerLine'
  BY <1>1, <1>3 DEF TypeInv, OneTransactionPerLine, QueuedLines
<1>10. ResponsesAreAwaited'
  <2>1. f_grant \in Masters
    BY DEF TypeInv, TypeOK, BusTypeOK
  <2>. QED
    BY <1>1, <1>3, <1>5, <1>7, <1>8, <2>1 DEF TypeInv, ResponsesAreAwaited
<1>11. FrontFits'
  BY <1>1 DEF TypeInv, FrontFits
<1>12. EngineFits'
  BY <1>1, <1>3, <1>5, <1>7 DEF TypeInv, EngineFits
<1>. QED
  BY <1>5, <1>6, <1>9, <1>10, <1>11, <1>12 DEF TypeInv, TypeOK

LEMMA StutterType ==
    ASSUME TypeInv, UNCHANGED vars
    PROVE  TypeInv'
<1>. USE DEF vars, TypeInv
<1>1. TypeOK'
  <2>1. L1TypeOK'
    BY DEF TypeOK, L1TypeOK
  <2>2. BusTypeOK'
    BY DEF TypeOK, BusTypeOK
  <2>. QED
    BY <2>1, <2>2 DEF TypeOK
<1>2. OneTransactionPerLine' /\ ResponsesAreAwaited'
  BY DEF OneTransactionPerLine, QueuedLines, ResponsesAreAwaited
<1>3. FramesFit' /\ RequestsFit'
  BY DEF FramesFit, RequestsFit, RequestFits, VictimFrame, ReqIndex
<1>4. FrontFits' /\ EngineFits'
  BY DEF FrontFits, EngineFits, Head0
<1>. QED
  BY <1>1, <1>2, <1>3, <1>4

LEMMA NextType ==
    ASSUME TypeInv, [Next]_vars
    PROVE  TypeInv'
<1>1. CASE \E i \in Masters : CoreRequest(i)
  BY <1>1, CoreRequestType
<1>2. CASE \E i \in Masters : Lookup(i)
  BY <1>2, LookupReadHitType, LookupWriteHitType, LookupUpgradeType,
     LookupMissDirtyType, LookupMissCleanType DEF Lookup
<1>3. CASE \E i \in Masters : FlushWalk(i)
  BY <1>3, FlushStartType, FlushDropType, FlushWritebackType, FlushDoneType
     DEF FlushWalk
<1>4. CASE \E i \in Masters : GrantWB(i) \/ GrantSnoop(i) \/ SnoopAnswer(i)
  BY <1>4, GrantWBType, GrantSnoopType, SnoopAnswerType
<1>5. CASE Decide \/ FastResponse
  BY <1>5, DecideFastType, DecideQueueType, FastResponseType DEF Decide
<1>6. CASE Engine \/ L2Port
  BY <1>6, EngineStepType, WritebackRetireType, EngineRespType DEF Engine, L2Port
<1>7. CASE Fence
  BY <1>7, FenceType
<1>8. CASE UNCHANGED vars
  BY <1>8, StutterType
<1>. QED
  BY <1>1, <1>2, <1>3, <1>4, <1>5, <1>6, <1>7, <1>8 DEF Next

\* Whatever the caches and the bus do, the registers keep their widths and
\* their meaning.
THEOREM TypeInvariant == Spec => []TypeInv
<1>1. Init => TypeInv
  BY InitType
<1>2. TypeInv /\ [Next]_vars => TypeInv'
  BY NextType
<1>. QED
  BY <1>1, <1>2, PTL DEF Spec

\* The type invariant of CoherentBus.
THEOREM TypeCorrect == Spec => []TypeOK
<1>1. TypeInv => TypeOK
  BY DEF TypeInv
<1>. QED
  BY <1>1, TypeInvariant, PTL

\* Per-line serialisation of the split-transaction bus: whatever is granted,
\* snooped, queued or retired, no two transactions in flight are on one line.
THEOREM SerialisedPerLine == Spec => []OneTransactionPerLine
<1>1. TypeInv => OneTransactionPerLine
  BY DEF TypeInv
<1>. QED
  BY <1>1, TypeInvariant, PTL

\* No response pulse of the crossbar can be lost: the cache it is for waits for
\* it in S_FILL.
THEOREM NoLostResponse == Spec => []ResponsesAreAwaited
<1>1. TypeInv => ResponsesAreAwaited
  BY DEF TypeInv
<1>. QED
  BY <1>1, TypeInvariant, PTL

-----------------------------------------------------------------------------
(* MESI exclusivity: CoherenceInv is inductive relative to TypeInv, for    *)
(* any number of caches, sets, ways and lines.                             *)

\* No cache gains a copy, and none gains the right to write one.
NoNewRights ==
    /\ tag' = tag
    /\ \A j \in Masters, f \in Frames :
          /\ mesi'[j][f] # "I" => mesi[j][f] # "I"
          /\ mesi'[j][f] \in {"M", "E"} => mesi[j][f] \in {"M", "E"}

\* What a step that gives no cache new rights preserves.
LEMMA NoNewRightsFacts ==
    ASSUME IInv, TypeInv', NoNewRights
    PROVE  /\ CopiesInTheirSet' /\ OneFramePerLine' /\ SingleOwner'
<1>1. CopiesInTheirSet'
  BY DEF NoNewRights, IInv, CoherenceInv, CopiesInTheirSet
<1>2. OneFramePerLine'
  BY DEF NoNewRights, IInv, CoherenceInv, OneFramePerLine
<1>3. SingleOwner'
  BY DEF NoNewRights, IInv, CoherenceInv, SingleOwner
<1>. QED
  BY <1>1, <1>2, <1>3

\* A search of the one set the line maps to that finds nothing means the cache
\* lacks the line.
LEMMA MissLacks ==
    ASSUME IInv, NEW i \in Masters, NEW l \in Lines, Hits(i, l) = {}
    PROVE  Lacks(i, l)
<1>. SUFFICES ASSUME NEW f \in Frames, mesi[i][f] # "I", tag[i][f] = l
              PROVE  FALSE
  BY DEF Lacks
<1>1. IndexOf[l] = f[1] /\ f[2] \in Ways /\ f = <<f[1], f[2]>>
  BY DEF IInv, CoherenceInv, CopiesInTheirSet, Frames
<1>2. f[2] \in Hits(i, l)
  BY <1>1 DEF Hits
<1>. QED
  BY <1>2

\* A step that gives no cache new rights takes nothing away from what the snoop
\* answers promise,
LEMMA SnoopedStaysFacts ==
    ASSUME IInv, TypeInv', NoNewRights,
           UNCHANGED <<fstate, f_grant, cur, snp_pending, hit_acc, dirty_acc>>
    PROVE  AnsweredSnoops'
<1>1. /\ fstate' = fstate /\ f_grant' = f_grant /\ snp_pending' = snp_pending
      /\ cur' = cur /\ hit_acc' = hit_acc /\ dirty_acc' = dirty_acc
  OBVIOUS
<1>2. \A j \in Masters, f \in Frames : mesi'[j][f] \in Mesi /\ mesi[j][f] \in Mesi
  BY DEF IInv, TypeInv, TypeOK, L1TypeOK
<1>3. AnsweredSnoops
  BY DEF IInv, CoherenceInv
<1>. QED
  BY <1>1, <1>2, <1>3 DEF NoNewRights, AnsweredSnoops, LeftBehind, Mesi

\* and if no cache owed an answer changes its request, from what the queue does.
LEMMA QueuedStaysFacts ==
    ASSUME IInv, TypeInv', NoNewRights, queue' = queue,
           \A j \in Masters : state[j] = "FILL" => bus_req'[j] = bus_req[j]
    PROVE  QueuedAnswers'
<1>1. \A k \in 1 .. Len(queue) : queue[k].respond =>
         /\ queue[k].master \in Masters
         /\ bus_req'[queue[k].master] = bus_req[queue[k].master]
  BY SlotFacts DEF IInv, TypeInv, TypeOK, BusTypeOK, ResponsesAreAwaited
<1>2. \A j \in Masters, f \in Frames : mesi'[j][f] \in Mesi /\ mesi[j][f] \in Mesi
  BY DEF IInv, TypeInv, TypeOK, L1TypeOK
<1>3. QueuedAnswers
  BY DEF IInv, CoherenceInv
<1>. QED
  BY <1>1, <1>2, <1>3 DEF NoNewRights, QueuedAnswers, LeftBehind, Mesi

\* The requests of the caches a step does not touch still fit their copies.
LEMMA OthersKeepRequests ==
    ASSUME IInv, NEW i \in Masters,
           \A j \in Masters : j # i => /\ state'[j] = state[j] /\ req'[j] = req[j]
                                       /\ bus_req'[j] = bus_req[j] /\ victim'[j] = victim[j]
                                       /\ mesi'[j] = mesi[j] /\ tag'[j] = tag[j],
           RequestFitsCopies(i)'
    PROVE  RequestsFitCopies'
<1>. SUFFICES ASSUME NEW j \in Masters, j # i PROVE RequestFitsCopies(j)'
  BY DEF RequestsFitCopies
<1>1. RequestFitsCopies(j)
  BY DEF IInv, CoherenceInv, RequestsFitCopies
<1>2. VictimFrame(j)' = VictimFrame(j) /\ tag'[j] = tag[j] /\ mesi'[j] = mesi[j]
  BY DEF VictimFrame, ReqIndex
<1>. QED
  BY <1>1, <1>2 DEF RequestFitsCopies, Lacks

\* A step of cache i alone that gives no new rights and leaves the bus alone.
LEMMA LocalStep ==
    ASSUME IInv, TypeInv', NoNewRights, NEW i \in Masters,
           UNCHANGED <<frontvars, queue>>,
           \A j \in Masters : j # i => /\ state'[j] = state[j] /\ req'[j] = req[j]
                                       /\ bus_req'[j] = bus_req[j] /\ victim'[j] = victim[j]
                                       /\ mesi'[j] = mesi[j],
           state[i] # "FILL",
           RequestFitsCopies(i)'
    PROVE  CoherenceInv'
<1>1. RequestsFitCopies'
  BY OthersKeepRequests DEF NoNewRights
<1>2. AnsweredSnoops'
  BY SnoopedStaysFacts DEF frontvars
<1>3. QueuedAnswers'
  <2>1. queue' = queue /\ \A j \in Masters : state[j] = "FILL" => bus_req'[j] = bus_req[j]
    OBVIOUS
  <2>. QED
    BY <2>1, QueuedStaysFacts
<1>. QED
  BY <1>1, <1>2, <1>3, NoNewRightsFacts DEF CoherenceInv

LEMMA CoreRequestMesi ==
    ASSUME IInv, TypeInv', NEW i \in Masters, CoreRequest(i)
    PROVE  CoherenceInv'
<1>1. /\ state[i] = "IDLE" /\ state' = [state EXCEPT ![i] = "LOOKUP"]
      /\ \A j \in Masters : j # i => req'[j] = req[j]
      /\ UNCHANGED <<mesi, tag, bus_req, victim, frontvars, queue>>
  BY DEF CoreRequest, IInv, TypeInv, TypeOK, L1TypeOK, enginevars
<1>2. state \in [Masters -> L1States]
  BY DEF IInv, TypeInv, TypeOK, L1TypeOK
<1>3. NoNewRights
  BY <1>1 DEF NoNewRights
<1>4. RequestFitsCopies(i)'
  BY <1>1, <1>2 DEF RequestFitsCopies
<1>. QED
  BY <1>1, <1>2, <1>3, <1>4, LocalStep

LEMMA LookupReadHitMesi ==
    ASSUME IInv, TypeInv', NEW i \in Masters, LookupReadHit(i)
    PROVE  CoherenceInv'
<1>1. /\ state[i] = "LOOKUP" /\ state' = [state EXCEPT ![i] = "IDLE"]
      /\ \A j \in Masters : j # i => req'[j] = req[j]
      /\ UNCHANGED <<mesi, tag, bus_req, victim, frontvars, queue>>
  BY DEF LookupReadHit, IInv, TypeInv, TypeOK, L1TypeOK, enginevars
<1>2. state \in [Masters -> L1States]
  BY DEF IInv, TypeInv, TypeOK, L1TypeOK
<1>3. NoNewRights
  BY <1>1 DEF NoNewRights
<1>4. RequestFitsCopies(i)'
  BY <1>1, <1>2 DEF RequestFitsCopies
<1>. QED
  BY <1>1, <1>2, <1>3, <1>4, LocalStep

\* The silent upgrade from E to M is no new right: nobody else holds the line.
LEMMA LookupWriteHitMesi ==
    ASSUME IInv, TypeInv', NEW i \in Masters, LookupWriteHit(i)
    PROVE  CoherenceInv'
<1>. DEFINE f == HitFrame(i, req[i].line)
<1>1. /\ state[i] = "LOOKUP" /\ state' = [state EXCEPT ![i] = "IDLE"]
      /\ mesi[i][f] \in {"M", "E"} /\ mesi' = [mesi EXCEPT ![i][f] = "M"]
      /\ \A j \in Masters : j # i => req'[j] = req[j]
      /\ UNCHANGED <<tag, bus_req, victim, frontvars, queue>>
  BY DEF LookupWriteHit, Commit, IInv, TypeInv, TypeOK, L1TypeOK, enginevars
<1>2. /\ state \in [Masters -> L1States]
      /\ mesi \in [Masters -> [Frames -> Mesi]]
  BY DEF IInv, TypeInv, TypeOK, L1TypeOK
<1>. HIDE DEF f
<1>3. NoNewRights
  BY <1>1, <1>2 DEF NoNewRights
<1>4. RequestFitsCopies(i)'
  BY <1>1, <1>2 DEF RequestFitsCopies
<1>. QED
  BY <1>1, <1>2, <1>3, <1>4, LocalStep

LEMMA LookupUpgradeMesi ==
    ASSUME IInv, TypeInv', NEW i \in Masters, LookupUpgrade(i)
    PROVE  CoherenceInv'
<1>. DEFINE f == HitFrame(i, req[i].line)
<1>1. /\ state[i] = "LOOKUP" /\ state' = [state EXCEPT ![i] = "REQ"]
      /\ Hits(i, req[i].line) # {} /\ mesi[i][f] = "S"
      /\ victim' = [victim EXCEPT ![i] = HitWay(i, req[i].line)]
      /\ bus_req' = [bus_req EXCEPT ![i] =
                       [type |-> "UPGR", line |-> req[i].line, wdata |-> NoData]]
      /\ UNCHANGED <<mesi, tag, req, frontvars, queue>>
  BY DEF LookupUpgrade, enginevars
<1>2. /\ state \in [Masters -> L1States] /\ victim \in [Masters -> Ways]
      /\ DOMAIN bus_req = Masters
      /\ req[i].line \in Lines
  BY <1>1 DEF IInv, TypeInv, TypeOK, L1TypeOK, RequestsFit, RequestFits, CoreReqs,
              CoreReads, CoreWrites
<1>3. NoNewRights
  BY <1>1 DEF NoNewRights
<1>4. RequestFitsCopies(i)'
  <2>1. /\ f = <<IndexOf[req[i].line], HitWay(i, req[i].line)>>
        /\ tag[i][f] = req[i].line
    BY <1>1, <1>2, HitFrameHolds
  <2>2. VictimFrame(i)' = f
    BY <1>1, <1>2, <2>1 DEF VictimFrame, ReqIndex
  <2>. QED
    BY <1>1, <1>2, <2>1, <2>2 DEF RequestFitsCopies
<1>. QED
  BY <1>1, <1>2, <1>3, <1>4, LocalStep

LEMMA LookupMissDirtyMesi ==
    ASSUME IInv, TypeInv', NEW i \in Masters, LookupMissDirty(i)
    PROVE  CoherenceInv'
<1>1. /\ state[i] = "LOOKUP" /\ state' = [state EXCEPT ![i] = "EVICT"]
      /\ Hits(i, req[i].line) = {}
      /\ \A j \in Masters : j # i => victim'[j] = victim[j] /\ bus_req'[j] = bus_req[j]
      /\ UNCHANGED <<mesi, tag, req, frontvars, queue>>
  BY DEF LookupMissDirty, Allocate, enginevars, IInv, TypeInv, TypeOK, L1TypeOK
<1>2. /\ state \in [Masters -> L1States] /\ req[i].line \in Lines
  BY <1>1 DEF IInv, TypeInv, TypeOK, L1TypeOK, RequestsFit, RequestFits, CoreReqs,
              CoreReads, CoreWrites
<1>3. NoNewRights
  BY <1>1 DEF NoNewRights
<1>4. RequestFitsCopies(i)'
  <2>1. Lacks(i, req[i].line)
    BY <1>1, <1>2, MissLacks
  <2>. QED
    BY <1>1, <1>2, <2>1 DEF RequestFitsCopies, Lacks
<1>. QED
  BY <1>1, <1>2, <1>3, <1>4, LocalStep

LEMMA LookupMissCleanMesi ==
    ASSUME IInv, TypeInv', NEW i \in Masters, LookupMissClean(i)
    PROVE  CoherenceInv'
<1>. DEFINE v == <<ReqIndex(i), victim_way(i, ReqIndex(i))>>
<1>1. /\ state[i] = "LOOKUP" /\ state' = [state EXCEPT ![i] = "REQ"]
      /\ Hits(i, req[i].line) = {}
      /\ mesi' = [mesi EXCEPT ![i][v] = "I"]
      /\ bus_req' = [bus_req EXCEPT ![i] = FetchReq(i)]
      /\ \A j \in Masters : j # i => victim'[j] = victim[j]
      /\ UNCHANGED <<tag, req, frontvars, queue>>
  BY DEF LookupMissClean, Allocate, enginevars, IInv, TypeInv, TypeOK, L1TypeOK
<1>2. /\ state \in [Masters -> L1States] /\ req[i].line \in Lines
      /\ mesi \in [Masters -> [Frames -> Mesi]] /\ DOMAIN bus_req = Masters
      /\ FetchReq(i).type # "UPGR"
  BY <1>1, FetchReqType DEF IInv, TypeInv, TypeOK, L1TypeOK, RequestsFit, RequestFits,
              CoreReqs, CoreReads, CoreWrites
<1>. HIDE DEF v
<1>3. NoNewRights
  BY <1>1, <1>2 DEF NoNewRights
<1>4. RequestFitsCopies(i)'
  <2>1. Lacks(i, req[i].line)
    BY <1>1, <1>2, MissLacks
  <2>2. Lacks(i, req[i].line)'
    BY <1>1, <1>2, <1>3, <2>1 DEF Lacks, NoNewRights
  <2>. QED
    BY <1>1, <1>2, <2>2 DEF RequestFitsCopies
<1>. QED
  BY <1>1, <1>2, <1>3, <1>4, LocalStep

LEMMA FlushStartMesi ==
    ASSUME IInv, TypeInv', NEW i \in Masters, FlushStart(i)
    PROVE  CoherenceInv'
<1>1. /\ state[i] = "IDLE" /\ state' = [state EXCEPT ![i] = "FLUSH"]
      /\ \A j \in Masters : j # i => bus_req'[j] = bus_req[j]
      /\ UNCHANGED <<mesi, tag, req, victim, frontvars, queue>>
  BY DEF FlushStart, IInv, TypeInv, TypeOK, L1TypeOK, enginevars
<1>2. state \in [Masters -> L1States]
  BY DEF IInv, TypeInv, TypeOK, L1TypeOK
<1>3. NoNewRights
  BY <1>1 DEF NoNewRights
<1>4. RequestFitsCopies(i)'
  BY <1>1, <1>2 DEF RequestFitsCopies
<1>. QED
  BY <1>1, <1>2, <1>3, <1>4, LocalStep

LEMMA FlushDropMesi ==
    ASSUME IInv, TypeInv', NEW i \in Masters, FlushDrop(i)
    PROVE  CoherenceInv'
<1>1. /\ state[i] = "FLUSH" /\ mesi' = [mesi EXCEPT ![i][fl_pos[i]] = "I"]
      /\ UNCHANGED <<state, tag, req, victim, bus_req, frontvars, queue>>
  BY DEF FlushDrop, enginevars
<1>2. mesi \in [Masters -> [Frames -> Mesi]]
  BY DEF IInv, TypeInv, TypeOK, L1TypeOK
<1>3. NoNewRights
  BY <1>1, <1>2 DEF NoNewRights
<1>4. RequestFitsCopies(i)'
  BY <1>1 DEF RequestFitsCopies
<1>. QED
  BY <1>1, <1>2, <1>3, <1>4, LocalStep

LEMMA FlushWritebackMesi ==
    ASSUME IInv, TypeInv', NEW i \in Masters, FlushWriteback(i)
    PROVE  CoherenceInv'
<1>1. /\ state[i] = "FLUSH" /\ state' = [state EXCEPT ![i] = "FLUSH_WB"]
      /\ \A j \in Masters : j # i => bus_req'[j] = bus_req[j]
      /\ UNCHANGED <<mesi, tag, req, victim, frontvars, queue>>
  BY DEF FlushWriteback, IInv, TypeInv, TypeOK, L1TypeOK, enginevars
<1>2. state \in [Masters -> L1States]
  BY DEF IInv, TypeInv, TypeOK, L1TypeOK
<1>3. NoNewRights
  BY <1>1 DEF NoNewRights
<1>4. RequestFitsCopies(i)'
  BY <1>1, <1>2 DEF RequestFitsCopies
<1>. QED
  BY <1>1, <1>2, <1>3, <1>4, LocalStep

LEMMA FlushDoneMesi ==
    ASSUME IInv, TypeInv', NEW i \in Masters, FlushDone(i)
    PROVE  CoherenceInv'
<1>1. /\ state[i] = "FLUSH" /\ state' = [state EXCEPT ![i] = "IDLE"]
      /\ \A j \in Masters : j # i => bus_req'[j] = bus_req[j]
      /\ UNCHANGED <<mesi, tag, req, victim, frontvars, queue>>
  BY DEF FlushDone, IInv, TypeInv, TypeOK, L1TypeOK, enginevars
<1>2. state \in [Masters -> L1States]
  BY DEF IInv, TypeInv, TypeOK, L1TypeOK
<1>3. NoNewRights
  BY <1>1 DEF NoNewRights
<1>4. RequestFitsCopies(i)'
  BY <1>1, <1>2 DEF RequestFitsCopies
<1>. QED
  BY <1>1, <1>2, <1>3, <1>4, LocalStep

\* A step that touches no copy, no request, no answer and no transaction.
LEMMA StillMesi ==
    ASSUME IInv, TypeInv',
           UNCHANGED <<state, mesi, tag, req, victim, bus_req, frontvars, queue>>
    PROVE  CoherenceInv'
<1>1. NoNewRights
  BY DEF NoNewRights
<1>2. QueuedAnswers'
  BY <1>1, QueuedStaysFacts
<1>3. AnsweredSnoops'
  BY <1>1, SnoopedStaysFacts DEF frontvars
<1>4. RequestsFitCopies'
  BY DEF IInv, CoherenceInv, RequestsFitCopies, RequestFitsCopies, VictimFrame, ReqIndex,
         Lacks
<1>. QED
  BY <1>1, <1>2, <1>3, <1>4, NoNewRightsFacts DEF CoherenceInv

LEMMA FenceMesi ==
    ASSUME IInv, TypeInv', Fence
    PROVE  CoherenceInv'
<1>1. UNCHANGED <<state, mesi, tag, req, victim, bus_req, frontvars, queue>>
  BY DEF Fence, FenceStart, FenceDrain, FenceL2, FenceComplete, FenceRelease, l1vars,
         enginevars
<1>. QED
  BY <1>1, StillMesi

LEMMA L2PortMesi ==
    ASSUME IInv, TypeInv', L2Port
    PROVE  CoherenceInv'
<1>1. UNCHANGED <<state, mesi, tag, req, victim, bus_req, frontvars, queue>>
  BY DEF L2Port, L2Accept, L2Write, L2Read, l1vars, enginevars
<1>. QED
  BY <1>1, StillMesi

LEMMA EngineStartMesi ==
    ASSUME IInv, TypeInv', EngineStart
    PROVE  CoherenceInv'
<1>1. UNCHANGED <<state, mesi, tag, req, victim, bus_req, frontvars, queue>>
  BY DEF EngineStart, l1vars
<1>. QED
  BY <1>1, StillMesi

\* Retiring a transaction only shortens the queue.
LEMMA EngineWriteDoneMesi ==
    ASSUME IInv, TypeInv', EngineWriteDone
    PROVE  CoherenceInv'
<1>1. UNCHANGED <<state, mesi, tag, req, victim, bus_req, frontvars>>
  BY DEF EngineWriteDone, l1vars
<1>2. CASE queue' = queue
  BY <1>1, <1>2, StillMesi
<1>3. CASE queue' # queue
  <2>1. queue' = Tail(queue) /\ queue \in Seq(QEntries) /\ queue # <<>>
    BY <1>3 DEF EngineWriteDone, IInv, TypeInv, TypeOK, BusTypeOK, EngineFits
  <2>2. \A k \in 1 .. Len(queue') : k + 1 \in 1 .. Len(queue) /\ queue'[k] = queue[k + 1]
    BY <2>1, PopFacts
  <2>3. NoNewRights
    BY <1>1 DEF NoNewRights
  <2>4. QueuedAnswers
    BY DEF IInv, CoherenceInv
  <2>5. QueuedAnswers'
    BY <1>1, <2>2, <2>4 DEF QueuedAnswers, LeftBehind
  <2>6. AnsweredSnoops'
    BY <1>1, <2>3, SnoopedStaysFacts DEF frontvars
  <2>7. RequestsFitCopies'
    BY <1>1 DEF IInv, CoherenceInv, RequestsFitCopies, RequestFitsCopies, VictimFrame,
                ReqIndex, Lacks
  <2>. QED
    BY <2>3, <2>5, <2>6, <2>7, NoNewRightsFacts DEF CoherenceInv
<1>. QED
  BY <1>2, <1>3

\* The decision to answer at once changes nothing the snoop answers have said.
LEMMA DecideFastMesi ==
    ASSUME IInv, TypeInv', DecideFast
    PROVE  CoherenceInv'
<1>1. /\ fstate # "IDLE"
      /\ UNCHANGED <<state, mesi, tag, req, victim, bus_req, f_grant, cur, snp_pending,
                     hit_acc, dirty_acc, queue>>
  BY DEF DecideFast, Decided, l1vars, enginevars
<1>2. NoNewRights
  BY <1>1 DEF NoNewRights
<1>3. QueuedAnswers'
  BY <1>1, <1>2, QueuedStaysFacts
<1>4. AnsweredSnoops'
  BY <1>1 DEF IInv, CoherenceInv, AnsweredSnoops, LeftBehind
<1>5. RequestsFitCopies'
  BY <1>1 DEF IInv, CoherenceInv, RequestsFitCopies, RequestFitsCopies, VictimFrame,
              ReqIndex, Lacks
<1>. QED
  BY <1>2, <1>3, <1>4, <1>5, NoNewRightsFacts DEF CoherenceInv

\* A transaction joins the queue: its answer must fit what the snoop has left.
LEMMA PushMesi ==
    ASSUME IInv, TypeInv', NoNewRights, NEW e \in QEntries, queue' = Append(queue, e),
           \A j \in Masters : state[j] = "FILL" => bus_req'[j] = bus_req[j],
           e.respond => /\ e.shared => bus_req'[e.master].type = "RD"
                        /\ \A j \in Masters \ {e.master} :
                              LeftBehind(j, e.line, ~e.shared)
    PROVE  QueuedAnswers'
<1>1. queue \in Seq(QEntries)
  BY DEF IInv, TypeInv, TypeOK, BusTypeOK
<1>2. /\ Len(queue') = Len(queue) + 1 /\ queue'[Len(queue) + 1] = e
      /\ \A k \in 1 .. Len(queue) : queue'[k] = queue[k]
      /\ Len(queue) \in Nat
  BY <1>1, PushFacts
<1>3. \A k \in 1 .. Len(queue) : queue[k].respond =>
         /\ queue[k].master \in Masters
         /\ bus_req'[queue[k].master] = bus_req[queue[k].master]
  BY <1>1, SlotFacts DEF IInv, TypeInv, ResponsesAreAwaited
<1>4. \A j \in Masters, f \in Frames : mesi'[j][f] \in Mesi /\ mesi[j][f] \in Mesi
  BY DEF IInv, TypeInv, TypeOK, L1TypeOK
<1>5. QueuedAnswers
  BY DEF IInv, CoherenceInv
<1>. SUFFICES ASSUME NEW k \in 1 .. Len(queue'), queue'[k].respond
              PROVE  /\ queue'[k].shared => bus_req'[queue'[k].master].type = "RD"
                     /\ \A j \in Masters \ {queue'[k].master} :
                           LeftBehind(j, queue[k].line, ~queue[k].shared)'
  BY DEF QueuedAnswers
<1>6. CASE k \in 1 .. Len(queue)
  BY <1>2, <1>3, <1>4, <1>5, <1>6 DEF NoNewRights, QueuedAnswers, LeftBehind, Mesi
<1>7. CASE k = Len(queue) + 1
  BY <1>2, <1>4, <1>7 DEF NoNewRights, LeftBehind, Mesi
<1>. QED
  BY <1>2, <1>6, <1>7

LEMMA GrantWBMesi ==
    ASSUME IInv, TypeInv', NEW i \in Masters, GrantWB(i)
    PROVE  CoherenceInv'
<1>. DEFINE e == [master |-> i, wr |-> TRUE, respond |-> FALSE, shared |-> FALSE,
                  line |-> bus_req[i].line, wdata |-> bus_req[i].wdata]
<1>1. /\ queue' = Append(queue, e)
      /\ UNCHANGED <<tag, req, victim, fstate, f_grant, cur, snp_pending, hit_acc,
                     dirty_acc>>
  BY DEF GrantWB
<1>2. /\ state \in [Masters -> L1States] /\ mesi \in [Masters -> [Frames -> Mesi]]
      /\ DOMAIN bus_req = Masters /\ RequestFits(i) /\ RequestFitsCopies(i)
  BY DEF IInv, TypeInv, TypeOK, L1TypeOK, RequestsFit, CoherenceInv, RequestsFitCopies
<1>3. \/ /\ state[i] = "EVICT" /\ state' = [state EXCEPT ![i] = "REQ"]
         /\ bus_req' = [bus_req EXCEPT ![i] = FetchReq(i)]
         /\ mesi' = mesi
      \/ /\ state[i] = "FLUSH_WB" /\ state' = [state EXCEPT ![i] = "FLUSH"]
         /\ bus_req' = [bus_req EXCEPT ![i] = NoBusReq]
         /\ mesi' = [mesi EXCEPT ![i][fl_pos[i]] = "I"]
  BY DEF GrantWB
<1>4. e \in QEntries /\ e.respond = FALSE
  <2>1. bus_req[i].line \in Lines /\ bus_req[i].wdata \in LineData
    BY <1>2, <1>3 DEF RequestFits
  <2>. QED
    BY <2>1 DEF QEntries
<1>. HIDE DEF e
<1>5. NoNewRights
  BY <1>1, <1>2, <1>3 DEF NoNewRights
<1>6. \A j \in Masters : j # i => /\ state'[j] = state[j] /\ req'[j] = req[j]
                                  /\ bus_req'[j] = bus_req[j] /\ victim'[j] = victim[j]
                                  /\ mesi'[j] = mesi[j] /\ tag'[j] = tag[j]
  BY <1>1, <1>2, <1>3
<1>7. QueuedAnswers'
  <2>1. \A j \in Masters : state[j] = "FILL" => bus_req'[j] = bus_req[j]
    BY <1>3, <1>6
  <2>. QED
    BY <1>1, <1>4, <1>5, <2>1, PushMesi
<1>8. AnsweredSnoops'
  BY <1>1, <1>5, SnoopedStaysFacts
<1>9. RequestFitsCopies(i)'
  <2>1. CASE state[i] = "EVICT"
    <3>1. FetchReq(i).type # "UPGR" /\ Lacks(i, req[i].line)
      BY <1>2, <2>1 DEF RequestFitsCopies, FetchReq, FetchType
    <3>. QED
      BY <1>1, <1>2, <1>3, <2>1, <3>1 DEF RequestFitsCopies, Lacks
  <2>2. CASE state[i] = "FLUSH_WB"
    BY <1>2, <1>3, <2>2 DEF RequestFitsCopies
  <2>. QED
    BY <1>3, <2>1, <2>2
<1>10. RequestsFitCopies'
  BY <1>6, <1>9, OthersKeepRequests
<1>. QED
  BY <1>5, <1>7, <1>8, <1>10, NoNewRightsFacts DEF CoherenceInv

\* Nobody has answered yet, so nothing is promised.
LEMMA GrantSnoopMesi ==
    ASSUME IInv, TypeInv', NEW i \in Masters, GrantSnoop(i)
    PROVE  CoherenceInv'
<1>1. /\ bus_req[i].type \in SnoopTypes /\ Requesting(i)
      /\ f_grant' = i /\ snp_pending' = Masters \ {i}
      /\ state' = [state EXCEPT ![i] = "FILL"]
      /\ UNCHANGED <<mesi, tag, req, victim, bus_req, queue>>
  BY DEF GrantSnoop, ArbGrant, Grantable, enginevars
<1>2. state \in [Masters -> L1States] /\ RequestFits(i) /\ RequestFitsCopies(i)
  BY DEF IInv, TypeInv, TypeOK, L1TypeOK, RequestsFit, CoherenceInv, RequestsFitCopies
<1>3. state[i] = "REQ"
  BY <1>1, <1>2 DEF Requesting, RequestFits, SnoopTypes
<1>4. NoNewRights
  BY <1>1 DEF NoNewRights
<1>5. QueuedAnswers'
  BY <1>1, <1>4, QueuedStaysFacts
<1>6. AnsweredSnoops'
  BY <1>1 DEF AnsweredSnoops
<1>7. RequestFitsCopies(i)'
  BY <1>1, <1>2, <1>3 DEF RequestFitsCopies, Lacks, VictimFrame, ReqIndex
<1>8. RequestsFitCopies'
  BY <1>1, <1>2, <1>7, OthersKeepRequests
<1>. QED
  BY <1>4, <1>5, <1>6, <1>8, NoNewRightsFacts DEF CoherenceInv

\* The answers are in: the queued answer promises what they have found.
LEMMA DecideQueueMesi ==
    ASSUME IInv, TypeInv', DecideQueue
    PROVE  CoherenceInv'
<1>. DEFINE e == [master |-> f_grant, wr |-> dirty_acc, respond |-> TRUE,
                  shared |-> dirty_acc \/ (cur.type = "RD" /\ hit_acc),
                  line |-> cur.line,
                  wdata |-> IF dirty_acc THEN dirty_data ELSE NoData]
<1>1. /\ fstate = "SNOOP" /\ snp_pending = {} /\ queue' = Append(queue, e)
      /\ cur.type # "UPGR" /\ (dirty_acc => cur.type # "RDX")
      /\ fstate' = "IDLE"
      /\ UNCHANGED <<state, mesi, tag, req, victim, bus_req>>
  BY DEF DecideQueue, Decided, AnswersFast, ClearFront, l1vars
<1>2. /\ f_grant \in Masters /\ cur.type \in SnoopTypes /\ cur.line \in Lines
      /\ dirty_acc \in BOOLEAN /\ hit_acc \in BOOLEAN
      /\ (dirty_acc => dirty_data \in LineData)
      /\ bus_req[f_grant].type = cur.type
  BY <1>1 DEF IInv, TypeInv, TypeOK, BusTypeOK, FrontFits, ResponsesAreAwaited
<1>3. e \in QEntries
  <2>1. (dirty_acc \/ (cur.type = "RD" /\ hit_acc)) \in BOOLEAN
    OBVIOUS
  <2>2. (IF dirty_acc THEN dirty_data ELSE NoData) \in LineData \union {NoData}
    BY <1>2
  <2>. QED
    BY <1>2, <2>1, <2>2 DEF QEntries
<1>4. \A j \in Masters \ {f_grant} :
         LeftBehind(j, cur.line, cur.type # "RD" \/ ~(hit_acc \/ dirty_acc))
  BY <1>1 DEF IInv, CoherenceInv, AnsweredSnoops
<1>5. /\ e.shared => cur.type = "RD"
      /\ ~e.shared => (cur.type # "RD" \/ ~(hit_acc \/ dirty_acc))
  BY <1>1, <1>2 DEF SnoopTypes
<1>6. e.master = f_grant /\ e.line = cur.line
  OBVIOUS
<1>. HIDE DEF e
<1>7. NoNewRights
  BY <1>1 DEF NoNewRights
<1>8. QueuedAnswers'
  <2>1. \A j \in Masters \ {e.master} : LeftBehind(j, e.line, ~e.shared)
    BY <1>4, <1>5, <1>6 DEF LeftBehind
  <2>2. e.shared => bus_req'[e.master].type = "RD"
    BY <1>1, <1>2, <1>5, <1>6
  <2>. QED
    BY <1>1, <1>3, <1>7, <2>1, <2>2, PushMesi
<1>9. AnsweredSnoops'
  BY <1>1 DEF AnsweredSnoops
<1>10. RequestsFitCopies'
  BY <1>1 DEF IInv, CoherenceInv, RequestsFitCopies, RequestFitsCopies, VictimFrame,
              ReqIndex, Lacks
<1>. QED
  BY <1>7, <1>8, <1>9, <1>10, NoNewRightsFacts DEF CoherenceInv

\* A snoop takes rights away.  Race 1 leaves the cache without a copy to
\* upgrade, so it fetches; race 2 leaves it without a victim to write back.
LEMMA SnoopAnswerMesi ==
    ASSUME IInv, TypeInv', NEW k \in Masters, SnoopAnswer(k)
    PROVE  CoherenceInv'
<1>. DEFINE race1 == /\ state[k] = "REQ" /\ bus_req[k].type = "UPGR"
                     /\ cur.type # "RD" /\ bus_req[k].line = cur.line
            Kept == UNCHANGED <<bus_req, state>> /\ ~race1
            Refetch == /\ race1 /\ UNCHANGED state
                       /\ bus_req' = [bus_req EXCEPT ![k] = [@ EXCEPT !.type = "RDX"]]
            Cancel == /\ state[k] = "EVICT"
                      /\ bus_req' = [bus_req EXCEPT ![k] = FetchReq(k)]
                      /\ state' = [state EXCEPT ![k] = "REQ"]
            Missed == /\ Hits(k, cur.line) = {} /\ UNCHANGED <<mesi, bus_req, state>>
                      /\ hit_acc' = hit_acc /\ dirty_acc' = dirty_acc
            Found(f) == /\ mesi[k][f] # "I" /\ tag[k][f] = cur.line
                        /\ mesi' = [mesi EXCEPT ![k][f] = SnoopedState(cur.type)]
                        /\ hit_acc' = TRUE
                        /\ dirty_acc' = (dirty_acc \/ mesi[k][f] = "M")
                        /\ Kept \/ Refetch \/ Cancel
<1>1. TypeInv /\ SnoopAnswer(k)
  BY DEF IInv
<1>2. /\ fstate = "SNOOP" /\ k \in snp_pending /\ k # f_grant
      /\ state[k] \in {"IDLE", "EVICT", "REQ"}
      /\ cur.line \in Lines /\ snp_pending' = snp_pending \ {k}
      /\ UNCHANGED <<tag, req, victim, fstate, f_grant, cur, queue>>
  BY <1>1, SnoopAnswerFacts DEF enginevars
<1>3. Missed \/ \E f \in Frames : Found(f)
  <2>1. hit_acc \in BOOLEAN /\ dirty_acc \in BOOLEAN
    BY <1>1 DEF TypeInv, TypeOK, BusTypeOK
  <2>2. \/ /\ Hits(k, cur.line) = {}
           /\ UNCHANGED <<mesi, bus_req, state, dirty_data>>
           /\ hit_acc' = (hit_acc \/ FALSE) /\ dirty_acc' = (dirty_acc \/ FALSE)
        \/ \E f \in Frames :
              /\ mesi[k][f] # "I" /\ tag[k][f] = cur.line
              /\ mesi' = [mesi EXCEPT ![k][f] = SnoopedState(cur.type)]
              /\ hit_acc' = (hit_acc \/ TRUE)
              /\ dirty_acc' = (dirty_acc \/ mesi[k][f] = "M")
              /\ Kept \/ Refetch \/ Cancel
    BY <1>1, SnoopAnswerFacts, ZenonT(40)
  <2>. HIDE DEF Kept, Refetch, Cancel
  <2>3. hit_acc' = (hit_acc \/ TRUE) => hit_acc' = TRUE
    OBVIOUS
  <2>4. /\ hit_acc' = (hit_acc \/ FALSE) => hit_acc' = hit_acc
        /\ dirty_acc' = (dirty_acc \/ FALSE) => dirty_acc' = dirty_acc
    BY <2>1
  <2>. QED
    BY <2>2, <2>3, <2>4
<1>4. /\ state \in [Masters -> L1States] /\ mesi \in [Masters -> [Frames -> Mesi]]
      /\ bus_req \in [Masters -> BusReqs \union {NoBusReq}]
      /\ RequestFits(k) /\ RequestFitsCopies(k) /\ AnsweredSnoops
      /\ OneFramePerLine
  BY DEF IInv, TypeInv, TypeOK, L1TypeOK, RequestsFit, CoherenceInv, RequestsFitCopies
<1>5. SnoopedState(cur.type) \in {"S", "I"} /\ (cur.type # "RD" => SnoopedState(cur.type) = "I")
      /\ (cur.type = "RD" => SnoopedState(cur.type) = "S")
  BY DEF SnoopedState
<1>. DEFINE S == SnoopedState(cur.type)
<1>6. NoNewRights
  BY <1>2, <1>3, <1>4, <1>5 DEF NoNewRights
<1>7. \A j \in Masters : j # k => /\ state'[j] = state[j] /\ req'[j] = req[j]
                                  /\ bus_req'[j] = bus_req[j] /\ victim'[j] = victim[j]
                                  /\ mesi'[j] = mesi[j] /\ tag'[j] = tag[j]
  BY <1>2, <1>3, <1>4
<1>8. QueuedAnswers'
  <2>1. \A j \in Masters : state[j] = "FILL" => bus_req'[j] = bus_req[j]
    BY <1>2, <1>7
  <2>. QED
    BY <1>2, <1>6, <2>1, QueuedStaysFacts
<1>9. VictimFrame(k)' = VictimFrame(k)
  BY <1>2 DEF VictimFrame, ReqIndex
<1>10. RequestFitsCopies(k)'
  <2>1. CASE Missed
    BY <1>2, <1>4, <1>9, <2>1 DEF RequestFitsCopies, Lacks
  <2>2. ASSUME NEW f \in Frames, Found(f) PROVE RequestFitsCopies(k)'
    <3>1. CASE Kept
      <4>1. /\ mesi' = [mesi EXCEPT ![k][f] = S]
            /\ tag[k][f] = cur.line /\ state' = state /\ bus_req' = bus_req
        BY <2>2, <3>1
      <4>2. CASE state[k] = "REQ" /\ bus_req[k].type = "UPGR"
        <5>1. bus_req[k].line = req[k].line /\ tag[k][VictimFrame(k)] = req[k].line
              /\ mesi[k][VictimFrame(k)] = "S"
          BY <1>4, <4>2 DEF RequestFits, RequestFitsCopies
        <5>2. mesi'[k][VictimFrame(k)] = "S"
          BY <1>4, <1>5, <3>1, <4>1, <4>2, <5>1
        <5>. QED
          BY <1>2, <1>9, <4>1, <4>2, <5>1, <5>2 DEF RequestFitsCopies
      <4>3. CASE ~(state[k] = "REQ" /\ bus_req[k].type = "UPGR")
        BY <1>2, <1>4, <1>6, <4>1, <4>3 DEF RequestFitsCopies, Lacks, NoNewRights
      <4>. QED
        BY <4>2, <4>3
    <3>2. CASE Refetch
      <4>1. /\ state[k] = "REQ" /\ state' = state /\ cur.type # "RD"
            /\ bus_req[k].line = cur.line /\ bus_req[k].type = "UPGR"
            /\ mesi' = [mesi EXCEPT ![k][f] = S] /\ S = "I"
            /\ tag[k][f] = cur.line /\ mesi[k][f] # "I"
        BY <1>5, <2>2, <3>2
      <4>2. bus_req[k].line = req[k].line
        BY <1>4, <4>1 DEF RequestFits
      <4>3. \A g \in Frames : g # f /\ mesi[k][g] # "I" => tag[k][g] # cur.line
        BY <1>4, <4>1 DEF OneFramePerLine
      <4>4. Lacks(k, req[k].line)'
        BY <1>2, <1>4, <4>1, <4>2, <4>3 DEF Lacks
      <4>5. bus_req'[k].type = "RDX"
        <5>1. bus_req[k] \in BusReqs
          BY <1>4, <4>1 DEF NoBusReq
        <5>. QED
          BY <1>4, <3>2, <5>1 DEF BusReqs
      <4>. QED
        BY <4>1, <4>4, <4>5 DEF RequestFitsCopies
    <3>3. CASE Cancel
      <4>1. Lacks(k, req[k].line) /\ FetchReq(k).type # "UPGR"
        BY <1>4, <3>3 DEF RequestFitsCopies, FetchReq, FetchType
      <4>2. Lacks(k, req[k].line)'
        BY <1>2, <1>6, <4>1 DEF Lacks, NoNewRights
      <4>. QED
        BY <1>4, <3>3, <4>1, <4>2 DEF RequestFitsCopies
    <3>. QED
      BY <2>2, <3>1, <3>2, <3>3
  <2>. QED
    BY <1>3, <2>1, <2>2
<1>11. AnsweredSnoops'
  <2>. DEFINE c == cur.type # "RD" \/ ~(hit_acc \/ dirty_acc)
              c1 == cur.type # "RD" \/ ~(hit_acc' \/ dirty_acc')
  <2>1. ASSUME NEW j \in Masters, j # f_grant, j \notin snp_pending, NEW f \in Frames,
               mesi'[j][f] # "I", tag[j][f] = cur.line
        PROVE  ~c1 /\ mesi'[j][f] = "S"
    <3>1. j # k /\ mesi'[j] = mesi[j]
      BY <1>2, <1>7, <2>1
    <3>2. ~c /\ mesi[j][f] = "S"
      BY <1>2, <1>4, <2>1, <3>1 DEF AnsweredSnoops, LeftBehind
    <3>3. hit_acc \/ dirty_acc => hit_acc' \/ dirty_acc'
      BY <1>3
    <3>. QED
      BY <3>1, <3>2, <3>3
  <2>2. ASSUME NEW f \in Frames, mesi'[k][f] # "I", tag[k][f] = cur.line
        PROVE  ~c1 /\ mesi'[k][f] = "S"
    <3>1. mesi[k][f] # "I"
      BY <1>6, <2>2 DEF NoNewRights
    <3>2. PICK g \in Frames : Found(g)
      <4>1. ~Lacks(k, cur.line)
        BY <2>2, <3>1 DEF Lacks
      <4>2. Hits(k, cur.line) # {}
        BY <1>2, <4>1, MissLacks
      <4>. QED
        BY <1>3, <4>2
    <3>3. f = g
      BY <1>4, <2>2, <3>1, <3>2 DEF OneFramePerLine
    <3>4. mesi'[k][f] = S /\ hit_acc'
      BY <1>4, <3>2, <3>3
    <3>. QED
      BY <1>5, <2>2, <3>4
  <2>3. \A j \in Masters \ ({f_grant} \union snp_pending') : j = k \/ j \notin snp_pending
    BY <1>2
  <2>. QED
    BY <1>2, <2>1, <2>2, <2>3 DEF AnsweredSnoops, LeftBehind
<1>12. RequestsFitCopies'
  BY <1>7, <1>10, OthersKeepRequests
<1>. QED
  BY <1>6, <1>8, <1>11, <1>12, NoNewRightsFacts DEF CoherenceInv

\* What the fill of cache i does to copies and requests, given that the other
\* caches have kept only what its transaction leaves them.
LEMMA FillMesi ==
    ASSUME IInv, TypeInv', NEW i \in Masters, state[i] = "FILL", NEW d, NEW sh \in BOOLEAN,
           Fill(i, d, sh),
           bus_req[i].type = "RD" =>
              \A j \in Masters \ {i} : LeftBehind(j, bus_req[i].line, ~sh),
           bus_req[i].type # "RD" =>
              \A j \in Masters \ {i} : LeftBehind(j, bus_req[i].line, TRUE)
    PROVE  /\ CopiesInTheirSet' /\ OneFramePerLine' /\ SingleOwner' /\ RequestsFitCopies'
           /\ \A j \in Masters, g \in Frames :
                 \/ /\ tag'[j][g] = tag[j][g]
                    /\ mesi'[j][g] = mesi[j][g]
                 \/ /\ j = i
                    /\ tag'[j][g] = bus_req[i].line
           /\ \A j \in Masters : j # i => bus_req'[j] = bus_req[j]
<1>. DEFINE f == VictimFrame(i)
            l == bus_req[i].line
<1>1. /\ state \in [Masters -> L1States] /\ mesi \in [Masters -> [Frames -> Mesi]]
      /\ tag \in [Masters -> [Frames -> Lines \union {NoData}]]
      /\ req \in [Masters -> CoreReqs \union {NoReq}] /\ victim \in [Masters -> Ways]
      /\ DOMAIN bus_req = Masters
      /\ RequestFits(i) /\ RequestFitsCopies(i)
  BY DEF IInv, TypeInv, TypeOK, L1TypeOK, RequestsFit, CoherenceInv, RequestsFitCopies
<1>2. /\ bus_req[i].type \in SnoopTypes /\ req[i].line = l /\ l \in Lines
      /\ bus_req[i].type = "UPGR" => tag[i][f] = l
      /\ bus_req[i].type # "UPGR" => Lacks(i, l)
  BY <1>1 DEF RequestFits, RequestFitsCopies, CoreReqs, CoreReads, CoreWrites
<1>3. f \in Frames /\ f[1] = IndexOf[l]
  BY <1>1, <1>2, IndexAssumption DEF VictimFrame, ReqIndex, Frames
<1>4. /\ state' = [state EXCEPT ![i] = "IDLE"]
      /\ req' = [req EXCEPT ![i] = NoReq]
      /\ bus_req' = [bus_req EXCEPT ![i] = NoBusReq]
      /\ victim' = [victim EXCEPT ![i] = 0]
  BY DEF Fill
<1>. DEFINE n == IF bus_req[i].type = "RD" THEN (IF sh THEN "S" ELSE "E") ELSE "M"
<1>5. /\ n \in {"S", "E", "M"} /\ mesi' = [mesi EXCEPT ![i][f] = n]
      /\ tag' # tag => tag' = [tag EXCEPT ![i][f] = l]
      /\ tag' = tag => tag[i][f] = l
      /\ \A j \in Masters \ {i} : LeftBehind(j, l, n # "S")
  <2>1. CASE bus_req[i].type = "RD"
    <3>1. /\ mesi' = [mesi EXCEPT ![i][f] = n]
          /\ tag' = [tag EXCEPT ![i][f] = l]
      BY <1>2, <2>1 DEF Fill
    <3>2. tag'[i][f] = l
      BY <1>1, <1>3, <3>1
    <3>3. (n # "S") <=> ~sh
      BY <2>1
    <3>4. \A j \in Masters \ {i} : LeftBehind(j, l, n # "S")
      BY <2>1, <3>3 DEF LeftBehind
    <3>. QED
      BY <2>1, <3>1, <3>2, <3>4
  <2>2. CASE bus_req[i].type # "RD"
    <3>1. /\ mesi' = [mesi EXCEPT ![i][f] = n]
          /\ tag' = [tag EXCEPT ![i][f] = l] \/ (tag' = tag /\ tag[i][f] = l)
      BY <1>2, <2>2 DEF Fill, Commit
    <3>2. tag'[i][f] = l
      BY <1>1, <1>3, <3>1
    <3>3. n # "S"
      BY <2>2
    <3>4. \A j \in Masters \ {i} : LeftBehind(j, l, n # "S")
      BY <2>2, <3>3 DEF LeftBehind
    <3>. QED
      BY <2>2, <3>1, <3>2, <3>4
  <2>. QED
    BY <2>1, <2>2
<1>6. \A g \in Frames : g # f /\ mesi[i][g] # "I" => tag[i][g] # l
  <2>1. CASE bus_req[i].type = "UPGR"
    <3>1. tag[i][f] = l /\ mesi[i][f] # "I"
      BY <1>1, <1>2, <2>1 DEF RequestFitsCopies
    <3>. QED
      BY <1>3, <3>1 DEF IInv, CoherenceInv, OneFramePerLine
  <2>2. CASE bus_req[i].type # "UPGR"
    BY <1>2, <2>2 DEF Lacks
  <2>. QED
    BY <2>1, <2>2
<1>. HIDE DEF f, l, n
<1>7. /\ mesi'[i][f] = n /\ tag'[i][f] = l
      /\ \A j \in Masters, g \in Frames :
            j # i \/ g # f => mesi'[j][g] = mesi[j][g] /\ tag'[j][g] = tag[j][g]
      /\ \A j \in Masters : j # i => mesi'[j] = mesi[j] /\ tag'[j] = tag[j]
  BY <1>1, <1>3, <1>5
<1>8. CopiesInTheirSet'
  BY <1>3, <1>7 DEF IInv, CoherenceInv, CopiesInTheirSet
<1>9. OneFramePerLine'
  BY <1>6, <1>7 DEF IInv, CoherenceInv, OneFramePerLine
<1>10. SingleOwner'
  <2>1. \A j \in Masters, g \in Frames :
           j # i /\ mesi[j][g] # "I" /\ tag[j][g] = l => mesi[j][g] = "S" /\ n = "S"
    BY <1>5 DEF LeftBehind
  <2>. QED
    BY <1>5, <1>7, <2>1 DEF IInv, CoherenceInv, SingleOwner
<1>11. RequestsFitCopies'
  <2>1. RequestFitsCopies(i)'
    BY <1>1, <1>4 DEF RequestFitsCopies
  <2>2. \A j \in Masters : j # i => /\ state'[j] = state[j] /\ req'[j] = req[j]
                                    /\ bus_req'[j] = bus_req[j] /\ victim'[j] = victim[j]
                                    /\ mesi'[j] = mesi[j] /\ tag'[j] = tag[j]
    BY <1>1, <1>4, <1>7
  <2>. QED
    BY <2>1, <2>2, OthersKeepRequests
<1>12. \A j \in Masters : j # i => bus_req'[j] = bus_req[j]
  BY <1>4
<1>13. \A j \in Masters, g \in Frames :
         \/ /\ tag'[j][g] = tag[j][g]
            /\ mesi'[j][g] = mesi[j][g]
         \/ /\ j = i
            /\ tag'[j][g] = bus_req[i].line
  BY <1>7 DEF l
<1>. QED
  BY <1>8, <1>9, <1>10, <1>11, <1>12, <1>13

LEMMA FastResponseMesi ==
    ASSUME IInv, TypeInv', FastResponse
    PROVE  CoherenceInv'
<1>. DEFINE i == f_grant
<1>1. /\ fstate = "FAST" /\ Fill(i, dirty_data, dirty_acc) /\ fstate' = "IDLE"
      /\ queue' = queue
  BY DEF FastResponse, ClearFront, enginevars
<1>2. /\ i \in Masters /\ dirty_acc \in BOOLEAN /\ queue \in Seq(QEntries)
      /\ state[i] = "FILL" /\ bus_req[i].line = cur.line /\ bus_req[i].type = cur.type
      /\ cur.type # "RD" /\ snp_pending = {} /\ cur.line \notin QueuedLines
  BY <1>1 DEF IInv, TypeInv, TypeOK, BusTypeOK, ResponsesAreAwaited, FrontFits,
              OneTransactionPerLine
<1>3. \A j \in Masters \ {i} : LeftBehind(j, bus_req[i].line, TRUE)
  BY <1>1, <1>2 DEF IInv, CoherenceInv, AnsweredSnoops, LeftBehind
<1>. HIDE DEF i
<1>4. /\ CopiesInTheirSet' /\ OneFramePerLine' /\ SingleOwner' /\ RequestsFitCopies'
      /\ \A j \in Masters, g \in Frames :
            \/ /\ tag'[j][g] = tag[j][g]
               /\ mesi'[j][g] = mesi[j][g]
            \/ /\ j = i
               /\ tag'[j][g] = bus_req[i].line
      /\ \A j \in Masters : j # i => bus_req'[j] = bus_req[j]
  BY <1>1, <1>2, <1>3, FillMesi
<1>5. AnsweredSnoops'
  BY <1>1 DEF AnsweredSnoops
<1>6. QueuedAnswers'
  <2>1. \A k \in 1 .. Len(queue) : queue[k].line # cur.line
    BY <1>2 DEF QueuedLines
  <2>2. \A k \in 1 .. Len(queue) : queue[k].respond =>
           queue[k].master \in Masters /\ queue[k].master # i
    BY <1>2, <2>1, SlotFacts DEF IInv, TypeInv, ResponsesAreAwaited
  <2>3. QueuedAnswers
    BY DEF IInv, CoherenceInv
  <2>. QED
    BY <1>1, <1>2, <1>4, <2>1, <2>2, <2>3 DEF QueuedAnswers, LeftBehind
<1>. QED
  BY <1>4, <1>5, <1>6 DEF CoherenceInv

LEMMA EngineRespMesi ==
    ASSUME IInv, TypeInv', EngineResp
    PROVE  CoherenceInv'
<1>. DEFINE i == Head0.master
<1>1. /\ estate = "RESP" /\ Fill(i, e_rdata, Head0.shared) /\ queue' = Tail(queue)
      /\ UNCHANGED <<fstate, f_grant, cur, snp_pending, hit_acc, dirty_acc>>
  BY DEF EngineResp, frontvars
<1>2. queue \in Seq(QEntries) /\ queue # <<>> /\ Head0.respond
  BY <1>1 DEF IInv, TypeInv, TypeOK, BusTypeOK, EngineFits
<1>3. /\ \A k \in 1 .. Len(queue') : k + 1 \in 1 .. Len(queue) /\ queue'[k] = queue[k + 1]
      /\ 1 \in 1 .. Len(queue) /\ Head0 = queue[1] /\ Head0 \in QEntries
  BY <1>1, <1>2, PopFacts DEF Head0
<1>4. /\ i \in Masters /\ Head0.shared \in BOOLEAN
      /\ state[i] = "FILL" /\ bus_req[i].line = Head0.line
  BY <1>2, <1>3 DEF IInv, TypeInv, ResponsesAreAwaited, QEntries
<1>5. /\ Head0.shared => bus_req[i].type = "RD"
      /\ \A j \in Masters \ {i} : LeftBehind(j, bus_req[i].line, ~Head0.shared)
  BY <1>2, <1>3, <1>4 DEF IInv, CoherenceInv, QueuedAnswers
<1>6. bus_req[i].type # "RD" =>
         \A j \in Masters \ {i} : LeftBehind(j, bus_req[i].line, TRUE)
  BY <1>5 DEF LeftBehind
<1>. HIDE DEF i
<1>7. /\ CopiesInTheirSet' /\ OneFramePerLine' /\ SingleOwner' /\ RequestsFitCopies'
      /\ \A j \in Masters, g \in Frames :
            \/ /\ tag'[j][g] = tag[j][g]
               /\ mesi'[j][g] = mesi[j][g]
            \/ /\ j = i
               /\ tag'[j][g] = bus_req[i].line
      /\ \A j \in Masters : j # i => bus_req'[j] = bus_req[j]
  BY <1>1, <1>4, <1>5, <1>6, FillMesi
<1>8. AnsweredSnoops'
  <2>1. fstate # "IDLE" => cur.line # bus_req[i].line
    BY <1>3, <1>4 DEF IInv, TypeInv, OneTransactionPerLine, QueuedLines
  <2>2. AnsweredSnoops
    BY DEF IInv, CoherenceInv
  <2>. QED
    BY <1>1, <1>7, <2>1, <2>2 DEF AnsweredSnoops, LeftBehind
<1>9. QueuedAnswers'
  <2>1. \A k \in 1 .. Len(queue') : queue'[k].line # bus_req[i].line
    BY <1>3, <1>4 DEF IInv, TypeInv, OneTransactionPerLine
  <2>2. \A k \in 1 .. Len(queue') : queue'[k].respond =>
           queue'[k].master \in Masters /\ queue'[k].master # i
    BY <1>2, <1>3, <2>1, SlotFacts DEF IInv, TypeInv, ResponsesAreAwaited
  <2>3. QueuedAnswers
    BY DEF IInv, CoherenceInv
  <2>4. ASSUME NEW k \in 1 .. Len(queue'), queue'[k].respond
        PROVE  /\ queue'[k].shared => bus_req'[queue'[k].master].type = "RD"
               /\ \A j \in Masters \ {queue'[k].master}, f \in Frames :
                     mesi'[j][f] # "I" /\ tag'[j][f] = queue'[k].line =>
                        queue'[k].shared /\ mesi'[j][f] = "S"
    <3>1. k + 1 \in 1 .. Len(queue) /\ queue'[k] = queue[k + 1]
      BY <1>3
    <3>2. /\ queue'[k].shared => bus_req[queue'[k].master].type = "RD"
          /\ \A j \in Masters \ {queue'[k].master}, f \in Frames :
                mesi[j][f] # "I" /\ tag[j][f] = queue'[k].line =>
                   queue'[k].shared /\ mesi[j][f] = "S"
      BY <2>3, <2>4, <3>1 DEF QueuedAnswers, LeftBehind
    <3>3. queue'[k].line # bus_req[i].line /\ queue'[k].master \in Masters \ {i}
      BY <2>1, <2>2, <2>4
    <3>. QED
      BY <1>7, <3>2, <3>3
  <2>. QED
    BY <2>4 DEF QueuedAnswers, LeftBehind
<1>. QED
  BY <1>7, <1>8, <1>9 DEF CoherenceInv

----------------------------------------------------------------------------
LEMMA InitMesi == Init => CoherenceInv
  BY DEF Init, CoherenceInv, CopiesInTheirSet, OneFramePerLine, RequestsFitCopies,
         RequestFitsCopies, AnsweredSnoops, QueuedAnswers, SingleOwner

LEMMA NextMesi ==
    ASSUME IInv, [Next]_vars
    PROVE  IInv'
<1>1. TypeInv'
  BY NextType DEF IInv
<1>2. CASE \E i \in Masters : CoreRequest(i)
  BY <1>1, <1>2, CoreRequestMesi DEF IInv
<1>3. CASE \E i \in Masters : Lookup(i)
  BY <1>1, <1>3, LookupReadHitMesi, LookupWriteHitMesi, LookupUpgradeMesi,
     LookupMissDirtyMesi, LookupMissCleanMesi DEF Lookup, IInv
<1>4. CASE \E i \in Masters : FlushWalk(i)
  BY <1>1, <1>4, FlushStartMesi, FlushDropMesi, FlushWritebackMesi, FlushDoneMesi
     DEF FlushWalk, IInv
<1>5. CASE \E i \in Masters : GrantWB(i) \/ GrantSnoop(i) \/ SnoopAnswer(i)
  BY <1>1, <1>5, GrantWBMesi, GrantSnoopMesi, SnoopAnswerMesi DEF IInv
<1>6. CASE Decide \/ FastResponse
  BY <1>1, <1>6, DecideFastMesi, DecideQueueMesi, FastResponseMesi DEF Decide, IInv
<1>7. CASE Engine
  BY <1>1, <1>7, EngineStartMesi, EngineWriteDoneMesi, EngineRespMesi DEF Engine, IInv
<1>8. CASE L2Port \/ Fence
  BY <1>1, <1>8, L2PortMesi, FenceMesi DEF IInv
<1>9. CASE UNCHANGED vars
  BY <1>1, <1>9, StillMesi DEF vars, l1vars, enginevars, IInv
<1>. QED
  BY <1>2, <1>3, <1>4, <1>5, <1>6, <1>7, <1>8, <1>9 DEF Next

\* The invariant of the coherence protocol: the copies the caches hold fit the
\* requests they make, the answers they have given and the answers in flight.
THEOREM CoherenceInvariant == Spec => []IInv
<1>1. Init => IInv
  BY InitType, InitMesi DEF IInv
<1>2. IInv /\ [Next]_vars => IInv'
  BY NextMesi
<1>. QED
  BY <1>1, <1>2, PTL DEF Spec

\* MESI exclusivity: a cache that may write a line silently holds the only
\* copy, whatever snoops, upgrades, evictions and flushes are under way.
THEOREM Exclusivity == Spec => []SingleOwner
<1>1. IInv => SingleOwner
  BY DEF IInv, CoherenceInv
<1>. QED
  BY <1>1, CoherenceInvariant, PTL

\* The tag search of a cache never has two ways to choose from.
THEOREM UniqueCopy == Spec => []OneFramePerLine
<1>1. IInv => OneFramePerLine
  BY DEF IInv, CoherenceInv
<1>. QED
  BY <1>1, CoherenceInvariant, PTL
=============================================================================
