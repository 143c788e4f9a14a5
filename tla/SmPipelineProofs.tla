-------------------------- MODULE SmPipelineProofs --------------------------
(***************************************************************************)
(* Proofs about SmPipeline for any number of warps, any program, any depth *)
(* of the instruction FIFO and any latency of the ALU:                     *)
(*                                                                         *)
(*   the fetch path     NoWordDropped                                      *)
(*   program order      ProgramOrderKept                                   *)
(*   types              TypeCorrect                                        *)
(*   operands           OperandsCorrect, DrainsCorrect, for programs that  *)
(*                      keep clear of what the network does not forward    *)
(***************************************************************************)
EXTENDS SmPipeline, TLAPS, SequenceTheorems

FifoEntries == [warp : Warps, epoch : BOOLEAN, pc : Nat]

\* The fetch path: a fetch is pending exactly while memory owes its word, its tag
\* names the warp it is for, and the FIFO has room for the word.
FetchInv ==
    /\ pc \in [Warps -> Nat]
    /\ warp_epoch \in [Warps -> BOOLEAN]
    /\ if_pending \in BOOLEAN
    /\ if_tag \in [warp : Warps \union {NoWarp}, epoch : BOOLEAN]
    /\ if_pending => if_tag.warp \in Warps
    /\ imem \in Seq(Nat)
    /\ Len(imem) = (IF if_pending THEN 1 ELSE 0)
    /\ fifo \in Seq(FifoEntries)
    /\ Len(fifo) <= FIFO_DEPTH
    /\ FetchesFit

\* Whatever address is fetched, there is an instruction.
LEMMA InstType == ASSUME NEW p \in Nat PROVE Inst(p) \in Insts
<1>1. CASE p < Len(Program)
  <2>1. p + 1 \in 1 .. Len(Program)
    BY <1>1, PipelineAssumption
  <2>. QED
    BY <1>1, <2>1, PipelineAssumption DEF Inst
<1>2. CASE ~(p < Len(Program))
  BY <1>2 DEF Inst, Padding, Insts, Ops
<1>. QED
  BY <1>1, <1>2

LEMMA InitFetch == Init => FetchInv
<1>. SUFFICES ASSUME Init PROVE FetchInv
  OBVIOUS
<1>1. /\ pc \in [Warps -> Nat] /\ warp_epoch \in [Warps -> BOOLEAN]
      /\ if_pending = FALSE /\ imem = <<>> /\ fifo = <<>>
  BY DEF Init
<1>2. if_tag \in [warp : Warps \union {NoWarp}, epoch : BOOLEAN]
  BY DEF Init, NoTag
<1>3. /\ imem \in Seq(Nat) /\ Len(imem) = 0
      /\ fifo \in Seq(FifoEntries) /\ Len(fifo) = 0
  BY <1>1, EmptySeq
<1>4. Len(fifo) <= FIFO_DEPTH
  BY <1>3, PipelineAssumption
<1>5. FetchesFit
  BY <1>1 DEF FetchesFit
<1>. QED
  BY <1>1, <1>2, <1>3, <1>4, <1>5 DEF FetchInv

\* A redirect goes to an instruction index.
LEMMA TargetType ==
    ASSUME FetchInv, pc_redirect_valid
    PROVE  head_inst.target \in Nat
<1>1. fifo # <<>>
  BY DEF pc_redirect_valid, id_exec, id_commit, fifo_pop
<1>2. head.pc \in Nat
  <2>1. fifo \in Seq(FifoEntries) /\ 1 \in 1 .. Len(fifo)
    BY <1>1 DEF FetchInv
  <2>2. fifo[1] \in FifoEntries
    BY <2>1
  <2>. QED
    BY <2>2 DEF head, FifoEntries
<1>3. Inst(head.pc) \in Insts
  BY <1>2, InstType
<1>. QED
  BY <1>3 DEF head_inst, Insts

\* What a clock edge does to the program counters and the epochs.
LEMMA PcType ==
    ASSUME FetchInv, NEW w \in Warps \union {NoWarp}, PcUnit(w), Epochs
    PROVE  pc' \in [Warps -> Nat] /\ warp_epoch' \in [Warps -> BOOLEAN]
<1>1. pc' \in [Warps -> Nat]
  <2>1. ASSUME NEW v \in Warps PROVE pc[v] \in Nat /\ pc[v] + 1 \in Nat
    BY <2>1 DEF FetchInv
  <2>. QED
    BY <2>1, TargetType DEF PcUnit
<1>2. warp_epoch' \in [Warps -> BOOLEAN]
  BY DEF Epochs, FetchInv
<1>. QED
  BY <1>1, <1>2

\* No fetch is accepted on top of another one or into a full FIFO.
LEMMA FetchableFits ==
    ASSUME FetchInv, NEW w \in Fetchable
    PROVE  w \in Warps /\ ~if_pending /\ imem = <<>> /\ Len(fifo) < FIFO_DEPTH
<1>1. w \in Warps /\ ~if_pending /\ ~fifo_full
  BY DEF Fetchable, warp_ready, has_hazard
<1>2. imem = <<>>
  BY <1>1 DEF FetchInv
<1>. QED
  BY <1>1, <1>2, PipelineAssumption DEF fifo_full, FetchInv

\* The pop frees a slot or leaves the FIFO as it is.
Popped == IF fifo_pop THEN Tail(fifo) ELSE fifo

LEMMA PoppedType ==
    ASSUME FetchInv
    PROVE  Popped \in Seq(FifoEntries) /\ Len(Popped) <= Len(fifo)
<1>1. CASE fifo_pop
  BY <1>1 DEF fifo_pop, Popped, FetchInv
<1>2. CASE ~fifo_pop
  BY <1>2 DEF Popped, FetchInv
<1>. QED
  BY <1>1, <1>2

\* The word memory owes, as it will be pushed into the FIFO.
Owed == [i \in 1 .. Len(imem) |->
           [warp |-> if_tag.warp, epoch |-> if_tag.epoch, pc |-> imem[i]]]

LEMMA OwedType ==
    ASSUME FetchInv
    PROVE  /\ Owed \in Seq(FifoEntries) /\ Len(Owed) = Len(imem)
           /\ imem = <<>> => Owed = <<>>
           /\ imem # <<>> => /\ Len(imem) = 1 /\ if_pending
                             /\ Owed = <<[warp |-> if_tag.warp, epoch |-> if_tag.epoch,
                                          pc |-> Head(imem)]>>
<1>1. CASE imem = <<>>
  BY <1>1, EmptySeq DEF Owed
<1>2. CASE imem # <<>>
  <2>1. Len(imem) = 1 /\ if_pending /\ if_tag.warp \in Warps /\ if_tag.epoch \in BOOLEAN
    BY <1>2, EmptySeq DEF FetchInv
  <2>2. imem[1] \in Nat /\ Head(imem) = imem[1]
    <3>1. imem \in Seq(Nat) /\ 1 \in 1 .. Len(imem)
      BY <2>1 DEF FetchInv
    <3>. QED
      BY <3>1, ElementOfSeq
  <2>. DEFINE e == [warp |-> if_tag.warp, epoch |-> if_tag.epoch, pc |-> imem[1]]
  <2>3. e \in FifoEntries
    BY <2>1, <2>2 DEF FifoEntries
  <2>4. Owed = [i \in 1 .. 1 |-> e]
    BY <2>1 DEF Owed
  <2>. HIDE DEF e
  <2>5. Owed = <<e>>
    BY <2>4
  <2>. QED
    BY <1>2, <2>1, <2>2, <2>3, <2>5 DEF e
<1>. QED
  BY <1>1, <1>2

\* The three things that can happen to the fetch path on an edge.
LEMMA EdgeQueue ==
    ASSUME FetchInv, NEW in \in Inputs, Edge(in)
    PROVE  \/ /\ in.fetched \in Warps /\ in.fetched # NoWarp
              /\ ~if_pending /\ imem = <<>> /\ Len(fifo) < FIFO_DEPTH
              /\ active[in.fetched]
              /\ if_pending' = TRUE
              /\ if_tag' = [warp |-> in.fetched, epoch |-> warp_epoch[in.fetched]]
              /\ imem' = <<pc[in.fetched]>>
              /\ fifo' = Popped
           \/ /\ in.fetched = NoWarp
              /\ if_pending /\ imem # <<>> /\ Len(fifo) < FIFO_DEPTH
              /\ if_pending' = FALSE
              /\ if_tag' = NoTag
              /\ imem' = <<>>
              /\ fifo' = Popped \o Owed
           \/ /\ in.fetched = NoWarp
              /\ UNCHANGED <<if_pending, if_tag, imem>>
              /\ fifo' = Popped
<1>. DEFINE w == in.fetched
<1>1. /\ w \in Fetchable \union {NoWarp} /\ in.answered \in BOOLEAN
      /\ in.answered => imem # <<>>
  BY DEF Inputs
<1>2. Fetch(w, in.answered) /\ Fifo(in.answered)
  BY DEF Edge
<1>3. imem \in Seq(Nat) /\ Popped \in Seq(FifoEntries)
  BY PoppedType DEF FetchInv
<1>4. ~in.answered => fifo' = Popped
  BY <1>2, <1>3 DEF Fifo, Popped
<1>5. CASE w # NoWarp
  <2>1. w \in Warps /\ ~if_pending /\ imem = <<>> /\ Len(fifo) < FIFO_DEPTH
    BY <1>1, <1>5, FetchableFits
  <2>2. ~in.answered /\ active[w]
    BY <1>1, <1>5, <2>1 DEF Fetchable, warp_ready
  <2>3. imem' = <<>> \o <<pc[w]>>
    BY <1>2, <1>5, <2>1, <2>2 DEF Fetch
  <2>4. imem' = <<pc[w]>>
    BY <2>1, <2>3 DEF FetchInv
  <2>5. if_pending' = TRUE /\ if_tag' = [warp |-> w, epoch |-> warp_epoch[w]]
    BY <1>2, <1>5 DEF Fetch
  <2>. QED
    BY <1>4, <1>5, <2>1, <2>2, <2>4, <2>5
<1>6. CASE w = NoWarp /\ in.answered
  <2>1. imem # <<>> /\ if_pending /\ Len(imem) = 1
    BY <1>1, <1>6, OwedType
  <2>2. Len(fifo) < FIFO_DEPTH /\ ~fifo_full
    BY <2>1, PipelineAssumption DEF FetchInv, FetchesFit, fifo_full
  <2>3. if_pending' = FALSE /\ if_tag' = NoTag /\ imem' = Tail(imem) \o <<>>
    BY <1>2, <1>6 DEF Fetch
  <2>4. imem' = <<>>
    <3>1. Tail(imem) \in Seq(Nat) /\ Len(Tail(imem)) = 0
      BY <1>3, <2>1, HeadTailProperties
    <3>2. Tail(imem) = <<>>
      BY <3>1, EmptySeq
    <3>. QED
      BY <2>3, <3>2, ConcatEmptySeq
  <2>5. fifo' = Popped \o Owed
    BY <1>2, <1>6, <2>1, <2>2, OwedType DEF Fifo, Popped
  <2>. QED
    BY <1>6, <2>1, <2>2, <2>3, <2>4, <2>5
<1>7. CASE w = NoWarp /\ ~in.answered
  <2>1. if_pending' = if_pending /\ if_tag' = if_tag /\ imem' = imem \o <<>>
    BY <1>2, <1>7 DEF Fetch
  <2>2. imem' = imem
    BY <1>3, <2>1
  <2>. QED
    BY <1>4, <1>7, <2>1, <2>2
<1>. QED
  BY <1>1, <1>5, <1>6, <1>7

LEMMA EdgeFetch ==
    ASSUME FetchInv, NEW in \in Inputs, Edge(in)
    PROVE  FetchInv'
<1>1. in.fetched \in Warps \union {NoWarp} /\ PcUnit(in.fetched) /\ Epochs
  BY DEF Inputs, Fetchable, Edge
<1>2. pc' \in [Warps -> Nat] /\ warp_epoch' \in [Warps -> BOOLEAN]
  BY <1>1, PcType
<1>. DEFINE w == in.fetched
<1>3. CASE /\ w \in Warps /\ ~if_pending /\ imem = <<>> /\ Len(fifo) < FIFO_DEPTH
           /\ if_pending' = TRUE
           /\ if_tag' = [warp |-> w, epoch |-> warp_epoch[w]]
           /\ imem' = <<pc[w]>>
           /\ fifo' = Popped
  <2>1. imem' \in Seq(Nat) /\ Len(imem') = 1
    BY <1>3 DEF FetchInv
  <2>2. fifo' \in Seq(FifoEntries) /\ Len(fifo') < FIFO_DEPTH
    BY <1>3, PoppedType, PipelineAssumption DEF FetchInv
  <2>3. if_tag' \in [warp : Warps \union {NoWarp}, epoch : BOOLEAN] /\ if_tag'.warp = w
    BY <1>3 DEF FetchInv
  <2>4. Len(fifo') <= FIFO_DEPTH /\ FetchesFit'
    BY <2>2, PipelineAssumption DEF FetchesFit, fifo_full
  <2>. QED
    BY <1>2, <1>3, <2>1, <2>2, <2>3, <2>4 DEF FetchInv
<1>4. CASE /\ imem # <<>> /\ Len(fifo) < FIFO_DEPTH
           /\ if_pending' = FALSE /\ if_tag' = NoTag /\ imem' = <<>>
           /\ fifo' = Popped \o Owed
  <2>1. Popped \in Seq(FifoEntries) /\ Len(Popped) <= Len(fifo)
    BY PoppedType
  <2>2. Owed \in Seq(FifoEntries) /\ Len(Owed) = 1
    BY <1>4, OwedType
  <2>3. fifo' \in Seq(FifoEntries) /\ Len(fifo') = Len(Popped) + Len(Owed)
    BY <1>4, <2>1, <2>2, ConcatProperties
  <2>4. Len(fifo) \in Nat /\ Len(Popped) \in Nat
    BY <2>1, LenProperties DEF FetchInv
  <2>5. Len(fifo') <= FIFO_DEPTH
    BY <1>4, <2>1, <2>2, <2>3, <2>4, PipelineAssumption
  <2>6. if_tag' \in [warp : Warps \union {NoWarp}, epoch : BOOLEAN]
    BY <1>4 DEF NoTag
  <2>7. /\ if_pending' \in BOOLEAN
        /\ if_pending' => if_tag'.warp \in Warps
        /\ imem' \in Seq(Nat)
        /\ Len(imem') = (IF if_pending' THEN 1 ELSE 0)
        /\ FetchesFit'
    BY <1>4, EmptySeq DEF FetchesFit
  <2>. QED
    BY <1>2, <2>3, <2>5, <2>6, <2>7 DEF FetchInv
<1>5. CASE UNCHANGED <<if_pending, if_tag, imem>> /\ fifo' = Popped
  <2>1. fifo' \in Seq(FifoEntries) /\ Len(fifo') <= Len(fifo)
    BY <1>5, PoppedType
  <2>2. Len(fifo') <= FIFO_DEPTH /\ FetchesFit'
    BY <1>5, <2>1, PipelineAssumption DEF FetchInv, FetchesFit, fifo_full
  <2>3. /\ if_pending' \in BOOLEAN
        /\ if_tag' \in [warp : Warps \union {NoWarp}, epoch : BOOLEAN]
        /\ if_pending' => if_tag'.warp \in Warps
        /\ imem' \in Seq(Nat)
        /\ Len(imem') = (IF if_pending' THEN 1 ELSE 0)
    BY <1>5, Zenon DEF FetchInv
  <2>. QED
    BY <1>2, <2>1, <2>2, <2>3 DEF FetchInv
<1>. QED
  BY <1>3, <1>4, <1>5, EdgeQueue, Zenon

\* The fetch path keeps its bookkeeping whatever programs, branches and memory do.
THEOREM FetchInvariant == Spec => []FetchInv
<1>1. Init => FetchInv
  BY InitFetch
<1>2. FetchInv /\ [Clock]_vars => FetchInv'
  <2>1. CASE Clock
    BY <2>1, EdgeFetch DEF Clock
  <2>2. CASE UNCHANGED vars
    BY <2>2 DEF vars, frontvars, FetchInv, FetchesFit, fifo_full
  <2>. QED
    BY <2>1, <2>2
<1>. QED
  BY <1>1, <1>2, PTL DEF Spec

\* No instruction word is dropped: a fetch that is answered finds room in the FIFO.
THEOREM NoWordDropped == Spec => []FetchesFit
<1>1. FetchInv => FetchesFit
  BY DEF FetchInv
<1>. QED
  BY <1>1, FetchInvariant, PTL

----------------------------------------------------------------------------
(* The fetches in flight of a warp are its program in order. *)

\* The fetches of the SM that have not committed, oldest first: the FIFO, then the
\* word memory owes.
InFlight == fifo \o Owed

\* q[i] is a fetch for warp w under epoch e.
Current(q, i, w, e) == q[i].warp = w /\ q[i].epoch = e

\* No fetch of warp w lies in q after i and before j.
NoneBetween(q, i, j, w) == \A k \in 1 .. Len(q) : i < k /\ k < j => q[k].warp # w

\* The fetches of w under epoch e are behind its other ones, and are consecutive
\* from the instruction at first up to the one before last.
Ordered(q, w, e, first, last) ==
    /\ \A i, j \in 1 .. Len(q) :
          i < j /\ Current(q, i, w, e) /\ q[j].warp = w => Current(q, j, w, e)
    /\ \A i \in 1 .. Len(q) :
          Current(q, i, w, e) /\ (\A k \in 1 .. Len(q) : k < i => ~Current(q, k, w, e))
             => q[i].pc = first
    /\ \A i, j \in 1 .. Len(q) :
          i < j /\ Current(q, i, w, e) /\ q[j].warp = w /\ NoneBetween(q, i, j, w)
             => q[j].pc = q[i].pc + 1
    /\ \A i \in 1 .. Len(q) :
          Current(q, i, w, e) /\ NoneBetween(q, i, Len(q) + 1, w)
             => last = q[i].pc + 1
    /\ (\A i \in 1 .. Len(q) : ~Current(q, i, w, e)) => last = first

\* Of a warp that has not exited, what is in flight under its epoch is its program
\* in order, from the next instruction to execute up to the program counter.
OrderInv ==
    /\ active = [w \in Warps |-> w \notin exited]
    /\ exited \subseteq Warps
    /\ isa_pc \in [Warps -> Nat]
    /\ pred \in [Warps -> BOOLEAN]
    /\ \A w \in Warps \ exited :
          Ordered(InFlight, w, warp_epoch[w], isa_pc[w], pc[w])

\* The oldest fetch leaves; when it was one of w's under e, the next one is due.
LEMMA PopOrdered ==
    ASSUME NEW q \in Seq(FifoEntries), q # <<>>, NEW w, NEW e, NEW first, NEW last,
           Ordered(q, w, e, first, last)
    PROVE  Ordered(Tail(q), w, e,
                   IF Current(q, 1, w, e) THEN first + 1 ELSE first, last)
<1>. DEFINE t == Tail(q)
<1>. DEFINE due == IF Current(q, 1, w, e) THEN first + 1 ELSE first
<1>1. /\ t \in Seq(FifoEntries) /\ Len(q) \in Nat /\ Len(t) = Len(q) - 1
      /\ \A i \in 1 .. Len(t) : t[i] = q[i + 1]
  BY HeadTailProperties
<1>. HIDE DEF t, due
<1>2. /\ 1 \in 1 .. Len(q) /\ Len(t) + 1 = Len(q)
      /\ \A i \in 1 .. Len(t) : i + 1 \in 1 .. Len(q)
  <2>1. Len(q) \in Nat \ {0}
    BY EmptySeq
  <2>2. Len(t) \in Nat /\ Len(t) = Len(q) - 1
    BY <1>1, <2>1
  <2>. QED
    BY <2>1, <2>2
<1>3. \A k \in 1 .. Len(q) : k = 1 \/ (k - 1 \in 1 .. Len(t) /\ t[k - 1] = q[k])
  BY <1>1
<1>4. \A i \in 1 .. Len(t) : Current(t, i, w, e) <=> Current(q, i + 1, w, e)
  BY <1>1 DEF Current
<1>5. ASSUME NEW i \in 1 .. Len(t), NEW j \in 1 .. Len(t) + 1, NoneBetween(t, i, j, w)
      PROVE  NoneBetween(q, i + 1, j + 1, w)
  BY <1>1, <1>3, <1>5 DEF NoneBetween
<1>6. \A i, j \in 1 .. Len(t) :
         i < j /\ Current(t, i, w, e) /\ t[j].warp = w => Current(t, j, w, e)
  <2>. SUFFICES ASSUME NEW i \in 1 .. Len(t), NEW j \in 1 .. Len(t), i < j,
                       Current(t, i, w, e), t[j].warp = w
                PROVE  Current(t, j, w, e)
    OBVIOUS
  <2>1. i + 1 \in 1 .. Len(q) /\ j + 1 \in 1 .. Len(q) /\ i + 1 < j + 1
    BY <1>2
  <2>2. Current(q, i + 1, w, e) /\ q[j + 1].warp = w
    BY <1>1, <1>4
  <2>. QED
    BY <1>4, <2>1, <2>2 DEF Ordered
\* Behind a current head, the fetches of w are current.
<1>7. ASSUME Current(q, 1, w, e), NEW j \in 1 .. Len(t) + 1,
              \A k \in 1 .. Len(t) : k < j => ~Current(t, k, w, e)
       PROVE  NoneBetween(q, 1, j + 1, w)
  <2>. SUFFICES ASSUME NEW k \in 1 .. Len(q), 1 < k, k < j + 1 PROVE q[k].warp # w
    BY DEF NoneBetween
  <2>1. k - 1 \in 1 .. Len(t) /\ k - 1 < j /\ (k - 1) + 1 = k
    BY <1>1, <1>2
  <2>2. ~Current(q, k, w, e)
    BY <1>4, <1>7, <2>1
  <2>. QED
    BY <1>2, <1>7, <2>2 DEF Ordered
<1>8. ASSUME Current(q, 1, w, e) PROVE q[1].pc = first
  <2>1. \A k \in 1 .. Len(q) : k < 1 => ~Current(q, k, w, e)
    BY <1>1
  <2>. QED
    BY <1>2, <1>8, <2>1 DEF Ordered
<1>9. \A i \in 1 .. Len(t) :
         Current(t, i, w, e) /\ (\A k \in 1 .. Len(t) : k < i => ~Current(t, k, w, e))
            => t[i].pc = due
  <2>. SUFFICES ASSUME NEW i \in 1 .. Len(t), Current(t, i, w, e),
                       \A k \in 1 .. Len(t) : k < i => ~Current(t, k, w, e)
                PROVE  t[i].pc = due
    OBVIOUS
  <2>1. i + 1 \in 1 .. Len(q) /\ Current(q, i + 1, w, e) /\ t[i] = q[i + 1]
    BY <1>1, <1>2, <1>4
  <2>2. CASE Current(q, 1, w, e)
    <3>1. NoneBetween(q, 1, i + 1, w)
      BY <1>7, <2>2, <1>2
    <3>2. q[i + 1].warp = w /\ 1 < i + 1
      BY <2>1 DEF Current
    <3>3. q[i + 1].pc = q[1].pc + 1
      BY <1>2, <2>1, <2>2, <3>1, <3>2 DEF Ordered
    <3>. QED
      BY <1>8, <2>1, <2>2, <3>3 DEF due
  <2>3. CASE ~Current(q, 1, w, e)
    <3>1. ASSUME NEW k \in 1 .. Len(q), k < i + 1 PROVE ~Current(q, k, w, e)
      <4>1. CASE k = 1
        BY <2>3, <4>1
      <4>2. CASE k # 1
        <5>1. k - 1 \in 1 .. Len(t) /\ k - 1 < i /\ (k - 1) + 1 = k
          BY <1>3, <3>1, <4>2
        <5>. QED
          BY <1>4, <5>1
      <4>. QED
        BY <4>1, <4>2
    <3>2. q[i + 1].pc = first
      BY <2>1, <3>1 DEF Ordered
    <3>. QED
      BY <2>1, <2>3, <3>2 DEF due
  <2>. QED
    BY <2>2, <2>3
<1>10. \A i, j \in 1 .. Len(t) :
         i < j /\ Current(t, i, w, e) /\ t[j].warp = w /\ NoneBetween(t, i, j, w)
            => t[j].pc = t[i].pc + 1
  <2>. SUFFICES ASSUME NEW i \in 1 .. Len(t), NEW j \in 1 .. Len(t), i < j,
                       Current(t, i, w, e), t[j].warp = w, NoneBetween(t, i, j, w)
                PROVE  t[j].pc = t[i].pc + 1
    OBVIOUS
  <2>1. i + 1 \in 1 .. Len(q) /\ j + 1 \in 1 .. Len(q) /\ i + 1 < j + 1
    BY <1>2
  <2>2. Current(q, i + 1, w, e) /\ q[j + 1].warp = w /\ NoneBetween(q, i + 1, j + 1, w)
    BY <1>1, <1>4, <1>5
  <2>3. q[j + 1].pc = q[i + 1].pc + 1
    BY <2>1, <2>2 DEF Ordered
  <2>. QED
    BY <1>1, <2>3
<1>11. \A i \in 1 .. Len(t) :
         Current(t, i, w, e) /\ NoneBetween(t, i, Len(t) + 1, w) => last = t[i].pc + 1
  <2>. SUFFICES ASSUME NEW i \in 1 .. Len(t), Current(t, i, w, e),
                       NoneBetween(t, i, Len(t) + 1, w)
                PROVE  last = t[i].pc + 1
    OBVIOUS
  <2>1. i + 1 \in 1 .. Len(q) /\ Len(t) + 1 \in 1 .. Len(t) + 1
    BY <1>1, <1>2
  <2>2. Current(q, i + 1, w, e) /\ NoneBetween(q, i + 1, Len(q) + 1, w)
    BY <1>1, <1>4, <1>5, <2>1
  <2>3. last = q[i + 1].pc + 1
    BY <2>1, <2>2 DEF Ordered
  <2>. QED
    BY <1>1, <2>3
<1>12. (\A i \in 1 .. Len(t) : ~Current(t, i, w, e)) => last = due
  <2>. SUFFICES ASSUME \A i \in 1 .. Len(t) : ~Current(t, i, w, e)
                PROVE  last = due
    OBVIOUS
  <2>1. CASE Current(q, 1, w, e)
    <3>1. NoneBetween(q, 1, Len(q) + 1, w)
      BY <1>2, <1>7, <2>1
    <3>2. last = q[1].pc + 1
      BY <1>2, <2>1, <3>1 DEF Ordered
    <3>. QED
      BY <1>8, <2>1, <3>2 DEF due
  <2>2. CASE ~Current(q, 1, w, e)
    <3>1. ASSUME NEW k \in 1 .. Len(q) PROVE ~Current(q, k, w, e)
      BY <1>1, <1>3, <1>4, <2>2, <3>1 DEF Current
    <3>. QED
      BY <2>2, <3>1 DEF Ordered, due
  <2>. QED
    BY <2>1, <2>2
<1>13. Ordered(t, w, e, due, last)
  BY <1>6, <1>9, <1>10, <1>11, <1>12, Zenon DEF Ordered
<1>. QED
  BY <1>13 DEF t, due

\* A new fetch is for another warp, or is w's next one under e.
LEMMA PushOrdered ==
    ASSUME NEW q \in Seq(FifoEntries), NEW x \in FifoEntries,
           NEW w, NEW e, NEW first, NEW last,
           Ordered(q, w, e, first, last),
           x.warp = w => x.epoch = e /\ x.pc = last
    PROVE  Ordered(Append(q, x), w, e, first,
                   IF x.warp = w THEN last + 1 ELSE last)
<1>. DEFINE t == Append(q, x)
<1>. DEFINE end == IF x.warp = w THEN last + 1 ELSE last
<1>1. /\ Len(q) \in Nat /\ Len(t) = Len(q) + 1
      /\ \A i \in 1 .. Len(q) : t[i] = q[i]
      /\ t[Len(t)] = x
  BY AppendProperties
<1>. HIDE DEF t, end
<1>2. /\ Len(t) \in 1 .. Len(t)
      /\ \A i \in 1 .. Len(t) : i = Len(t) \/ (i \in 1 .. Len(q) /\ i < Len(t))
      /\ \A i \in 1 .. Len(q) : i \in 1 .. Len(t) /\ i < Len(t)
  BY <1>1
<1>3. \A i \in 1 .. Len(q) : Current(t, i, w, e) <=> Current(q, i, w, e)
  BY <1>1 DEF Current
<1>4. x.warp = w => Current(t, Len(t), w, e)
  BY <1>1 DEF Current
<1>5. ASSUME NEW i \in 1 .. Len(q), NEW j \in 1 .. Len(q) + 1, NoneBetween(t, i, j, w)
      PROVE  NoneBetween(q, i, j, w)
  BY <1>1, <1>2, <1>5 DEF NoneBetween
<1>6. \A i, j \in 1 .. Len(t) :
         i < j /\ Current(t, i, w, e) /\ t[j].warp = w => Current(t, j, w, e)
  <2>. SUFFICES ASSUME NEW i \in 1 .. Len(t), NEW j \in 1 .. Len(t), i < j,
                       Current(t, i, w, e), t[j].warp = w
                PROVE  Current(t, j, w, e)
    OBVIOUS
  <2>1. CASE j = Len(t)
    BY <1>1, <1>4, <2>1
  <2>2. CASE j # Len(t)
    <3>1. i \in 1 .. Len(q) /\ j \in 1 .. Len(q)
      BY <1>1, <2>2
    <3>2. Current(q, i, w, e) /\ q[j].warp = w
      BY <1>1, <1>3, <3>1
    <3>. QED
      BY <1>3, <3>1, <3>2 DEF Ordered
  <2>. QED
    BY <2>1, <2>2
<1>7. \A i \in 1 .. Len(t) :
         Current(t, i, w, e) /\ (\A k \in 1 .. Len(t) : k < i => ~Current(t, k, w, e))
            => t[i].pc = first
  <2>. SUFFICES ASSUME NEW i \in 1 .. Len(t), Current(t, i, w, e),
                       \A k \in 1 .. Len(t) : k < i => ~Current(t, k, w, e)
                PROVE  t[i].pc = first
    OBVIOUS
  <2>1. CASE i = Len(t)
    <3>1. \A k \in 1 .. Len(q) : ~Current(q, k, w, e)
      BY <1>2, <1>3, <2>1
    <3>2. x.warp = w /\ x.pc = last /\ last = first
      BY <1>1, <2>1, <3>1 DEF Ordered, Current
    <3>. QED
      BY <1>1, <2>1, <3>2
  <2>2. CASE i # Len(t)
    <3>1. i \in 1 .. Len(q) /\ Current(q, i, w, e)
      BY <1>2, <1>3, <2>2
    <3>2. \A k \in 1 .. Len(q) : k < i => ~Current(q, k, w, e)
      BY <1>2, <1>3
    <3>3. q[i].pc = first
      BY <3>1, <3>2 DEF Ordered
    <3>. QED
      BY <1>1, <3>1, <3>3
  <2>. QED
    BY <2>1, <2>2
<1>8. \A i, j \in 1 .. Len(t) :
         i < j /\ Current(t, i, w, e) /\ t[j].warp = w /\ NoneBetween(t, i, j, w)
            => t[j].pc = t[i].pc + 1
  <2>. SUFFICES ASSUME NEW i \in 1 .. Len(t), NEW j \in 1 .. Len(t), i < j,
                       Current(t, i, w, e), t[j].warp = w, NoneBetween(t, i, j, w)
                PROVE  t[j].pc = t[i].pc + 1
    OBVIOUS
  <2>1. i \in 1 .. Len(q) /\ t[i] = q[i]
    BY <1>1
  <2>2. Current(q, i, w, e) /\ j \in 1 .. Len(q) + 1
    BY <1>1, <1>3, <2>1
  <2>3. NoneBetween(q, i, j, w)
    BY <1>5, <2>1, <2>2
  <2>4. CASE j = Len(t)
    <3>1. last = q[i].pc + 1
      BY <1>1, <2>1, <2>2, <2>3, <2>4 DEF Ordered
    <3>. QED
      BY <1>1, <2>1, <2>4, <3>1
  <2>5. CASE j # Len(t)
    <3>1. j \in 1 .. Len(q) /\ t[j] = q[j]
      BY <1>1, <2>5
    <3>. QED
      BY <2>1, <2>2, <2>3, <3>1 DEF Ordered
  <2>. QED
    BY <2>4, <2>5
<1>9. \A i \in 1 .. Len(t) :
         Current(t, i, w, e) /\ NoneBetween(t, i, Len(t) + 1, w) => end = t[i].pc + 1
  <2>. SUFFICES ASSUME NEW i \in 1 .. Len(t), Current(t, i, w, e),
                       NoneBetween(t, i, Len(t) + 1, w)
                PROVE  end = t[i].pc + 1
    OBVIOUS
  <2>1. CASE i = Len(t)
    BY <1>1, <2>1 DEF end, Current
  <2>2. CASE i # Len(t)
    <3>1. i \in 1 .. Len(q) /\ Current(q, i, w, e) /\ t[i] = q[i]
      BY <1>1, <1>2, <1>3, <2>2
    <3>2. x.warp # w
      BY <1>1, <1>2, <3>1 DEF NoneBetween
    <3>3. NoneBetween(t, i, Len(q) + 1, w)
      BY <1>1 DEF NoneBetween
    <3>4. NoneBetween(q, i, Len(q) + 1, w)
      BY <1>1, <1>5, <3>1, <3>3
    <3>. QED
      BY <3>1, <3>2, <3>4 DEF Ordered, end
  <2>. QED
    BY <2>1, <2>2
<1>10. (\A i \in 1 .. Len(t) : ~Current(t, i, w, e)) => end = first
  <2>. SUFFICES ASSUME \A i \in 1 .. Len(t) : ~Current(t, i, w, e)
                PROVE  end = first
    OBVIOUS
  <2>1. x.warp # w /\ \A i \in 1 .. Len(q) : ~Current(q, i, w, e)
    BY <1>2, <1>3, <1>4
  <2>. QED
    BY <2>1 DEF Ordered, end
<1>11. Ordered(t, w, e, first, end)
  BY <1>6, <1>7, <1>8, <1>9, <1>10, Zenon DEF Ordered
<1>. QED
  BY <1>11 DEF t, end

\* With nothing in flight under e, a warp is wherever it is put.
LEMMA NoneOrdered ==
    ASSUME NEW q, NEW w, NEW e, NEW target,
           \A i \in 1 .. Len(q) : ~Current(q, i, w, e)
    PROVE  Ordered(q, w, e, target, target)
BY DEF Ordered

LEMMA TailOfConcat ==
    ASSUME NEW S, NEW s \in Seq(S), NEW t \in Seq(S), s # <<>>
    PROVE  Tail(s \o t) = Tail(s) \o t
<1>1. /\ s \o t \in Seq(S) /\ Len(s \o t) = Len(s) + Len(t)
      /\ \A i \in 1 .. Len(s) + Len(t) :
            (s \o t)[i] = IF i <= Len(s) THEN s[i] ELSE t[i - Len(s)]
  BY ConcatProperties
<1>2. Len(s) \in Nat \ {0} /\ Len(t) \in Nat
  BY EmptySeq, LenProperties
<1>3. s \o t # <<>>
  BY <1>1, <1>2, EmptySeq
<1>4. /\ Tail(s \o t) \in Seq(S) /\ Len(Tail(s \o t)) = Len(s) + Len(t) - 1
      /\ \A i \in 1 .. Len(Tail(s \o t)) : Tail(s \o t)[i] = (s \o t)[i + 1]
  BY <1>1, <1>3, HeadTailProperties
<1>5. /\ Tail(s) \in Seq(S) /\ Len(Tail(s)) = Len(s) - 1
      /\ \A i \in 1 .. Len(Tail(s)) : Tail(s)[i] = s[i + 1]
  BY HeadTailProperties
<1>6. /\ Tail(s) \o t \in Seq(S) /\ Len(Tail(s) \o t) = Len(s) - 1 + Len(t)
      /\ \A i \in 1 .. Len(s) - 1 + Len(t) :
            (Tail(s) \o t)[i] = IF i <= Len(s) - 1 THEN Tail(s)[i]
                                                   ELSE t[i - (Len(s) - 1)]
  BY <1>5, ConcatProperties
<1>7. ASSUME NEW i \in 1 .. Len(Tail(s \o t))
      PROVE  Tail(s \o t)[i] = (Tail(s) \o t)[i]
  <2>1. /\ i \in 1 .. Len(s) - 1 + Len(t) /\ i + 1 \in 1 .. Len(s) + Len(t)
        /\ Tail(s \o t)[i] = (s \o t)[i + 1]
    BY <1>2, <1>4
  <2>2. CASE i <= Len(s) - 1
    <3>1. i \in 1 .. Len(Tail(s)) /\ i + 1 <= Len(s)
      BY <1>2, <1>5, <2>1, <2>2
    <3>. QED
      BY <1>1, <1>5, <1>6, <2>1, <2>2, <3>1
  <2>3. CASE ~(i <= Len(s) - 1)
    <3>1. ~(i + 1 <= Len(s)) /\ (i + 1) - Len(s) = i - (Len(s) - 1)
      BY <1>2, <2>1, <2>3
    <3>. QED
      BY <1>1, <1>6, <2>1, <2>3, <3>1
  <2>. QED
    BY <2>2, <2>3
<1>8. Len(Tail(s \o t)) = Len(Tail(s) \o t)
  BY <1>2, <1>4, <1>6
<1>. QED
  BY <1>4, <1>6, <1>7, <1>8, SeqEqual

LEMMA InFlightType ==
    ASSUME FetchInv
    PROVE  /\ InFlight \in Seq(FifoEntries)
           /\ fifo # <<>> => InFlight # <<>> /\ InFlight[1] = head /\ head \in FifoEntries
<1>1. fifo \in Seq(FifoEntries) /\ Owed \in Seq(FifoEntries)
  BY OwedType DEF FetchInv
<1>2. ASSUME fifo # <<>>
      PROVE  InFlight # <<>> /\ InFlight[1] = head /\ head \in FifoEntries
  <2>1. Len(fifo) \in Nat \ {0} /\ Len(Owed) \in Nat
    BY <1>1, <1>2, EmptySeq, LenProperties
  <2>2. 1 \in 1 .. Len(fifo) /\ 1 \in 1 .. Len(fifo) + Len(Owed)
    BY <2>1
  <2>3. fifo[1] \in FifoEntries
    BY <1>1, <2>2, ElementOfSeq
  <2>4. InFlight[1] = fifo[1] /\ Len(InFlight) = Len(fifo) + Len(Owed)
    BY <1>1, <2>1, <2>2, ConcatProperties DEF InFlight
  <2>5. InFlight # <<>>
    BY <2>1, <2>4, EmptySeq
  <2>. QED
    BY <2>3, <2>4, <2>5 DEF head
<1>. QED
  BY <1>1, <1>2, ConcatProperties DEF InFlight

\* What is left in flight when the head of the FIFO is popped.
Kept == IF fifo_pop THEN Tail(InFlight) ELSE InFlight

LEMMA KeptType ==
    ASSUME FetchInv
    PROVE  Kept \in Seq(FifoEntries) /\ Kept = Popped \o Owed
<1>1. fifo \in Seq(FifoEntries) /\ Owed \in Seq(FifoEntries)
  BY OwedType DEF FetchInv
<1>2. CASE fifo_pop
  <2>1. fifo # <<>>
    BY <1>2 DEF fifo_pop
  <2>2. Tail(InFlight) = Tail(fifo) \o Owed
    BY <1>1, <2>1, TailOfConcat DEF InFlight
  <2>3. Tail(InFlight) \in Seq(FifoEntries)
    BY <2>1, InFlightType, HeadTailProperties
  <2>. QED
    BY <1>2, <2>2, <2>3 DEF Kept, Popped
<1>3. CASE ~fifo_pop
  BY <1>3, InFlightType DEF Kept, Popped, InFlight
<1>. QED
  BY <1>2, <1>3

\* The fetch an edge adds behind what is in flight.
Entry(w) == [warp |-> w, epoch |-> warp_epoch[w], pc |-> pc[w]]

\* An answer moves a word from memory into the FIFO and leaves the order alone.
LEMMA InFlightStep ==
    ASSUME FetchInv, NEW in \in Inputs, Edge(in)
    PROVE  /\ in.fetched = NoWarp => InFlight' = Kept
           /\ in.fetched # NoWarp =>
                /\ in.fetched \in Warps /\ active[in.fetched]
                /\ Entry(in.fetched) \in FifoEntries
                /\ InFlight' = Append(Kept, Entry(in.fetched))
<1>. DEFINE w == in.fetched
<1>1. Owed' = [i \in 1 .. Len(imem') |->
                [warp |-> if_tag'.warp, epoch |-> if_tag'.epoch, pc |-> imem'[i]]]
  BY DEF Owed
<1>2. /\ Kept \in Seq(FifoEntries) /\ Kept = Popped \o Owed
      /\ Popped \in Seq(FifoEntries)
  BY KeptType, PoppedType
<1>3. imem' = <<>> => Owed' = <<>>
  BY <1>1, EmptySeq
<1>4. CASE /\ w \in Warps /\ w # NoWarp /\ imem = <<>> /\ active[w]
           /\ if_tag' = [warp |-> w, epoch |-> warp_epoch[w]]
           /\ imem' = <<pc[w]>>
           /\ fifo' = Popped
  <2>1. Owed = <<>>
    BY <1>4, OwedType
  <2>2. Kept = Popped
    BY <1>2, <2>1, ConcatEmptySeq
  <2>3. Entry(w) \in FifoEntries
    BY <1>4 DEF Entry, FifoEntries, FetchInv
  <2>4. Len(imem') = 1 /\ imem'[1] = pc[w]
    BY <1>4
  <2>5. Owed' = [i \in 1 .. 1 |-> Entry(w)]
    BY <1>1, <1>4, <2>4 DEF Entry
  <2>6. Owed' = <<Entry(w)>>
    BY <2>5
  <2>7. Append(Kept, Entry(w)) = Kept \o <<Entry(w)>>
    BY <1>2, <2>3, AppendIsConcat
  <2>. QED
    BY <1>4, <2>2, <2>3, <2>6, <2>7 DEF InFlight
<1>5. CASE w = NoWarp /\ imem' = <<>> /\ fifo' = Popped \o Owed
  <2>1. InFlight' = Kept \o <<>>
    BY <1>2, <1>3, <1>5 DEF InFlight
  <2>. QED
    BY <1>2, <1>5, <2>1, ConcatEmptySeq
<1>6. CASE w = NoWarp /\ UNCHANGED <<if_pending, if_tag, imem>> /\ fifo' = Popped
  <2>1. Owed' = Owed
    BY <1>6 DEF Owed
  <2>. QED
    BY <1>2, <1>6, <2>1 DEF InFlight
<1>. QED
  BY <1>4, <1>5, <1>6, EdgeQueue, Zenon

LEMMA InitOrder == Init => OrderInv
<1>. SUFFICES ASSUME Init PROVE OrderInv
  OBVIOUS
<1>1. /\ active = [w \in Warps |-> w \notin exited] /\ exited \subseteq Warps
      /\ isa_pc \in [Warps -> Nat] /\ pred \in [Warps -> BOOLEAN]
  BY DEF Init
<1>2. FetchInv /\ imem = <<>> /\ fifo = <<>>
  BY InitFetch DEF Init
<1>3. InFlight = <<>>
  BY <1>2, OwedType, ConcatEmptySeq DEF InFlight, FetchInv
<1>4. ASSUME NEW w \in Warps
      PROVE  Ordered(InFlight, w, warp_epoch[w], isa_pc[w], pc[w])
  <2>1. \A i \in 1 .. Len(InFlight) : ~Current(InFlight, i, w, warp_epoch[w])
    BY <1>3, EmptySeq
  <2>2. isa_pc[w] = pc[w]
    BY DEF Init
  <2>. QED
    BY <2>1, <2>2, NoneOrdered
<1>. QED
  BY <1>1, <1>4 DEF OrderInv

\* What commits is the oldest fetch in flight, and is under its warp's epoch.
LEMMA CommitIsCurrent ==
    ASSUME FetchInv, id_commit
    PROVE  /\ InFlight # <<>> /\ head.warp \in Warps
           /\ Kept = Tail(InFlight)
           /\ Current(InFlight, 1, head.warp, warp_epoch[head.warp])
<1>1. fifo_pop /\ fifo # <<>> /\ head.epoch = warp_epoch[head.warp]
  BY DEF id_commit, fifo_pop, id_stale
<1>2. InFlight # <<>> /\ InFlight[1] = head /\ head \in FifoEntries
  BY <1>1, InFlightType
<1>. QED
  BY <1>1, <1>2 DEF Kept, Current, FifoEntries

\* A redirect leaves every fetch in flight for its warp stale.
LEMMA RedirectStrandsAll ==
    ASSUME FetchInv, OrderInv, NEW w \in Warps \ exited,
           pc_redirect_valid, head.warp = w
    PROVE  \A i \in 1 .. Len(Kept) : ~Current(Kept, i, w, ~warp_epoch[w])
<1>1. InFlight # <<>> /\ Kept = Tail(InFlight) /\ Current(InFlight, 1, w, warp_epoch[w])
  BY CommitIsCurrent DEF pc_redirect_valid, id_exec
<1>2. InFlight \in Seq(FifoEntries)
  BY InFlightType
<1>3. /\ Len(InFlight) \in Nat \ {0} /\ Len(Kept) = Len(InFlight) - 1
      /\ \A i \in 1 .. Len(Kept) : Kept[i] = InFlight[i + 1]
  BY <1>1, <1>2, HeadTailProperties, EmptySeq
<1>4. Ordered(InFlight, w, warp_epoch[w], isa_pc[w], pc[w])
  BY DEF OrderInv
<1>. SUFFICES ASSUME NEW i \in 1 .. Len(Kept), Kept[i].warp = w
              PROVE  Kept[i].epoch = warp_epoch[w]
  BY DEF Current, FetchInv
<1>5. 1 \in 1 .. Len(InFlight) /\ i + 1 \in 1 .. Len(InFlight) /\ 1 < i + 1
  BY <1>3
<1>6. InFlight[i + 1].warp = w
  BY <1>3
<1>7. Current(InFlight, i + 1, w, warp_epoch[w])
  BY <1>1, <1>4, <1>5, <1>6 DEF Ordered
<1>. QED
  BY <1>3, <1>7 DEF Current

\* The history: what commits for a warp that has not exited advances its program.
LEMMA EdgeHistory ==
    ASSUME FetchInv, OrderInv, NEW in \in Inputs, Edge(in)
    PROVE  /\ active' = [w \in Warps |-> w \notin exited']
           /\ exited \subseteq exited' /\ exited' \subseteq Warps
           /\ isa_pc' \in [Warps -> Nat]
           /\ pred' \in [Warps -> BOOLEAN]
           /\ \A w \in Warps \ exited :
                 isa_pc'[w] = IF ~(id_commit /\ head.warp = w) THEN isa_pc[w]
                              ELSE IF pc_redirect_valid THEN head_inst.target
                              ELSE isa_pc[w] + 1
<1>1. PcUnit(in.fetched) /\ ProgramOrder /\ Predicates(in.outcome)
  BY DEF Edge
<1>2. /\ active = [w \in Warps |-> w \notin exited] /\ exited \subseteq Warps
      /\ isa_pc \in [Warps -> Nat] /\ pred \in [Warps -> BOOLEAN]
  BY DEF OrderInv
<1>3. id_commit => head.warp \in Warps
  BY CommitIsCurrent
<1>4. /\ pc_redirect_valid => id_commit
      /\ pc_retire_valid => id_commit
  BY DEF pc_redirect_valid, pc_retire_valid, id_exec
<1>5. pred' \in [Warps -> BOOLEAN]
  <2>1. in.outcome \in BOOLEAN
    BY DEF Inputs
  <2>. QED
    BY <1>1, <1>2, <2>1 DEF Predicates
<1>6. /\ active' = [w \in Warps |-> w \notin exited']
      /\ exited \subseteq exited' /\ exited' \subseteq Warps
  <2>1. active' = IF pc_retire_valid THEN [active EXCEPT ![head.warp] = FALSE]
                                     ELSE active
    BY <1>1 DEF PcUnit
  <2>2. exited' = IF pc_retire_valid THEN exited \union {head.warp} ELSE exited
    BY <1>1, <1>4 DEF ProgramOrder
  <2>. QED
    BY <1>2, <1>3, <1>4, <2>1, <2>2
<1>7. pc_redirect_valid => head_inst.target \in Nat
  BY TargetType
<1>8. CASE id_commit /\ head.warp \notin exited
  <2>1. isa_pc' = [isa_pc EXCEPT ![head.warp] =
                     IF pc_redirect_valid THEN head_inst.target ELSE @ + 1]
    BY <1>1, <1>8 DEF ProgramOrder
  <2>. QED
    BY <1>2, <1>3, <1>5, <1>6, <1>7, <1>8, <2>1
<1>9. CASE ~(id_commit /\ head.warp \notin exited)
  <2>1. isa_pc' = isa_pc
    BY <1>1, <1>9 DEF ProgramOrder
  <2>. QED
    BY <1>2, <1>5, <1>6, <1>9, <2>1
<1>. QED
  BY <1>8, <1>9

LEMMA EdgeOrder ==
    ASSUME FetchInv, OrderInv, NEW in \in Inputs, Edge(in)
    PROVE  OrderInv'
<1>1. /\ active' = [w \in Warps |-> w \notin exited']
      /\ exited \subseteq exited' /\ exited' \subseteq Warps
      /\ isa_pc' \in [Warps -> Nat] /\ pred' \in [Warps -> BOOLEAN]
  BY EdgeHistory
<1>. SUFFICES ASSUME NEW w \in Warps \ exited'
              PROVE  Ordered(InFlight', w, warp_epoch'[w], isa_pc'[w], pc'[w])
  BY <1>1 DEF OrderInv
<1>. DEFINE e == warp_epoch[w]
<1>2. w \in Warps \ exited /\ active[w] /\ w # NoWarp
  BY <1>1, PipelineAssumption DEF OrderInv
<1>3. Ordered(InFlight, w, e, isa_pc[w], pc[w])
  BY <1>2 DEF OrderInv
<1>4. InFlight \in Seq(FifoEntries) /\ Kept \in Seq(FifoEntries)
  BY InFlightType, KeptType
<1>5. /\ in.fetched = NoWarp => InFlight' = Kept
      /\ in.fetched # NoWarp => /\ in.fetched \in Warps
                                /\ Entry(in.fetched) \in FifoEntries
                                /\ InFlight' = Append(Kept, Entry(in.fetched))
  BY InFlightStep
<1>6. isa_pc'[w] = IF ~(id_commit /\ head.warp = w) THEN isa_pc[w]
                   ELSE IF pc_redirect_valid THEN head_inst.target
                   ELSE isa_pc[w] + 1
  BY <1>2, EdgeHistory
<1>7. pc'[w] = IF pc_redirect_valid /\ head.warp = w THEN head_inst.target
               ELSE IF in.fetched = w THEN pc[w] + 1
               ELSE pc[w]
  BY <1>2 DEF Edge, PcUnit
<1>8. warp_epoch'[w] = IF pc_redirect_valid /\ head.warp = w THEN ~e ELSE e
  <2>1. warp_epoch' = IF pc_redirect_valid
                      THEN [warp_epoch EXCEPT ![head.warp] = ~@] ELSE warp_epoch
    BY DEF Edge, Epochs
  <2>. QED
    BY <1>2, <2>1 DEF FetchInv
<1>9. pc_redirect_valid => id_commit
  BY DEF pc_redirect_valid, id_exec
<1>10. CASE pc_redirect_valid /\ head.warp = w
  <2>1. \A i \in 1 .. Len(Kept) : ~Current(Kept, i, w, ~e)
    BY <1>2, <1>10, RedirectStrandsAll
  <2>2. \A i \in 1 .. Len(InFlight') : ~Current(InFlight', i, w, ~e)
    <3>1. CASE in.fetched = NoWarp
      BY <1>5, <2>1, <3>1
    <3>2. CASE in.fetched # NoWarp
      <4>. DEFINE x == Entry(in.fetched)
      <4>1. x \in FifoEntries /\ InFlight' = Append(Kept, x)
        BY <1>5, <3>2
      <4>2. x.warp = w => x.epoch # ~e
        BY <1>2 DEF Entry, FetchInv
      <4>. HIDE DEF x
      <4>3. /\ Len(InFlight') = Len(Kept) + 1 /\ Len(Kept) \in Nat
            /\ \A i \in 1 .. Len(Kept) : InFlight'[i] = Kept[i]
            /\ InFlight'[Len(Kept) + 1] = x
        BY <1>4, <4>1, AppendProperties, LenProperties
      <4>4. ASSUME NEW i \in 1 .. Len(Kept) + 1 PROVE ~Current(InFlight', i, w, ~e)
        <5>1. CASE i = Len(Kept) + 1
          BY <4>2, <4>3, <5>1 DEF Current
        <5>2. CASE i # Len(Kept) + 1
          BY <2>1, <4>3, <5>2 DEF Current
        <5>. QED
          BY <5>1, <5>2
      <4>. QED
        BY <4>3, <4>4
    <3>. QED
      BY <3>1, <3>2
  <2>3. isa_pc'[w] = head_inst.target /\ pc'[w] = head_inst.target
        /\ warp_epoch'[w] = ~e
    BY <1>6, <1>7, <1>8, <1>9, <1>10
  <2>. QED
    BY <2>2, <2>3, NoneOrdered
<1>11. CASE ~(pc_redirect_valid /\ head.warp = w)
  <2>1. Ordered(Kept, w, e, isa_pc'[w], pc[w])
    <3>1. CASE id_commit /\ head.warp = w
      <4>1. InFlight # <<>> /\ Kept = Tail(InFlight) /\ Current(InFlight, 1, w, e)
        BY <3>1, CommitIsCurrent
      <4>2. isa_pc'[w] = isa_pc[w] + 1
        BY <1>6, <1>11, <3>1
      <4>. QED
        BY <1>3, <1>4, <4>1, <4>2, PopOrdered
    <3>2. CASE ~(id_commit /\ head.warp = w)
      <4>1. isa_pc'[w] = isa_pc[w]
        BY <1>6, <3>2
      <4>2. CASE fifo_pop
        <5>1. InFlight # <<>> /\ InFlight[1] = head
          BY <4>2, InFlightType DEF fifo_pop
        <5>2. ~Current(InFlight, 1, w, e)
          BY <3>2, <4>2, <5>1 DEF Current, id_commit, id_stale
        <5>. QED
          BY <1>3, <1>4, <4>1, <4>2, <5>1, <5>2, PopOrdered DEF Kept
      <4>3. CASE ~fifo_pop
        BY <1>3, <4>1, <4>3 DEF Kept
      <4>. QED
        BY <4>2, <4>3
    <3>. QED
      BY <3>1, <3>2
  <2>2. warp_epoch'[w] = e /\ pc'[w] = IF in.fetched = w THEN pc[w] + 1 ELSE pc[w]
    BY <1>7, <1>8, <1>11
  <2>3. CASE in.fetched = NoWarp
    BY <1>2, <1>5, <2>1, <2>2, <2>3
  <2>4. CASE in.fetched # NoWarp
    <3>. DEFINE x == Entry(in.fetched)
    <3>1. x \in FifoEntries /\ InFlight' = Append(Kept, x)
      BY <1>5, <2>4
    <3>2. x.warp = in.fetched /\ (x.warp = w => x.epoch = e /\ x.pc = pc[w])
      BY DEF Entry
    <3>. HIDE DEF x
    <3>3. Ordered(Append(Kept, x), w, e, isa_pc'[w],
                  IF x.warp = w THEN pc[w] + 1 ELSE pc[w])
      BY <1>4, <2>1, <3>1, <3>2, PushOrdered
    <3>. QED
      BY <2>2, <3>1, <3>2, <3>3
  <2>. QED
    BY <2>3, <2>4
<1>. QED
  BY <1>10, <1>11

\* The fetches in flight of every warp are its program in order.
THEOREM OrderInvariant == Spec => [](FetchInv /\ OrderInv)
<1>1. Init => FetchInv /\ OrderInv
  BY InitFetch, InitOrder
<1>2. FetchInv /\ OrderInv /\ [Clock]_vars => FetchInv' /\ OrderInv'
  <2>1. CASE Clock
    BY <2>1, EdgeFetch, EdgeOrder DEF Clock
  <2>2. CASE UNCHANGED vars
    <3>1. /\ UNCHANGED <<pc, active, warp_epoch, if_pending, if_tag, imem, fifo, pred>>
          /\ UNCHANGED <<isa_pc, exited>>
      BY <2>2 DEF vars, frontvars
    <3>2. FetchInv => FetchInv'
      BY <3>1 DEF FetchInv, FetchesFit, fifo_full
    <3>3. InFlight' = InFlight
      BY <3>1 DEF InFlight, Owed
    <3>. QED
      BY <3>1, <3>2, <3>3 DEF OrderInv
  <2>. QED
    BY <2>1, <2>2
<1>. QED
  BY <1>1, <1>2, PTL DEF Spec

LEMMA InOrderCommits ==
    ASSUME FetchInv, OrderInv, id_commit, head.warp \notin exited
    PROVE  head.pc = isa_pc[head.warp]
<1>. DEFINE w == head.warp
<1>1. /\ InFlight # <<>> /\ w \in Warps /\ Current(InFlight, 1, w, warp_epoch[w])
      /\ InFlight[1] = head
  BY CommitIsCurrent, InFlightType DEF id_commit, fifo_pop
<1>2. Ordered(InFlight, w, warp_epoch[w], isa_pc[w], pc[w])
  BY <1>1 DEF OrderInv
<1>3. 1 \in 1 .. Len(InFlight) /\ \A k \in 1 .. Len(InFlight) : ~(k < 1)
  BY <1>1, InFlightType, EmptySeq
<1>4. InFlight[1].pc = isa_pc[w]
  BY <1>1, <1>2, <1>3 DEF Ordered
<1>. QED
  BY <1>1, <1>4

\* One epoch bit is enough: until a warp exits, what commits for it is exactly its
\* program in order, however branches resolve while fetches are in flight.
THEOREM ProgramOrderKept == Spec => []CommitsInOrder
<1>1. FetchInv /\ OrderInv => CommitsInOrder
  BY InOrderCommits DEF CommitsInOrder
<1>. QED
  BY <1>1, OrderInvariant, PTL

----------------------------------------------------------------------------
(* Types. *)

\* What the back end and the scoreboard hold.
BackTypes ==
    /\ scoreboard \in [Warps -> SUBSET Regs]
    /\ id \in Stages /\ ex \in Stages /\ mem \in Stages /\ wb \in Stages
    /\ mem_pending \in BOOLEAN
    /\ alu \in [1 .. ALU_STAGES -> Values \union {NoResult}]
    /\ lsu \in [state : {"IDLE", "BUSY", "RESP"}, val : Values]
    /\ resp \in [valid : BOOLEAN, val : Values]
    /\ rf \in [Warps -> [Regs -> Values]]

LEMMA NowType ==
    ASSUME NEW v
    PROVE  /\ v \in Values => Now(v) \in Values
           /\ v \in Values \union {NoResult} => Now(v) \in Values \union {NoResult}
<1>1. CASE v \in {Junk, NoResult} \/ <<v.warp, v.rd>> \notin Redefined
  BY <1>1 DEF Now
<1>2. CASE v \notin {Junk, NoResult} /\ <<v.warp, v.rd>> \in Redefined
  <2>1. Now(v) = [v EXCEPT !.latest = FALSE]
    BY <1>2 DEF Now
  <2>2. v \in Values \union {NoResult} => v \in [warp : Warps, rd : Regs, latest : BOOLEAN]
    BY <1>2 DEF Values
  <2>. QED
    BY <2>1, <2>2 DEF Values
<1>. QED
  BY <1>1, <1>2

LEMMA NoInstType == NoInst \in Stages /\ Junk \in Values
BY DEF NoInst, Stages, Values, Ops

LEMMA InitBack == Init => BackTypes
<1>. SUFFICES ASSUME Init PROVE BackTypes
  OBVIOUS
<1>1. \A w \in Warps, r \in Regs : Latest(w, r) \in Values
  BY DEF Latest, Values
<1>2. rf \in [Warps -> [Regs -> Values]]
  BY <1>1 DEF Init
<1>. QED
  BY <1>2, NoInstType DEF Init, BackTypes

\* The decoded instruction fits the ID register.
LEMMA DecodeType ==
    ASSUME FetchInv, BackTypes, Decode PROVE id' \in Stages
<1>1. CASE ~id_ready
  BY <1>1 DEF Decode, BackTypes
<1>2. CASE id_ready /\ ~(id_exec /\ head_inst.op \in Launching)
  BY <1>2, NoInstType DEF Decode
<1>3. CASE id_ready /\ id_exec /\ head_inst.op \in Launching
  <2>1. head.warp \in Warps /\ head.pc \in Nat
    BY <1>3, InFlightType DEF id_exec, id_commit, fifo_pop, FifoEntries
  <2>2. head_inst \in Insts
    BY <2>1, InstType DEF head_inst
  <2>3. head_inst.op \in Ops /\ head_inst.rd \in Regs \union {R0}
    BY <2>2 DEF Insts
  <2>. DEFINE v == IF head_inst.op \in Writing /\ head_inst.rd # R0
                   THEN Latest(head.warp, head_inst.rd) ELSE Junk
  <2>4. v \in Values
    BY <2>1, <2>3 DEF Values, Latest
  <2>. HIDE DEF v
  <2>5. id' = [valid |-> TRUE, warp |-> head.warp, op |-> head_inst.op,
               rd |-> head_inst.rd, val |-> v]
    BY <1>3 DEF Decode, v
  <2>. QED
    BY <2>1, <2>3, <2>4, <2>5 DEF Stages
<1>. QED
  BY <1>1, <1>2, <1>3

LEMMA EdgeBack ==
    ASSUME FetchInv, BackTypes, NEW in \in Inputs, Edge(in)
    PROVE  BackTypes'
<1>1. id' \in Stages
  BY DecodeType DEF Edge
<1>2. scoreboard' \in [Warps -> SUBSET Regs]
  <2>1. id_valid_out => id.rd \in Regs
    BY DEF id_valid_out, BackTypes, Stages
  <2>. QED
    BY <2>1 DEF Edge, Scoreboard, BackTypes
<1>3. alu' \in [1 .. ALU_STAGES -> Values \union {NoResult}]
  <2>. DEFINE out(s) == IF s > 1 THEN Now(alu[s - 1])
                        ELSE IF ex_launch /\ id.op = "ALU" THEN Now(id.val)
                        ELSE IF ex_launch /\ id.op \in {"LOAD", "STORE"} THEN Junk
                        ELSE NoResult
  <2>1. ASSUME NEW s \in 1 .. ALU_STAGES PROVE out(s) \in Values \union {NoResult}
    <3>1. CASE s > 1
      <4>1. s - 1 \in 1 .. ALU_STAGES
        BY <3>1, PipelineAssumption
      <4>2. alu[s - 1] \in Values \union {NoResult}
        BY <4>1 DEF BackTypes
      <4>. QED
        BY <3>1, <4>2, NowType
    <3>2. CASE ~(s > 1)
      <4>1. id.val \in Values
        BY DEF BackTypes, Stages
      <4>2. Now(id.val) \in Values /\ Junk \in Values
        BY <4>1, NowType, NoInstType
      <4>. QED
        BY <3>2, <4>2
    <3>. QED
      BY <3>1, <3>2
  <2>2. alu' = [s \in 1 .. ALU_STAGES |-> out(s)]
    BY DEF Edge, Alu
  <2>. HIDE DEF out
  <2>. QED
    BY <2>1, <2>2
<1>4. ex' \in Stages /\ mem_pending' \in BOOLEAN
  <2>1. Now(id.val) \in Values /\ Now(ex.val) \in Values
    BY NowType DEF BackTypes, Stages
  <2>2. /\ [id EXCEPT !.val = Now(@)] \in Stages
        /\ [ex EXCEPT !.valid = FALSE, !.val = Now(@)] \in Stages
        /\ [ex EXCEPT !.val = Now(@)] \in Stages
    BY <2>1 DEF BackTypes, Stages
  <2>3. ex' \in Stages
    BY <2>2 DEF Edge, Execute
  <2>4. mem_pending' \in BOOLEAN
    BY DEF Edge, Execute, BackTypes, alu_valid_out, mem_accept
  <2>. QED
    BY <2>3, <2>4
<1>5. /\ lsu' \in [state : {"IDLE", "BUSY", "RESP"}, val : Values]
      /\ resp' \in [valid : BOOLEAN, val : Values]
  <2>1. Now(ex.val) \in Values /\ Now(lsu.val) \in Values /\ Junk \in Values
    BY NowType, NoInstType DEF BackTypes, Stages
  <2>2. lsu \in [state : {"IDLE", "BUSY", "RESP"}, val : Values]
    BY DEF BackTypes
  <2>. QED
    BY <2>1, <2>2 DEF Edge, LoadStore
<1>6. mem' \in Stages
  <2>. DEFINE v == IF alu_valid_out THEN Now(alu[ALU_STAGES]) ELSE Junk
  <2>1. v \in Values
    <3>1. alu[ALU_STAGES] \in Values \union {NoResult}
      BY PipelineAssumption DEF BackTypes
    <3>2. alu_valid_out => alu[ALU_STAGES] \in Values
      BY <3>1 DEF alu_valid_out
    <3>. QED
      BY <3>2, NowType, NoInstType
  <2>. DEFINE taken == [valid |-> ex.valid /\ ex.op \notin {"WMMA", "STORE"},
                        warp |-> ex.warp, op |-> ex.op, rd |-> ex.rd, val |-> v]
  <2>2. taken \in Stages
    <3>. HIDE DEF v
    <3>. QED
      BY <2>1 DEF BackTypes, Stages
  <2>3. [mem EXCEPT !.valid = FALSE, !.val = Junk] \in Stages
    BY NoInstType DEF BackTypes, Stages
  <2>4. \/ mem' = taken
        \/ mem' = [mem EXCEPT !.valid = FALSE, !.val = Junk]
    BY DEF Edge, Memory
  <2>. HIDE DEF taken
  <2>. QED
    BY <2>2, <2>3, <2>4
<1>7. wb' \in Stages
  <2>1. Now(mem.val) \in Values /\ Now(resp.val) \in Values
    BY NowType DEF BackTypes, Stages
  <2>2. /\ [mem EXCEPT !.val = Now(@)] \in Stages
        /\ [mem EXCEPT !.valid = TRUE, !.val = Now(resp.val)] \in Stages
    BY <2>1 DEF BackTypes, Stages
  <2>. QED
    BY <2>2, NoInstType DEF Edge, WriteBack
<1>8. rf' \in [Warps -> [Regs -> Values]]
  <2>1. wb.val \in Values /\ \A w \in Warps, r \in Regs : rf[w][r] \in Values
    BY DEF BackTypes, Stages
  <2>2. \A w \in Warps, r \in Regs : Now(rf[w][r]) \in Values
    BY <2>1, NowType
  <2>3. Now(wb.val) \in Values
    BY <2>1, NowType
  <2>. QED
    BY <2>2, <2>3 DEF Edge, RegisterFile
<1>. QED
  BY <1>1, <1>2, <1>3, <1>4, <1>5, <1>6, <1>7, <1>8 DEF BackTypes

THEOREM BackInvariant == Spec => [](FetchInv /\ OrderInv /\ BackTypes)
<1>1. Init => BackTypes
  BY InitBack
<1>2. FetchInv /\ BackTypes /\ [Clock]_vars => BackTypes'
  <2>1. CASE Clock
    BY <2>1, EdgeBack DEF Clock
  <2>2. CASE UNCHANGED vars
    BY <2>2 DEF vars, frontvars, backvars, BackTypes
  <2>. QED
    BY <2>1, <2>2
<1>. QED
  BY <1>1, <1>2, OrderInvariant, PTL DEF Spec

\* Every register of the SM keeps to its declared width, whatever the program.
THEOREM TypeCorrect == Spec => []TypeOK
<1>1. FetchInv /\ OrderInv /\ BackTypes => TypeOK
  <2>. SUFFICES ASSUME FetchInv, OrderInv, BackTypes PROVE TypeOK
    OBVIOUS
  <2>1. /\ pc \in [Warps -> Nat] /\ warp_epoch \in [Warps -> BOOLEAN]
        /\ if_pending \in BOOLEAN
        /\ if_tag \in [warp : Warps \union {NoWarp}, epoch : BOOLEAN]
        /\ imem \in Seq(Nat) /\ Len(imem) = (IF if_pending THEN 1 ELSE 0)
        /\ fifo \in Seq([warp : Warps, epoch : BOOLEAN, pc : Nat])
    BY Zenon DEF FetchInv, FifoEntries
  <2>2. /\ active \in [Warps -> BOOLEAN] /\ pred \in [Warps -> BOOLEAN]
        /\ isa_pc \in [Warps -> Nat] /\ exited \in SUBSET Warps
    BY DEF OrderInv
  <2>. QED
    BY <2>1, <2>2, Zenon DEF BackTypes, TypeOK
<1>. QED
  BY <1>1, BackInvariant, PTL

----------------------------------------------------------------------------
(* Operands.  The network forwards from MEM and WB, never from the ID register, *)
(* and a store's response is written back: the results below are about programs *)
(* that leave an instruction between a write and its use and do not store, and  *)
(* the runs sm_back_to_back and sm_stores show that neither can be dropped.     *)

\* The instruction in a stage is to write register r of warp w.
Makes(stage, w, r) == Holds(stage, w, r) /\ stage.op \in Writing

\* MEM has the result; of a load it has the destination only.
InMem(w, r) == Holds(mem, w, r) /\ mem.op # "LOAD"

\* What the youngest instruction that writes the register has computed for it.
Youngest(w, r) == IF Makes(id, w, r) THEN id.val
                  ELSE IF Makes(ex, w, r) THEN ex.val
                  ELSE IF InMem(w, r) THEN mem.val
                  ELSE IF Holds(wb, w, r) THEN wb.val
                  ELSE rf[w][r]

\* The integer pipe is empty, or v is in one of its stages.
Idle(pipe) == \A s \in 1 .. ALU_STAGES : pipe[s] = NoResult
Carries(pipe, v) == \E s \in 1 .. ALU_STAGES : \A t \in 1 .. ALU_STAGES :
                     pipe[t] = IF t = s THEN v ELSE NoResult

LsuIdle == ~mem_pending /\ lsu.state = "IDLE" /\ ~resp.valid

\* A load whose address is computed: its request waits, is served, or is answered.
LoadWaits ==
    /\ mem.warp = ex.warp /\ mem.rd = ex.rd /\ mem.op = "LOAD"
    /\ \/ mem_pending /\ lsu.state = "IDLE" /\ ~resp.valid
       \/ ~mem_pending /\ lsu.state \in {"BUSY", "RESP"} /\ lsu.val = ex.val /\ ~resp.valid
       \/ ~mem_pending /\ lsu.state = "IDLE" /\ resp.valid /\ resp.val = ex.val

\* EX works at one operation at a time, and the value it will deliver is in one place.
ExInv ==
    \/ ~ex.valid /\ Idle(alu) /\ LsuIdle
    \/ ex.valid /\ ex.op = "ALU" /\ Carries(alu, ex.val) /\ LsuIdle
    \/ ex.valid /\ ex.op = "WMMA" /\ Idle(alu) /\ LsuIdle
    \/ ex.valid /\ ex.op = "LOAD" /\ Carries(alu, Junk) /\ LsuIdle
    \/ ex.valid /\ ex.op = "LOAD" /\ Idle(alu) /\ LoadWaits

StageInv ==
    /\ id.valid => id.op \in {"ALU", "LOAD", "WMMA"}
    /\ mem.valid => mem.op \in {"ALU", "LOAD"}
    /\ mem.valid /\ mem.op = "LOAD" => ex.valid /\ ex.op = "LOAD"
    /\ ExInv

\* No result is lost or overtaken on its way to the register file.
ResultInv == \A w \in Warps, r \in Regs : Youngest(w, r) = Latest(w, r)

\* The ID register holds the instruction its warp executed last.
LastInv == id.valid /\ id.warp \notin exited =>
              \E p \in Nat : /\ isa_pc[id.warp] = p + 1
                             /\ id.op = Inst(p).op /\ id.rd = Inst(p).rd

\* A scoreboard bit has an instruction on its way that will clear it.
ScoreInv ==
    /\ id.valid => id.op \in Writing
    /\ \A w \in Warps : \A r \in scoreboard[w] :
          \/ Makes(id, w, r) \/ Makes(ex, w, r)
          \/ InMem(w, r) \/ Holds(wb, w, r)

LEMMA HeadType ==
    ASSUME FetchInv, id_commit
    PROVE  /\ head.warp \in Warps /\ head.pc \in Nat
           /\ head_inst = Inst(head.pc) /\ head_inst \in Insts
<1>1. head.warp \in Warps /\ head.pc \in Nat
  BY InFlightType DEF id_commit, fifo_pop, FifoEntries
<1>. QED
  BY <1>1, InstType DEF head_inst

\* Past the program there is padding, which is no store and reads nothing.
LEMMA EveryInst ==
    ASSUME NEW p \in Nat
    PROVE  /\ NoStores => Inst(p).op # "STORE"
           /\ NoWmmas => Inst(p).op # "WMMA"
           /\ Spaced /\ Inst(p).op \in Writing => Inst(p).rd \notin Inst(p + 1).rs
<1>1. CASE p < Len(Program)
  <2>1. p \in 0 .. Len(Program) - 1
    BY <1>1, PipelineAssumption
  <2>. QED
    BY <2>1 DEF NoStores, NoWmmas, Spaced
<1>2. CASE ~(p < Len(Program))
  <2>1. Inst(p) = Padding
    BY <1>2 DEF Inst
  <2>2. Inst(p + 1) = Padding
    BY <1>2, PipelineAssumption DEF Inst
  <2>. QED
    BY <2>1, <2>2 DEF Padding
<1>. QED
  BY <1>1, <1>2

\* The ID register after an edge on which it could move on.
LEMMA Decoded ==
    ASSUME FetchInv, NEW in \in Inputs, Edge(in)
    PROVE  /\ ~id_ready => id' = id /\ ~id_commit
           /\ id_ready => \/ ~id'.valid
                          \/ /\ id_exec /\ head_inst.op \in Launching
                             /\ id'.valid /\ id'.warp = head.warp
                             /\ id'.op = head_inst.op /\ id'.rd = head_inst.rd
                             /\ id'.op \in Writing /\ id'.rd # R0
                                  => id'.val = Latest(id'.warp, id'.rd)
<1>1. Decode
  BY DEF Edge
<1>2. ~id_ready => id' = id /\ ~id_commit
  BY <1>1 DEF Decode, id_commit, fifo_pop
<1>3. CASE id_ready /\ ~(id_exec /\ head_inst.op \in Launching)
  BY <1>1, <1>2, <1>3 DEF Decode, NoInst
<1>4. CASE id_ready /\ id_exec /\ head_inst.op \in Launching
  <2>. DEFINE v == IF head_inst.op \in Writing /\ head_inst.rd # R0
                   THEN Latest(head.warp, head_inst.rd) ELSE Junk
  <2>1. id' = [valid |-> TRUE, warp |-> head.warp, op |-> head_inst.op,
               rd |-> head_inst.rd, val |-> v]
    BY <1>1, <1>4 DEF Decode
  <2>2. head_inst.op \in Writing /\ head_inst.rd # R0
          => v = Latest(head.warp, head_inst.rd)
    OBVIOUS
  <2>. HIDE DEF v
  <2>. QED
    BY <1>2, <1>4, <2>1, <2>2
<1>. QED
  BY <1>2, <1>3, <1>4

\* An operation moves down the integer pipe one stage on each edge.
LEMMA AluStep ==
    ASSUME NEW STATE v, v # NoResult, Now(v) # NoResult, Carries(alu, v), Alu, ~ex_launch
    PROVE  IF alu_valid_out THEN alu[ALU_STAGES] = v /\ Idle(alu') ELSE Carries(alu', Now(v))
<1>1. PICK s \in 1 .. ALU_STAGES :
        \A t \in 1 .. ALU_STAGES : alu[t] = IF t = s THEN v ELSE NoResult
  BY DEF Carries
<1>2. \A t \in 1 .. ALU_STAGES : alu'[t] = IF t > 1 THEN Now(alu[t - 1]) ELSE NoResult
  BY DEF Alu
<1>3. Now(NoResult) = NoResult
  BY DEF Now
<1>4. \A t \in 1 .. ALU_STAGES : t > 1 => t - 1 \in 1 .. ALU_STAGES
  BY PipelineAssumption
<1>5. ALU_STAGES \in 1 .. ALU_STAGES
  BY PipelineAssumption
<1>6. ASSUME NEW t \in 1 .. ALU_STAGES
      PROVE  alu'[t] = IF t = s + 1 THEN Now(v) ELSE NoResult
  <2>1. CASE t > 1
    <3>1. alu'[t] = Now(alu[t - 1]) /\ t - 1 \in 1 .. ALU_STAGES
      BY <1>2, <1>4, <2>1
    <3>2. t - 1 = s <=> t = s + 1
      OBVIOUS
    <3>. QED
      BY <1>1, <1>3, <3>1, <3>2
  <2>2. CASE ~(t > 1)
    BY <1>2, <2>2
  <2>. QED
    BY <2>1, <2>2
<1>7. CASE s = ALU_STAGES
  <2>1. alu[ALU_STAGES] = v /\ alu_valid_out
    BY <1>1, <1>5, <1>7 DEF alu_valid_out
  <2>2. \A t \in 1 .. ALU_STAGES : alu'[t] = NoResult
    BY <1>6, <1>7
  <2>. QED
    BY <2>1, <2>2 DEF Idle
<1>8. CASE s # ALU_STAGES
  <2>1. ~alu_valid_out
    BY <1>1, <1>5, <1>8 DEF alu_valid_out
  <2>2. s + 1 \in 1 .. ALU_STAGES
    BY <1>8, PipelineAssumption
  <2>3. Carries(alu', Now(v))
    BY <1>6, <2>2 DEF Carries
  <2>. QED
    BY <2>1, <2>3
<1>. QED
  BY <1>7, <1>8

\* An idle pipe takes what the instruction in ID launches into it.
LEMMA AluTakes ==
    ASSUME Idle(alu), Alu
    PROVE  /\ ~alu_valid_out
           /\ ~(ex_launch /\ id.op \in {"ALU", "LOAD", "STORE"}) => Idle(alu')
           /\ ex_launch /\ id.op = "ALU" => Carries(alu', Now(id.val))
           /\ ex_launch /\ id.op = "LOAD" => Carries(alu', Junk)
<1>1. ALU_STAGES \in 1 .. ALU_STAGES /\ 1 \in 1 .. ALU_STAGES
  BY PipelineAssumption
<1>2. ~alu_valid_out
  BY <1>1 DEF Idle, alu_valid_out
<1>. DEFINE new == IF ex_launch /\ id.op = "ALU" THEN Now(id.val)
                   ELSE IF ex_launch /\ id.op \in {"LOAD", "STORE"} THEN Junk
                   ELSE NoResult
<1>3. ASSUME NEW t \in 1 .. ALU_STAGES
      PROVE  alu'[t] = IF t = 1 THEN new ELSE NoResult
  <2>1. t > 1 => t - 1 \in 1 .. ALU_STAGES
    BY PipelineAssumption
  <2>2. t > 1 => Now(alu[t - 1]) = NoResult
    BY <2>1 DEF Idle, Now
  <2>3. alu'[t] = IF t > 1 THEN Now(alu[t - 1]) ELSE new
    BY DEF Alu
  <2>. HIDE DEF new
  <2>. QED
    BY <2>2, <2>3
<1>4. ~(ex_launch /\ id.op \in {"ALU", "LOAD", "STORE"}) => Idle(alu')
  BY <1>3 DEF Idle
<1>5. Carries(alu', new)
  <2>. HIDE DEF new
  <2>. QED
    BY <1>1, <1>3 DEF Carries
<1>. QED
  BY <1>2, <1>4, <1>5

\* Outside a memory operation the load/store unit stays idle.
LEMMA LsuStays ==
    ASSUME LsuIdle, NEW in, Execute, LoadStore(in),
           ~(ex.valid /\ ex.op \in {"LOAD", "STORE"} /\ alu_valid_out)
    PROVE  LsuIdle'
<1>1. ~mem_pending /\ lsu.state = "IDLE"
  BY DEF LsuIdle
<1>2. ~mem_pending'
  BY <1>1 DEF Execute
<1>3. lsu' = lsu
  BY <1>1 DEF LoadStore
<1>4. resp' = [valid |-> FALSE, val |-> Junk]
  BY <1>1 DEF LoadStore
<1>. QED
  BY <1>1, <1>2, <1>3, <1>4 DEF LsuIdle

\* A load that waits for memory gets one step closer to its answer.
LEMMA LoadStep ==
    ASSUME NEW in \in Inputs, Edge(in), BackTypes,
           ex.valid, ex.op = "LOAD", Idle(alu), LoadWaits
    PROVE  ExInv' /\ mem'.valid = FALSE
<1>1. /\ ~id_ready /\ ~ex_launch
  BY DEF id_ready, ex_launch
<1>2. ~alu_valid_out /\ Idle(alu')
  BY <1>1, AluTakes DEF Edge
<1>3. /\ mem'.valid = FALSE
      /\ mem'.warp = mem.warp /\ mem'.rd = mem.rd /\ mem'.op = mem.op
  BY <1>2 DEF Edge, Memory, BackTypes, Stages
<1>4. /\ resp.valid => ex' = [ex EXCEPT !.valid = FALSE, !.val = Now(@)]
      /\ ~resp.valid => ex' = [ex EXCEPT !.val = Now(@)]
  BY <1>1 DEF Edge, Execute, ExDone
<1>5. /\ ~resp.valid => /\ ex'.valid /\ ex'.op = "LOAD" /\ ex'.val = Now(ex.val)
                        /\ ex'.warp = ex.warp /\ ex'.rd = ex.rd
      /\ resp.valid => ~ex'.valid
  BY <1>4 DEF BackTypes, Stages
<1>6. mem_pending' = (mem_pending /\ ~mem_accept)
  BY <1>2 DEF Edge, Execute, BackTypes
<1>7. CASE mem_pending /\ lsu.state = "IDLE" /\ ~resp.valid
  <2>1. ~mem_pending'
    BY <1>6, <1>7 DEF mem_accept
  <2>2. lsu' = [state |-> "BUSY", val |-> Now(ex.val)]
    BY <1>7 DEF Edge, LoadStore
  <2>3. ~resp'.valid
    BY <1>7 DEF Edge, LoadStore
  <2>4. LoadWaits'
    BY <1>3, <1>5, <1>7, <2>1, <2>2, <2>3 DEF LoadWaits
  <2>. QED
    BY <1>2, <1>3, <1>5, <1>7, <2>4 DEF ExInv
<1>8. CASE ~mem_pending /\ lsu.state = "BUSY" /\ lsu.val = ex.val /\ ~resp.valid
  <2>1. ~mem_pending'
    BY <1>6, <1>8
  <2>2. lsu' = [state |-> IF in.served THEN "RESP" ELSE "BUSY", val |-> Now(lsu.val)]
    BY <1>8 DEF Edge, LoadStore
  <2>3. ~resp'.valid
    BY <1>8 DEF Edge, LoadStore
  <2>4. LoadWaits'
    BY <1>3, <1>5, <1>8, <2>1, <2>2, <2>3 DEF LoadWaits
  <2>. QED
    BY <1>2, <1>3, <1>5, <1>8, <2>4 DEF ExInv
<1>9. CASE ~mem_pending /\ lsu.state = "RESP" /\ lsu.val = ex.val /\ ~resp.valid
  <2>1. ~mem_pending'
    BY <1>6, <1>9
  <2>2. lsu' = [state |-> "IDLE", val |-> Junk]
    BY <1>9 DEF Edge, LoadStore
  <2>3. resp' = [valid |-> TRUE, val |-> Now(lsu.val)]
    BY <1>9 DEF Edge, LoadStore
  <2>4. LoadWaits'
    BY <1>3, <1>5, <1>9, <2>1, <2>2, <2>3 DEF LoadWaits
  <2>. QED
    BY <1>2, <1>3, <1>5, <1>9, <2>4 DEF ExInv
<1>10. CASE ~mem_pending /\ lsu.state = "IDLE" /\ resp.valid
  <2>1. ~mem_pending' /\ ~ex'.valid
    BY <1>5, <1>6, <1>10
  <2>2. lsu' = lsu
    BY <1>10 DEF Edge, LoadStore
  <2>3. ~resp'.valid
    BY <1>10 DEF Edge, LoadStore
  <2>. QED
    BY <1>2, <1>3, <1>10, <2>1, <2>2, <2>3 DEF ExInv, LsuIdle
<1>. QED
  BY <1>7, <1>8, <1>9, <1>10 DEF LoadWaits

LEMMA EdgeEx ==
    ASSUME FetchInv, BackTypes, StageInv, NEW in \in Inputs, Edge(in)
    PROVE  ExInv' /\ (mem'.valid /\ mem'.op = "LOAD" => ex'.valid /\ ex'.op = "LOAD")
<1>1. Alu /\ Execute /\ LoadStore(in.served) /\ Memory
  BY DEF Edge
<1>2. /\ ex.val \in Values /\ id.val \in Values /\ Junk \in Values
      /\ ex.val # NoResult /\ Now(ex.val) # NoResult /\ Junk # NoResult /\ Now(Junk) = Junk
  <2>1. ex.val \in Values /\ id.val \in Values /\ Junk \in Values
    BY NoInstType DEF BackTypes, Stages
  <2>2. Now(ex.val) \in Values /\ Now(Junk) = Junk
    BY <2>1, NowType DEF Now
  <2>. QED
    BY <2>1, <2>2, PipelineAssumption
<1>3. ex \in Stages /\ id \in Stages /\ mem \in Stages
  BY DEF BackTypes
<1>4. CASE ~ex.valid /\ Idle(alu) /\ LsuIdle
  <2>1. ~alu_valid_out /\ LsuIdle'
    BY <1>1, <1>4, AluTakes, LsuStays
  <2>2. ~mem'.valid
    BY <1>1, <1>3, <1>4, <2>1 DEF Memory, Stages
  <2>3. CASE ex_launch
    <3>1. ex' = [id EXCEPT !.val = Now(@)]
      BY <1>1, <2>3 DEF Execute
    <3>2. ex'.valid /\ ex'.op = id.op /\ ex'.val = Now(id.val) /\ id.op \in {"ALU", "LOAD", "WMMA"}
      BY <1>3, <2>3, <3>1 DEF Stages, StageInv, ex_launch
    <3>3. /\ id.op = "ALU" => Carries(alu', ex'.val)
          /\ id.op = "LOAD" => Carries(alu', Junk)
          /\ id.op = "WMMA" => Idle(alu')
      BY <1>1, <1>4, <2>3, <3>2, AluTakes
    <3>. QED
      BY <2>1, <2>2, <3>2, <3>3 DEF ExInv
  <2>4. CASE ~ex_launch
    <3>1. ex' = [ex EXCEPT !.val = Now(@)]
      BY <1>1, <1>4, <2>4 DEF Execute
    <3>2. ~ex'.valid
      BY <1>3, <1>4, <3>1 DEF Stages
    <3>3. Idle(alu')
      BY <1>1, <1>4, <2>4, AluTakes
    <3>. QED
      BY <2>1, <2>2, <3>2, <3>3 DEF ExInv
  <2>. QED
    BY <2>3, <2>4
<1>5. ex.valid => ~ex_launch
  BY DEF ex_launch, id_ready
<1>6. CASE ex.valid /\ ex.op = "ALU" /\ Carries(alu, ex.val) /\ LsuIdle
  <2>1. LsuIdle'
    BY <1>1, <1>6, LsuStays
  <2>2. mem'.valid => mem'.op # "LOAD"
    BY <1>1, <1>3, <1>6 DEF Memory, Stages
  <2>3. IF alu_valid_out THEN Idle(alu') ELSE Carries(alu', Now(ex.val))
    BY <1>1, <1>2, <1>5, <1>6, AluStep
  <2>4. IF alu_valid_out THEN ~ex'.valid
        ELSE ex'.valid /\ ex'.op = "ALU" /\ ex'.val = Now(ex.val)
    BY <1>1, <1>3, <1>5, <1>6 DEF Execute, ExDone, Stages
  <2>. QED
    BY <2>1, <2>2, <2>3, <2>4 DEF ExInv
<1>7. CASE ex.valid /\ ex.op = "WMMA" /\ Idle(alu) /\ LsuIdle
  <2>1. LsuIdle' /\ Idle(alu')
    BY <1>1, <1>5, <1>7, LsuStays, AluTakes
  <2>2. ~mem'.valid
    BY <1>1, <1>7 DEF Memory
  <2>3. ~ex'.valid
    BY <1>1, <1>3, <1>5, <1>7 DEF Execute, ExDone, Stages
  <2>. QED
    BY <2>1, <2>2, <2>3 DEF ExInv
<1>8. CASE ex.valid /\ ex.op = "LOAD" /\ Carries(alu, Junk) /\ LsuIdle
  <2>1. /\ ex'.valid /\ ex'.op = "LOAD"
        /\ ex'.warp = ex.warp /\ ex'.rd = ex.rd
    BY <1>1, <1>3, <1>5, <1>8 DEF Execute, ExDone, Stages, LsuIdle
  <2>2. IF alu_valid_out THEN Idle(alu') ELSE Carries(alu', Junk)
    BY <1>1, <1>2, <1>5, <1>8, AluStep
  <2>3. CASE ~alu_valid_out
    <3>1. LsuIdle'
      BY <1>1, <1>8, <2>3, LsuStays
    <3>. QED
      BY <2>1, <2>2, <2>3, <3>1 DEF ExInv
  <2>4. CASE alu_valid_out
    <3>1. mem'.warp = ex.warp /\ mem'.rd = ex.rd /\ mem'.op = "LOAD"
      BY <1>1, <1>8, <2>4 DEF Memory
    <3>2. mem_pending'
      BY <1>1, <1>8, <2>4 DEF Execute, LsuIdle, mem_accept
    <3>3. lsu' = lsu /\ resp' = [valid |-> FALSE, val |-> Junk]
      BY <1>1, <1>8 DEF LoadStore, LsuIdle
    <3>4. LoadWaits'
      BY <1>8, <2>1, <3>1, <3>2, <3>3 DEF LoadWaits, LsuIdle
    <3>. QED
      BY <2>1, <2>2, <2>4, <3>4 DEF ExInv
  <2>. QED
    BY <2>3, <2>4
<1>9. CASE ex.valid /\ ex.op = "LOAD" /\ Idle(alu) /\ LoadWaits
  BY <1>9, LoadStep
<1>. QED
  BY <1>4, <1>6, <1>7, <1>8, <1>9 DEF StageInv, ExInv

LEMMA EdgeStage ==
    ASSUME NoStores, FetchInv, BackTypes, StageInv, NEW in \in Inputs, Edge(in)
    PROVE  StageInv'
<1>1. ExInv' /\ (mem'.valid /\ mem'.op = "LOAD" => ex'.valid /\ ex'.op = "LOAD")
  BY EdgeEx
<1>2. id'.valid => id'.op \in {"ALU", "LOAD", "WMMA"}
  <2>1. id_exec => head_inst.op # "STORE"
    BY HeadType, EveryInst DEF id_exec
  <2>. QED
    BY <2>1, Decoded DEF StageInv, Launching
<1>3. mem'.valid => mem'.op \in {"ALU", "LOAD"}
  <2>1. ex.valid => ex.op \in {"ALU", "LOAD", "WMMA"}
    BY DEF StageInv, ExInv
  <2>. QED
    BY <2>1 DEF Edge, Memory, BackTypes, Stages
<1>. QED
  BY <1>1, <1>2, <1>3 DEF StageInv

\* Where the instruction that writes a register goes on an edge, and its value.
LEMMA WriterMoves ==
    ASSUME BackTypes, StageInv, FetchInv, NEW in \in Inputs, Edge(in),
           NEW w \in Warps, NEW r \in Regs
    PROVE  /\ Makes(id, w, r) /\ id_ready => Makes(ex', w, r) /\ ex'.val = Now(id.val)
           /\ Makes(ex, w, r) =>
                \/ Makes(ex', w, r) /\ ex'.val = Now(ex.val)
                \/ ~ex'.valid /\ InMem(w, r)' /\ mem'.val = Now(ex.val)
                \/ /\ ~ex'.valid /\ ~mem'.valid
                   /\ Holds(wb', w, r) /\ wb'.val = Now(ex.val)
           /\ InMem(w, r) => Holds(wb', w, r) /\ wb'.val = Now(mem.val)
<1>1. Alu /\ Execute /\ Memory /\ WriteBack
  BY DEF Edge
<1>2. ex \in Stages /\ id \in Stages /\ mem \in Stages
  BY DEF BackTypes
<1>3. ASSUME Makes(id, w, r), id_ready
      PROVE  Makes(ex', w, r) /\ ex'.val = Now(id.val)
  <2>1. ex' = [id EXCEPT !.val = Now(@)]
    BY <1>1, <1>3 DEF Execute, ex_launch, Makes, Holds
  <2>. QED
    BY <1>2, <1>3, <2>1 DEF Makes, Holds, Stages
<1>4. InMem(w, r) => Holds(wb', w, r) /\ wb'.val = Now(mem.val)
  BY <1>1, <1>2 DEF InMem, Holds, WriteBack, Stages
<1>5. ASSUME Makes(ex, w, r)
      PROVE  \/ Makes(ex', w, r) /\ ex'.val = Now(ex.val)
             \/ ~ex'.valid /\ InMem(w, r)' /\ mem'.val = Now(ex.val)
             \/ /\ ~ex'.valid /\ ~mem'.valid
                /\ Holds(wb', w, r) /\ wb'.val = Now(ex.val)
  <2>1. ex.valid /\ ex.warp = w /\ ex.rd = r /\ ~ex_launch
    BY <1>5 DEF Makes, Holds, ex_launch, id_ready
  <2>2. ~ExDone => Makes(ex', w, r) /\ ex'.val = Now(ex.val)
    <3>1. ~ExDone => ex' = [ex EXCEPT !.val = Now(@)]
      BY <1>1, <2>1 DEF Execute
    <3>. QED
      BY <1>2, <1>5, <3>1 DEF Makes, Holds, Stages
  <2>3. ExDone => ~ex'.valid
    BY <1>1, <1>2, <2>1 DEF Execute, Stages
  <2>4. CASE ex.op = "ALU" /\ Carries(alu, ex.val)
    <3>1. ExDone <=> alu_valid_out
      BY <2>4 DEF ExDone
    <3>2. ASSUME alu_valid_out PROVE alu[ALU_STAGES] = ex.val
      <4>1. ALU_STAGES \in 1 .. ALU_STAGES
        BY PipelineAssumption
      <4>. QED
        BY <2>4, <3>2, <4>1 DEF Carries, alu_valid_out
    <3>3. alu_valid_out =>
            mem' = [valid |-> ex.valid /\ ex.op \notin {"WMMA", "STORE"},
                    warp |-> ex.warp, op |-> ex.op, rd |-> ex.rd, val |-> Now(ex.val)]
      BY <1>1, <3>2 DEF Memory
    <3>4. alu_valid_out => InMem(w, r)' /\ mem'.val = Now(ex.val)
      BY <1>2, <2>1, <2>4, <3>3 DEF InMem, Holds, Stages
    <3>. QED
      BY <2>2, <2>3, <3>1, <3>4
  <2>5. CASE ex.op = "LOAD" /\ Carries(alu, Junk) /\ LsuIdle
    BY <2>2, <2>5 DEF ExDone, LsuIdle
  <2>6. CASE ex.op = "LOAD" /\ Idle(alu) /\ LoadWaits
    <3>1. CASE ~resp.valid
      BY <2>2, <2>6, <3>1 DEF ExDone
    <3>2. CASE resp.valid
      <4>1. ExDone /\ mem.op = "LOAD" /\ mem.warp = w /\ mem.rd = r /\ resp.val = ex.val
        BY <2>1, <2>6, <3>2 DEF ExDone, LoadWaits
      <4>2. wb' = [mem EXCEPT !.valid = TRUE, !.val = Now(resp.val)]
        BY <1>1, <3>2, <4>1 DEF WriteBack
      <4>3. ~mem'.valid
        BY <2>1, <2>6, LoadStep
      <4>. QED
        BY <1>2, <2>3, <4>1, <4>2, <4>3 DEF Holds, Stages
    <3>. QED
      BY <3>1, <3>2
  <2>. QED
    BY <1>5, <2>4, <2>5, <2>6 DEF StageInv, ExInv, Makes, Holds, Writing
<1>. QED
  BY <1>3, <1>4, <1>5

\* No stage holds a result for a register that no earlier stage was working on.
LEMMA WritersComeFrom ==
    ASSUME BackTypes, StageInv, FetchInv, NEW in \in Inputs, Edge(in),
           NEW w \in Warps, NEW r \in Regs
    PROVE  /\ Makes(id', w, r) =>
                \/ Makes(id, w, r) /\ ~id_ready
                \/ <<w, r>> \in Redefined /\ id'.val = Latest(w, r)
           /\ Makes(ex', w, r) => Makes(id, w, r) \/ Makes(ex, w, r)
           /\ InMem(w, r)' => Makes(ex, w, r)
           /\ Holds(wb', w, r) => InMem(w, r) \/ Makes(ex, w, r)
<1>1. Alu /\ Execute /\ Memory /\ WriteBack
  BY DEF Edge
<1>2. ex \in Stages /\ id \in Stages /\ mem \in Stages
  BY DEF BackTypes
<1>3. ASSUME Makes(id', w, r)
      PROVE  \/ Makes(id, w, r) /\ ~id_ready
             \/ <<w, r>> \in Redefined /\ id'.val = Latest(w, r)
  <2>1. CASE ~id_ready
    BY <1>3, <2>1, Decoded
  <2>2. CASE id_ready
    <3>1. /\ id_exec /\ id'.warp = head.warp
          /\ id'.op = head_inst.op /\ id'.rd = head_inst.rd
          /\ id'.op \in Writing /\ id'.rd # R0 => id'.val = Latest(id'.warp, id'.rd)
      BY <1>3, <2>2, Decoded DEF Makes, Holds
    <3>2. id'.op \in Writing /\ id'.warp = w /\ id'.rd = r /\ r # R0
      BY <1>3, PipelineAssumption DEF Makes, Holds
    <3>. QED
      BY <3>1, <3>2 DEF Redefined
  <2>. QED
    BY <2>1, <2>2
<1>4. Makes(ex', w, r) => Makes(id, w, r) \/ Makes(ex, w, r)
  BY <1>1, <1>2 DEF Execute, ex_launch, Makes, Holds, Stages
<1>5. InMem(w, r)' => Makes(ex, w, r)
  <2>1. ex.valid => ex.op \in {"ALU", "LOAD", "WMMA"}
    BY DEF StageInv, ExInv
  <2>. QED
    BY <1>1, <1>2, <2>1 DEF Memory, InMem, Makes, Holds, Writing, Stages
<1>6. Holds(wb', w, r) => InMem(w, r) \/ Makes(ex, w, r)
  <2>1. resp.valid => ex.valid /\ ex.op = "LOAD" /\ mem.warp = ex.warp /\ mem.rd = ex.rd
    BY DEF StageInv, ExInv, LsuIdle, LoadWaits
  <2>. QED
    BY <1>1, <1>2, <2>1 DEF WriteBack, NoInst, InMem, Makes, Holds, Writing, Stages
<1>. QED
  BY <1>3, <1>4, <1>5, <1>6

LEMMA EdgeResult ==
    ASSUME FetchInv, BackTypes, StageInv, ResultInv, NEW in \in Inputs, Edge(in)
    PROVE  ResultInv'
<1>. SUFFICES ASSUME NEW w \in Warps, NEW r \in Regs
              PROVE  Youngest(w, r)' = Latest(w, r)
  BY DEF ResultInv, Latest
<1>1. Youngest(w, r) = Latest(w, r)
  BY DEF ResultInv
<1>2. id_ready => ~ex.valid
  BY DEF id_ready
<1>3. ~id_ready => id' = id
  BY Decoded
<1>4. CASE <<w, r>> \in Redefined
  <2>1. /\ id_exec /\ head_inst.op \in Writing
        /\ head.warp = w /\ head_inst.rd = r
    BY <1>4 DEF Redefined
  <2>2. id_ready /\ head_inst.op \in Launching
    BY <2>1 DEF id_exec, id_commit, fifo_pop, Writing, Launching
  <2>3. Decode
    BY DEF Edge
  <2>4. r # R0
    BY PipelineAssumption
  <2>5. id' = [valid |-> TRUE, warp |-> w, op |-> head_inst.op, rd |-> r,
               val |-> Latest(w, r)]
    BY <2>1, <2>2, <2>3, <2>4 DEF Decode
  <2>6. Makes(id', w, r) /\ id'.val = Latest(w, r)
    BY <2>1, <2>5 DEF Makes, Holds
  <2>. QED
    BY <2>6 DEF Youngest
<1>5. CASE <<w, r>> \notin Redefined
  <2>1. \A v : v = Latest(w, r) => Now(v) = Latest(w, r)
    BY <1>5 DEF Now, Latest
  <2>2. /\ Makes(id', w, r) => Makes(id, w, r) /\ ~id_ready
        /\ Makes(ex', w, r) => Makes(id, w, r) \/ Makes(ex, w, r)
        /\ InMem(w, r)' => Makes(ex, w, r)
        /\ Holds(wb', w, r) => InMem(w, r) \/ Makes(ex, w, r)
    BY <1>5, WritersComeFrom
  <2>3. CASE Makes(id, w, r)
    <3>1. id.val = Latest(w, r)
      BY <1>1, <2>3 DEF Youngest
    <3>2. CASE id_ready
      <4>1. Makes(ex', w, r) /\ ex'.val = Now(id.val) /\ ~Makes(id', w, r)
        BY <2>2, <2>3, <3>2, WriterMoves
      <4>. QED
        BY <2>1, <3>1, <4>1 DEF Youngest
    <3>3. CASE ~id_ready
      BY <1>3, <2>3, <3>1, <3>3 DEF Youngest
    <3>. QED
      BY <3>2, <3>3
  <2>4. CASE ~Makes(id, w, r) /\ Makes(ex, w, r)
    <3>1. ex.val = Latest(w, r) /\ Now(ex.val) = Latest(w, r)
      BY <1>1, <2>1, <2>4 DEF Youngest
    <3>2. ~Makes(id', w, r)
      BY <2>2, <2>4
    <3>3. \/ Makes(ex', w, r) /\ ex'.val = Latest(w, r)
          \/ ~ex'.valid /\ InMem(w, r)' /\ mem'.val = Latest(w, r)
          \/ ~ex'.valid /\ ~mem'.valid /\ Holds(wb', w, r) /\ wb'.val = Latest(w, r)
      BY <2>4, <3>1, WriterMoves
    <3>. QED
      BY <3>2, <3>3 DEF Youngest, Makes, InMem, Holds
  <2>5. CASE ~Makes(id, w, r) /\ ~Makes(ex, w, r) /\ InMem(w, r)
    <3>1. mem.val = Latest(w, r) /\ Now(mem.val) = Latest(w, r)
      BY <1>1, <2>1, <2>5 DEF Youngest
    <3>2. ~Makes(id', w, r) /\ ~Makes(ex', w, r) /\ ~InMem(w, r)'
      BY <2>2, <2>5
    <3>3. Holds(wb', w, r) /\ wb'.val = Latest(w, r)
      BY <2>5, <3>1, WriterMoves
    <3>. QED
      BY <3>2, <3>3 DEF Youngest
  <2>6. CASE ~Makes(id, w, r) /\ ~Makes(ex, w, r) /\ ~InMem(w, r)
    <3>1. (IF Holds(wb, w, r) THEN wb.val ELSE rf[w][r]) = Latest(w, r)
      BY <1>1, <2>6 DEF Youngest
    <3>2. rf'[w][r] = IF Holds(wb, w, r) THEN Now(wb.val) ELSE Now(rf[w][r])
      BY DEF Edge, RegisterFile
    <3>3. rf'[w][r] = Latest(w, r)
      BY <2>1, <3>1, <3>2
    <3>4. /\ ~Makes(id', w, r) /\ ~Makes(ex', w, r) /\ ~InMem(w, r)'
          /\ ~Holds(wb', w, r)
      BY <2>2, <2>6
    <3>. QED
      BY <3>3, <3>4 DEF Youngest
  <2>. QED
    BY <2>3, <2>4, <2>5, <2>6
<1>. QED
  BY <1>4, <1>5

LEMMA EdgeScore ==
    ASSUME NoStores, NoWmmas, FetchInv, BackTypes, StageInv, ScoreInv,
           NEW in \in Inputs, Edge(in)
    PROVE  ScoreInv'
<1>1. id'.valid => id'.op \in Writing
  <2>1. id_exec => head_inst.op # "STORE" /\ head_inst.op # "WMMA"
    BY HeadType, EveryInst DEF id_exec
  <2>. QED
    BY <2>1, Decoded DEF ScoreInv, Launching, Writing
<1>. SUFFICES ASSUME NEW w \in Warps, NEW r \in scoreboard'[w]
              PROVE  \/ Makes(id', w, r) \/ Makes(ex', w, r)
                     \/ InMem(w, r)' \/ Holds(wb', w, r)
  BY <1>1 DEF ScoreInv, Makes, Holds
<1>2. r \in Regs
  BY EdgeBack DEF BackTypes
<1>3. /\ ~id_ready => id' = id
      /\ Makes(id, w, r) /\ id_ready => Makes(ex', w, r)
      /\ Makes(ex, w, r) => Makes(ex', w, r) \/ InMem(w, r)' \/ Holds(wb', w, r)
      /\ InMem(w, r) => Holds(wb', w, r)
  BY <1>2, Decoded, WriterMoves
<1>4. \/ r \in scoreboard[w] /\ ~Holds(wb, w, r)
      \/ id.valid /\ id.warp = w /\ id.rd = r
  BY DEF Edge, Scoreboard, Holds, id_valid_out
<1>5. Makes(id, w, r) \/ Makes(ex, w, r) \/ InMem(w, r)
  BY <1>4 DEF ScoreInv, Makes, Holds
<1>. QED
  BY <1>3, <1>5

LEMMA EdgeLast ==
    ASSUME FetchInv, OrderInv, BackTypes, LastInv, NEW in \in Inputs, Edge(in)
    PROVE  LastInv'
<1>. SUFFICES ASSUME id'.valid, id'.warp \notin exited'
              PROVE  \E p \in Nat : /\ isa_pc'[id'.warp] = p + 1
                                    /\ id'.op = Inst(p).op /\ id'.rd = Inst(p).rd
  BY DEF LastInv
<1>. DEFINE w == id'.warp
<1>1. exited \subseteq exited'
  BY EdgeHistory
<1>2. CASE ~id_ready
  <2>1. id' = id /\ ~id_commit
    BY <1>2, Decoded
  <2>2. isa_pc' = isa_pc
    BY <2>1 DEF Edge, ProgramOrder
  <2>. QED
    BY <1>1, <2>1, <2>2 DEF LastInv
<1>3. CASE id_ready
  <2>1. /\ id_exec /\ head_inst.op \in Launching /\ w = head.warp
        /\ id'.op = head_inst.op /\ id'.rd = head_inst.rd
    BY <1>3, Decoded
  <2>2. id_commit /\ ~pc_redirect_valid
    BY <2>1 DEF id_exec, pc_redirect_valid, Launching
  <2>3. w \in Warps \ exited
    BY <1>1, <2>1, <2>2, HeadType
  <2>4. isa_pc'[w] = isa_pc[w] + 1
    BY <2>1, <2>2, <2>3, EdgeHistory
  <2>5. head.pc = isa_pc[w] /\ head.pc \in Nat /\ head_inst = Inst(head.pc)
    BY <2>1, <2>2, <2>3, HeadType, InOrderCommits
  <2>6. /\ isa_pc'[w] = head.pc + 1
        /\ id'.op = Inst(head.pc).op /\ id'.rd = Inst(head.pc).rd
    BY <2>1, <2>4, <2>5
  <2>. QED
    BY <2>5, <2>6
<1>. QED
  BY <1>2, <1>3

LEMMA InitResult == Init => StageInv /\ ResultInv /\ LastInv /\ ScoreInv
<1>. SUFFICES ASSUME Init PROVE StageInv /\ ResultInv /\ LastInv /\ ScoreInv
  OBVIOUS
<1>1. ~id.valid /\ ~ex.valid /\ ~mem.valid /\ ~wb.valid
  BY DEF Init, NoInst
<1>2. Idle(alu) /\ LsuIdle
  BY DEF Init, Idle, LsuIdle
<1>3. StageInv
  BY <1>1, <1>2 DEF StageInv, ExInv
<1>4. ResultInv
  BY <1>1 DEF Init, ResultInv, Youngest, Makes, InMem, Holds
<1>5. LastInv
  BY <1>1 DEF LastInv
<1>6. ScoreInv
  BY <1>1 DEF Init, ScoreInv
<1>. QED
  BY <1>3, <1>4, <1>5, <1>6

\* A program that does not store delivers every result to its register: there is one
\* operation in EX at a time, its value is in one place, and no younger result of a
\* register is overtaken by an older one.
THEOREM ResultInvariant ==
    ASSUME NoStores
    PROVE  Spec => [](FetchInv /\ OrderInv /\ BackTypes /\ StageInv /\ ResultInv /\ LastInv)
<1>1. Init => StageInv /\ ResultInv /\ LastInv
  BY InitResult
<1>2. FetchInv /\ OrderInv /\ BackTypes /\ StageInv /\ ResultInv /\ LastInv /\ [Clock]_vars
        => StageInv' /\ ResultInv' /\ LastInv'
  <2>. SUFFICES ASSUME FetchInv, OrderInv, BackTypes, StageInv, ResultInv, LastInv,
                       [Clock]_vars
                PROVE  StageInv' /\ ResultInv' /\ LastInv'
    OBVIOUS
  <2>1. CASE Clock
    BY <2>1, EdgeStage, EdgeResult, EdgeLast DEF Clock
  <2>2. CASE UNCHANGED vars
    <3>1. UNCHANGED <<id, ex, mem_pending, alu, lsu, resp, mem, wb, rf, isa_pc, exited>>
      BY <2>2 DEF vars, backvars
    <3>2. StageInv'
      BY <3>1 DEF StageInv, ExInv, Idle, Carries, LsuIdle, LoadWaits
    <3>3. ResultInv' /\ LastInv'
      BY <3>1 DEF ResultInv, Youngest, Makes, InMem, Holds, LastInv
    <3>. QED
      BY <3>2, <3>3
  <2>. QED
    BY <2>1, <2>2
<1>. QED
  BY <1>1, <1>2, BackInvariant, PTL DEF Spec

\* Of a program that does not store, and in which no instruction reads what the one
\* before it writes, every operand is the latest value of its register.
THEOREM OperandsCorrect ==
    ASSUME NoStores, Spaced
    PROVE  Spec => []OperandsAreLatest
<1>1. FetchInv /\ OrderInv /\ BackTypes /\ StageInv /\ ResultInv /\ LastInv
        => OperandsAreLatest
  <2>. SUFFICES ASSUME FetchInv, OrderInv, BackTypes, StageInv, ResultInv, LastInv,
                       id_exec, head.warp \notin exited, NEW r \in Sources
                PROVE  Operand(head.warp, r) = Latest(head.warp, r)
    BY DEF OperandsAreLatest
  <2>. DEFINE w == head.warp
  <2>1. /\ id_commit /\ w \in Warps /\ head.pc \in Nat
        /\ head_inst = Inst(head.pc) /\ head_inst \in Insts
    BY HeadType DEF id_exec
  <2>2. r \in head_inst.rs /\ r \in Regs
    BY <2>1, EveryInst DEF Sources, Insts
  <2>3. ~ex.valid
    BY <2>1 DEF id_commit, fifo_pop, id_ready
  <2>4. ~Makes(id, w, r)
    <3>1. SUFFICES ASSUME Makes(id, w, r) PROVE FALSE
      OBVIOUS
    <3>2. PICK p \in Nat : /\ isa_pc[w] = p + 1
                           /\ id.op = Inst(p).op /\ id.rd = Inst(p).rd
      BY <3>1 DEF LastInv, Makes, Holds
    <3>3. head.pc = p + 1
      BY <2>1, <3>2, InOrderCommits
    <3>4. r \notin Inst(p + 1).rs
      BY <3>1, <3>2, EveryInst DEF Makes, Holds
    <3>. QED
      BY <2>1, <2>2, <3>3, <3>4
  <2>5. Holds(mem, w, r) => InMem(w, r)
    BY <2>3 DEF StageInv, InMem, Holds
  <2>6. Youngest(w, r) = Latest(w, r)
    BY <2>1, <2>2 DEF ResultInv
  <2>. QED
    BY <2>3, <2>4, <2>5, <2>6 DEF Youngest, Operand, InMem, Makes, Holds
<1>. QED
  BY <1>1, ResultInvariant, PTL

\* Of a program that neither stores nor multiplies matrices, a pipeline that has
\* drained leaves the architectural state in the register file and no scoreboard bit.
THEOREM DrainsCorrect ==
    ASSUME NoStores, NoWmmas
    PROVE  Spec => []DrainsClean
<1>1. Init => ScoreInv
  BY InitResult
<1>2. FetchInv /\ BackTypes /\ StageInv /\ ScoreInv /\ [Clock]_vars => ScoreInv'
  <2>1. CASE Clock
    BY <2>1, EdgeScore DEF Clock
  <2>2. CASE UNCHANGED vars
    BY <2>2 DEF vars, frontvars, backvars, ScoreInv, Makes, InMem, Holds
  <2>. QED
    BY <2>1, <2>2
<1>3. BackTypes /\ ResultInv /\ ScoreInv => DrainsClean
  <2>. SUFFICES ASSUME BackTypes, ResultInv, ScoreInv, Quiet,
                       NEW w \in Warps, NEW r \in Regs
                PROVE  rf[w][r] = Latest(w, r) /\ r \notin scoreboard[w]
    BY DEF DrainsClean
  <2>1. ~id.valid /\ ~ex.valid /\ ~mem.valid /\ ~wb.valid
    BY DEF Quiet
  <2>2. Youngest(w, r) = Latest(w, r)
    BY DEF ResultInv
  <2>3. rf[w][r] = Latest(w, r)
    BY <2>1, <2>2 DEF Youngest, Makes, InMem, Holds
  <2>4. r \notin scoreboard[w]
    BY <2>1 DEF ScoreInv, Makes, InMem, Holds
  <2>. QED
    BY <2>3, <2>4
<1>. QED
  BY <1>1, <1>2, <1>3, ResultInvariant, PTL DEF Spec

=============================================================================
