--------------------------- MODULE MCCoherentBus ---------------------------
(***************************************************************************)
(* Small instances of CoherentBus.  The lines of an instance are model     *)
(* values; line a and line b compete for the frames of set 0.              *)
(***************************************************************************)
EXTENDS CoherentBus, TLC

\* Every line maps to set 0, so that lines evict each other.
AllInSetZero == [l \in Lines |-> 0]

\* Any program on every core.
AnyWorkload == [i \in Masters |-> CoreReqs]

\* Master 0 writes a line and evicts it for another while master 1 takes it to read or
\* write it and the others read what is there.
ContestedLine == CHOOSE l \in Lines : TRUE
SomeData == CHOOSE d \in LineData : TRUE

EvictRace ==
    [i \in Masters |->
        CASE i = 0 -> {r \in CoreReqs : IF r.write THEN /\ r.line = ContestedLine
                                                       /\ r.wdata = SomeData
                                                  ELSE r.line # ContestedLine}
          [] i = 1 -> {r \in CoreReqs : r.line = ContestedLine}
          [] OTHER -> {r \in CoreReads : r.line = ContestedLine}]

\* False sharing: each core stores to a byte of its own of the contested line and
\* reads every line.
OwnByte == CHOOSE f \in [Masters -> Bytes] :
               \A i, j \in Masters : i # j => f[i] # f[j]

FalseSharing ==
    [i \in Masters |->
        CoreReads \union {r \in CoreWrites : /\ r.line = ContestedLine
                                           /\ r.be = {OwnByte[i]}
                                           /\ \A b \in Bytes \ r.be : r.wdata[b] = SomeData[b]}]

\* Lines that compete for the same frames are interchangeable.
LineSymmetry == Permutations(Lines)
=============================================================================
