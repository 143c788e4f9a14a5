----------------------------- MODULE MCMemPath -----------------------------
(***************************************************************************)
(* Small instances of MemPath.                                             *)
(***************************************************************************)
EXTENDS MemPath, TLC

\* The lines compete for the ways of one set.
AllInSetZero == [l \in Lines |-> 0]

\* Lines whose beats agree: a refill that mixes beats of two lines shows.
Plain == {[b \in Beats |-> v] : v \in Val}

\* Memory starts cleared.
Cleared == {[b \in Beats |-> Zero]}

LineSymmetry == Permutations(Lines)
=============================================================================
