------------------------------- MODULE Questions -------------------------------
(***************************************************************************)
(* A golden model is a function.  One behaviour asks one of them a         *)
(* question, and its answer is what the properties are about.              *)
(***************************************************************************)
EXTENDS Integers

CONSTANT Queries        \* sets of the calls to make: records with a kind k

VARIABLES
    query,
    answer                  \* <<>>, then the sequence of the one answer

Asking == (\E calls \in Queries : query \in calls) /\ answer = <<>>

Ask(kind) == query.k = kind /\ answer = <<>> /\ UNCHANGED query

Asked(kinds) == query.k \in kinds /\ answer # <<>>
Got == answer[1]

AbsVal(n) == IF n < 0 THEN -n ELSE n
=============================================================================
