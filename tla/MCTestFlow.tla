------------------------------ MODULE MCTestFlow ------------------------------
(***************************************************************************)
(* Two sources, two launch masks, one simulated suite and the compute      *)
(* suite; two invocations of the runner, so that the second meets what the *)
(* first left on disk.                                                     *)
(***************************************************************************)
EXTENDS TestFlow, TLC

Masks == <<1, 3>>
AllSuites == <<"mesi", "compute">>
Requests == {<<>>, <<"mesi", "mesi">>, <<"mesi", "typo">>}

Symmetry == Permutations(FILES)
=============================================================================
