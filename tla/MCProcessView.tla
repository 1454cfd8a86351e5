---------------------------- MODULE MCProcessView ----------------------------
(* TLC instance of ProcessView.                                            *)
EXTENDS ProcessView, TLC

\* Everything, and all but the first process.
SomeFilters == {Starts, Starts \ {1}}

\* The second process has no start time.
SecondUntimed == {2}

\* PIDs are interchangeable: the code compares them for equality only.
Symmetry == Permutations(Pids)
=============================================================================
