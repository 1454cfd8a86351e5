------------------------ MODULE MCProcessTermination ------------------------
(* TLC instance of ProcessTermination.                                     *)
EXTENDS ProcessTermination, TLC

\* PIDs are interchangeable: the code compares them for equality only.
Symmetry == Permutations(Pids)
=============================================================================
