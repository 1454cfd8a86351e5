-------------------------- MODULE MCServiceRefresh --------------------------
(* TLC instance of ServiceRefresh.                                         *)
EXTENDS ServiceRefresh, TLC

\* Services are interchangeable: no action orders or names them.
Symmetry == Permutations(Services)
=============================================================================
