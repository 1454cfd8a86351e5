--------------------------- MODULE MCServicesTab ---------------------------
(* TLC instance of ServicesTab: two services that share a process. *)
EXTENDS ServicesTab

CONSTANTS Spooler, Audio, Svchost

MCHost == [s \in Services |-> Svchost]
MCSymmetry == Permutations(Services)
=============================================================================
