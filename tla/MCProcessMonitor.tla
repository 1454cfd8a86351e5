-------------------------- MODULE MCProcessMonitor --------------------------
(* TLC instance of ProcessMonitor: a load rule and a deadman rule on the   *)
(* same name, alone and together, and the load rule with other settings,   *)
(* on any process or on one PID.                                           *)
EXTENDS ProcessMonitor

CONSTANTS App, Other, Cpu, Memory

Load == [id |-> "load", enabled |-> TRUE, blank |-> FALSE, pattern |-> {App},
         conditions |-> {Cpu}, logic |-> "And", cooldown |-> 1, deadman |-> FALSE]
LongLoad == [Load EXCEPT !.cooldown = 2, !.logic = "Or", !.blank = TRUE]
OnPid == [Load EXCEPT !.pattern = {CHOOSE pid \in Pids : TRUE}]
Deadman == [id |-> "deadman", enabled |-> TRUE, blank |-> FALSE, pattern |-> {App},
            conditions |-> {}, logic |-> "And", cooldown |-> 1, deadman |-> TRUE]

SafetyLists == {<<Load, Deadman>>, <<LongLoad>>, <<OnPid>>}
LiveLists == {<<Deadman>>, <<LongLoad, Deadman>>, <<[Deadman EXCEPT !.enabled = FALSE]>>}
=============================================================================
