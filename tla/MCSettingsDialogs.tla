------------------------- MODULE MCSettingsDialogs -------------------------
(* TLC instance of SettingsDialogs: two rules, one of them disabled, and   *)
(* two columns.                                                            *)
EXTENDS SettingsDialogs, TLC

CONSTANTS Busy, Idle, Name, Cpu

MCInitialRules == {<<[id |-> 1, enabled |-> TRUE, text |-> Busy],
                     [id |-> 2, enabled |-> FALSE, text |-> Busy]>>}
MCDefaultColumns == <<[id |-> Name, visible |-> TRUE], [id |-> Cpu, visible |-> TRUE]>>
MCInitialColumns == {MCDefaultColumns}
=============================================================================
