-------------------------- MODULE MCMonitorToasts --------------------------
(* TLC instance of MonitorToasts, with the rules of MCProcessMonitor. *)
EXTENDS MonitorToasts, MCProcessMonitor
=============================================================================
