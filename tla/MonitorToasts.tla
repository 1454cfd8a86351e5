--------------------------- MODULE MonitorToasts ---------------------------
(***************************************************************************)
(* The monitor and the toasts on the UI thread: a check shows a toast for  *)
(* each alert it raises (monitor_service.cc 116-152), the monitor dialog   *)
(* one for each rule that is tested (monitor_dialog.cc 558-584); toasts    *)
(* live on while the tab, the rules and the processes change.              *)
(***************************************************************************)
EXTENDS ProcessMonitor, Toasts

allVars == <<vars, stack>>

MonitorToastsInit == Init /\ ToastsInit

\* The alerts a step raises, of which there is one for a key at most.
Raised == {key \in Keys : alerts'[key] # alerts[key]}

Refresh == RefreshData /\ ShowToasts(Cardinality(Raised))

\* OnTestRules, for some of the rules.
OnTestRules ==
  /\ \E count \in DOMAIN rules : ShowToasts(count)
  /\ UNCHANGED vars

\* WM_TIMER of a toast.
ToastTimer(h) == AutoClose(h) \/ FadeOut(h)

ToastsNext ==
  \/ Refresh
  \/ OnTestRules
  \/ (ProcessChanges \/ Tick \/ EditRules \/ OnTabChanged) /\ UNCHANGED stack
  \/ \E h \in Handles : (ToastTimer(h) \/ Click(h)) /\ UNCHANGED vars

\* The refresh timer and those of the toasts come round.
ToastsSpec ==
  /\ MonitorToastsInit /\ [][ToastsNext]_allVars
  /\ WF_vars(RefreshData)
  /\ \A h \in Handles : WF_stack(ToastTimer(h))
=============================================================================
