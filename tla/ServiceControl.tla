--------------------------- MODULE ServiceControl ---------------------------
(***************************************************************************)
(* Start, stop and restart of a service (service_manager_service.cc        *)
(* 170-279), as the UI thread calls them, beside the Service Control       *)
(* Manager (SCM), in which a service changes its state on its own and      *)
(* other programs start and stop services too.                             *)
(*                                                                         *)
(* Starting and stopping are one request each.  A restart requests a stop, *)
(* asks up to MaxPolls times, 100 ms apart, whether the service has        *)
(* stopped, and requests a start in any case; meanwhile the thread serves  *)
(* nothing else.                                                           *)
(***************************************************************************)
EXTENDS Naturals, FiniteSets

CONSTANTS
  Services,
  None,
  MaxPolls,  \* 50
  MaxLives   \* bound: starts of a service

VARIABLES
  state,  \* per service, dwCurrentState
  life,   \* per service, how many times it has been started
  call    \* the restart the thread is in, None outside of one

control == <<state, life, call>>

States == {"stopped", "startPending", "running", "stopPending"}

\* The life the service was in when the restart began, the polls so far, and
\* whether one of them has found the service stopped.
Calls == [service : Services, before : 0..MaxLives, polls : 0..MaxPolls,
          stopped : BOOLEAN]

ASSUME ControlAssumption ==
  /\ IsFiniteSet(Services)
  /\ MaxPolls \in Nat
  /\ MaxLives \in Nat
  /\ None \notin Calls

ControlTypeOK ==
  /\ state \in [Services -> States]
  /\ life \in [Services -> 0..MaxLives]
  /\ call \in Calls \cup {None}

ControlInit ==
  /\ state \in [Services -> {"stopped", "running"}]
  /\ life = [s \in Services |-> 0]
  /\ call = None

-----------------------------------------------------------------------------
(* The SCM.                                                                *)

Becomes(s, next) == state' = [state EXCEPT ![s] = next]

\* StartServiceW on a stopped service. On any other the answer is
\* ERROR_SERVICE_ALREADY_RUNNING, also while it is stopping.
Starts(s) ==
  /\ state[s] = "stopped"
  /\ life[s] < MaxLives
  /\ Becomes(s, "startPending")
  /\ life' = [life EXCEPT ![s] = @ + 1]

\* ControlService with SERVICE_CONTROL_STOP.
Stops(s) ==
  /\ state[s] = "running"
  /\ Becomes(s, "stopPending")
  /\ UNCHANGED life

\* A service comes up, ends, or is started or stopped by another program.
Settle(s) ==
  /\ \/ Starts(s)
     \/ Stops(s)
     \/ /\ \/ state[s] = "startPending" /\ Becomes(s, "running")
           \/ state[s] # "stopped" /\ Becomes(s, "stopped")
        /\ UNCHANGED life
  /\ UNCHANGED call

-----------------------------------------------------------------------------
(* The requests, and whether they report success.                          *)

\* A start reports success if the service is not stopped to begin with; it may
\* be refused: access denied, disabled, unknown by now.
RequestStart(s, success) ==
  \/ success /\ Starts(s)
  \/ success /\ state[s] # "stopped" /\ UNCHANGED <<state, life>>
  \/ ~success /\ UNCHANGED <<state, life>>

StartServiceByName(s, success) ==
  /\ RequestStart(s, success)
  /\ UNCHANGED call

\* ERROR_SERVICE_NOT_ACTIVE is a success.
StopServiceByName(s, success) ==
  /\ \/ success /\ Stops(s)
     \/ success /\ state[s] = "stopped" /\ UNCHANGED <<state, life>>
     \/ ~success /\ UNCHANGED <<state, life>>
  /\ UNCHANGED call

\* RestartServiceByName up to the first poll. What becomes of the request to stop
\* is not looked at.
BeginRestart(s) ==
  /\ Stops(s) \/ UNCHANGED <<state, life>>
  /\ call' = [service |-> s, before |-> life[s], polls |-> 0, stopped |-> FALSE]

Waiting == call # None /\ ~call.stopped /\ call.polls < MaxPolls

\* The service is on its way down.
GoingDown(s) == state[s] \in {"stopped", "stopPending"}

Down(s) == state[s] = "stopped"

\* QueryServiceStatusEx, which may fail, and 100 ms of sleep.
Poll ==
  /\ Waiting
  /\ \/ /\ Down(call.service)
        /\ call' = [call EXCEPT !.stopped = TRUE]
     \/ call' = [call EXCEPT !.polls = @ + 1]
  /\ UNCHANGED <<state, life>>

EndRestart(success) ==
  /\ call # None
  /\ ~Waiting
  /\ RequestStart(call.service, success)
  /\ call' = None
=============================================================================
