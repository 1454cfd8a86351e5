----------------------------- MODULE ServiceView -----------------------------
(***************************************************************************)
(* What the Services tab promises its user, whatever threads, caches and   *)
(* messages implement it: refreshes are numbered by their requests, the    *)
(* list on screen moves forward from one refresh to a later one, and a     *)
(* list that answers request g shows every start type the user had changed *)
(* before making that request.  Once the window begins to close nothing moves.  *)
(***************************************************************************)
EXTENDS Integers, Sequences

CONSTANTS Services

VARIABLES
  ownVersion,  \* per service, the latest change the user made here
  floor,       \* floor[g] = ownVersion when refresh g was requested
  applied,     \* the refresh the list on screen answers; 0 before the first
  services,    \* the list on screen
  open         \* FALSE once the window begins to close

viewVars == <<ownVersion, floor, applied, services, open>>

ViewInit ==
  /\ ownVersion = [s \in Services |-> 0]
  /\ floor = <<>>
  /\ applied = 0
  /\ \A s \in Services : services[s] \notin Nat
  /\ open = TRUE

Change ==
  /\ open
  /\ \E s \in Services :
       /\ \A t \in Services \ {s} : ownVersion'[t] = ownVersion[t]
       /\ ownVersion'[s] > ownVersion[s]
  /\ UNCHANGED <<floor, applied, services, open>>

Request ==
  /\ open
  /\ floor' = Append(floor, ownVersion)
  /\ UNCHANGED <<ownVersion, applied, services, open>>

Apply ==
  /\ open
  /\ applied' \in (applied + 1)..Len(floor)
  /\ \A s \in Services :
       services'[s] \in Nat => services'[s] >= floor[applied'][s]
  /\ UNCHANGED <<ownVersion, floor, open>>

Close ==
  /\ open
  /\ open' = FALSE
  /\ UNCHANGED <<ownVersion, floor, applied, services>>

ViewNext == Change \/ Request \/ Apply \/ Close

ViewSpec == ViewInit /\ [][ViewNext]_viewVars
=============================================================================
