------------------------- MODULE ProcessTermination -------------------------
(***************************************************************************)
(* Ending processes and process trees and changing priorities              *)
(* (main_window.cc EndSelectedProcess, EndSelectedProcessTree,             *)
(* SetSelectedProcessPriority; process_snapshot_service.cc).  The list on  *)
(* screen is a snapshot: while a confirmation box is open the timer may    *)
(* replace it, and up to the last call processes start and exit and PIDs   *)
(* are reused.  A process is identified by its PID and its birth; what the *)
(* program sees of its birth is the start time, which may be Unknown.      *)
(***************************************************************************)
EXTENDS ProcessTree, Sequences

CONSTANTS
  Pids,       \* process identifiers
  None,       \* no process on a PID
  MaxClock,   \* bound: ticks of the clock that stamps start times
  MaxChosen   \* bound: processes selected at once

ASSUME TerminationAssumption ==
  /\ IsFiniteSet(Pids) /\ 0 \notin Pids
  /\ MaxClock \in Nat /\ MaxChosen \in Nat
  /\ None \notin [born : Nat, start : Nat \cup {Unknown}, parent : Pids,
                  lineage : SUBSET [pid : Pids, born : Nat]]

VARIABLES
  processes,     \* the running processes, by PID
  clock,         \* the clock that stamps them
  lastBorn,      \* per PID, when its last process started
  allProcesses,  \* all_processes_: the items of the last refresh
  pc,            \* where the command of the UI thread stands
  command,       \* the command
  chosen,        \* valid_procs, the items the command is for
  left,          \* those of them its loop has not reached
  pending,       \* the stack of TerminateProcessTree
  visited,       \* its visited PIDs
  failed,        \* fail_count > 0
  touched        \* history: the process that the last call on one reached

kernelVars  == <<processes, clock, lastBorn>>
commandVars == <<pc, command, chosen, left, pending, visited, failed, touched>>
vars == <<kernelVars, allProcesses, commandVars>>

Ids == [pid : Pids, born : Nat]
\* lineage (history): the process, its creator, the creator's creator, ...
Processes == [born : Nat, start : Nat \cup {Unknown}, parent : Pids,
              lineage : SUBSET Ids]
Items == [pid : Pids, born : Nat, start : Nat \cup {Unknown}, parent : Pids,
          lineage : SUBSET Ids]

TypeOK ==
  /\ processes \in [Pids -> Processes \cup {None}]
  /\ clock \in Nat
  /\ lastBorn \in [Pids -> Nat]
  /\ allProcesses \in SUBSET Items
  /\ pc \in {"idle", "confirm", "run"}
  /\ command \in {"process", "tree", "priority"}
  /\ chosen \in SUBSET Items
  /\ left \in SUBSET chosen
  /\ pending \in Seq([item : Items, queued : BOOLEAN])
  /\ visited \in SUBSET Pids
  /\ failed \in BOOLEAN
  /\ touched \in SUBSET Items

Id(item) == [pid |-> item.pid, born |-> item.born]

ItemOf(pid) ==
  [pid |-> pid, born |-> processes[pid].born, start |-> processes[pid].start,
   parent |-> processes[pid].parent, lineage |-> processes[pid].lineage]

Listed == {ItemOf(pid) : pid \in {q \in Pids : processes[q] # None}}

Running(item) ==
  processes[item.pid] # None /\ processes[item.pid].born = item.born

NoCommand ==
  /\ pc' = "idle" /\ command' = "process" /\ chosen' = {} /\ left' = {}
  /\ pending' = <<>> /\ visited' = {} /\ failed' = FALSE /\ touched' = {}

\* A process whose creator, on another PID, is gone; the kernel may give no start
\* time for it.
Init ==
  /\ \E pid \in Pids : \E parent \in Pids \ {pid}, start \in {0, Unknown} :
       processes = [q \in Pids |->
         IF q = pid THEN [born |-> 0, start |-> start, parent |-> parent,
                          lineage |-> {[pid |-> pid, born |-> 0]}]
                    ELSE None]
  /\ clock = 0
  /\ lastBorn = [pid \in Pids |-> 0]
  /\ allProcesses = {}
  /\ pc = "idle" /\ command = "process" /\ chosen = {} /\ left = {}
  /\ pending = <<>> /\ visited = {} /\ failed = FALSE /\ touched = {}

-----------------------------------------------------------------------------
(* The kernel                                                              *)

\* A running process creates another; the stamps of two processes may be
\* equal, but not of two on the same PID.
Spawn(pid, creator) ==
  /\ processes[pid] = None
  /\ processes[creator] # None
  /\ \E now \in {clock, clock + 1} :
       /\ now <= MaxClock
       /\ now > lastBorn[pid]
       /\ clock' = now
       /\ lastBorn' = [lastBorn EXCEPT ![pid] = now]
       /\ processes' = [processes EXCEPT ![pid] =
            [born |-> now, start |-> now, parent |-> creator,
             lineage |-> processes[creator].lineage
                           \cup {[pid |-> pid, born |-> now]}]]
  /\ UNCHANGED <<allProcesses, commandVars>>

Exit(pid) ==
  /\ processes[pid] # None
  /\ processes' = [processes EXCEPT ![pid] = None]
  /\ UNCHANGED <<clock, lastBorn, allProcesses, commandVars>>

-----------------------------------------------------------------------------
(* Calls on a single process                                               *)

\* Mutant of Verified: the PID alone identifies a process.
VerifiedByPid(item) ==
  item.start # Unknown /\ processes[item.pid] # None

\* OpenVerifiedProcess: the process on the PID has the item's start time.
\* The handle then keeps the PID from being reused until the call is made.
Verified(item) ==
  /\ item.start # Unknown
  /\ processes[item.pid] # None
  /\ processes[item.pid].born = item.start

\* Mutant of TerminateProcess: the last result counts.
TerminateKeepingLast(item) ==
  \/ /\ Verified(item)
     /\ processes' = [processes EXCEPT ![item.pid] = None]
     /\ touched' = {ItemOf(item.pid)}
     /\ failed' = FALSE
  \/ /\ failed' = TRUE
     /\ touched' = {}
     /\ UNCHANGED processes

\* TerminateProcess; it also fails for want of rights.
TerminateProcess(item) ==
  \/ /\ Verified(item)
     /\ processes' = [processes EXCEPT ![item.pid] = None]
     /\ touched' = {ItemOf(item.pid)}
     /\ UNCHANGED failed
  \/ /\ failed' = TRUE
     /\ touched' = {}
     /\ UNCHANGED processes

SetPriority(item) ==
  /\ \/ Verified(item) /\ touched' = {ItemOf(item.pid)} /\ UNCHANGED failed
     \/ failed' = TRUE /\ touched' = {}
  /\ UNCHANGED processes

-----------------------------------------------------------------------------
(* The UI thread                                                           *)

\* RefreshData, by the timer: the boxes' message loops run it as well. A
\* snapshot that fails leaves an empty list.
Refresh ==
  /\ pc \in {"idle", "confirm"}
  /\ allProcesses' \in {Listed, {}}
  /\ UNCHANGED <<kernelVars, commandVars>>

\* The user selects and gives the command. A priority is changed for one
\* process, and without a question unless it is the real-time priority.
Choose ==
  /\ pc = "idle"
  /\ command' \in {"process", "tree", "priority"}
  /\ chosen' \in SUBSET allProcesses \ {{}}
  /\ Cardinality(chosen') <= (IF command' = "priority" THEN 1 ELSE MaxChosen)
  /\ left' = chosen'
  /\ pc' \in IF command' = "priority" THEN {"confirm", "run"} ELSE {"confirm"}
  /\ UNCHANGED <<kernelVars, allProcesses, pending, visited, failed, touched>>

Decline ==
  /\ pc = "confirm"
  /\ NoCommand
  /\ UNCHANGED <<kernelVars, allProcesses>>

Confirm ==
  /\ pc = "confirm"
  /\ pc' = "run"
  /\ UNCHANGED <<kernelVars, allProcesses, command, chosen, left, pending,
                 visited, failed, touched>>

\* One turn of the loop of EndSelectedProcess; SetSelectedProcessPriority.
NextProcess ==
  /\ pc = "run"
  /\ \E item \in left :
       /\ left' = left \ {item}
       /\ \/ command = "process" /\ TerminateProcess(item)
          \/ command = "priority" /\ SetPriority(item)
  /\ UNCHANGED <<clock, lastBorn, allProcesses, pc, command, chosen, pending, visited>>

\* EndSelectedProcessTree calls TerminateProcessTree for the next item.
NextTree ==
  /\ pc = "run"
  /\ command = "tree"
  /\ pending = <<>>
  /\ \E item \in left :
       /\ left' = left \ {item}
       /\ pending' = <<[item |-> item, queued |-> FALSE]>>
  /\ UNCHANGED <<kernelVars, allProcesses, pc, command, chosen, visited, failed,
                 touched>>

Top == pending[Len(pending)]
Rest == SubSeq(pending, 1, Len(pending) - 1)

\* child_map: only an item of the list, as it now is, has children.
ListedChildren(item) ==
  IF item \in allProcesses THEN Children(item, allProcesses) ELSE {}

Unqueued(items) == {[item |-> i, queued |-> FALSE] : i \in items}

\* The traversal puts an item's children on the stack above the item,
Visit ==
  /\ pc = "run"
  /\ pending # <<>>
  /\ ~Top.queued
  /\ LET children == ListedChildren(Top.item)
     IN IF Top.item.pid \in visited
          THEN pending' = Rest /\ UNCHANGED visited
          ELSE /\ visited' = visited \cup {Top.item.pid}
               /\ \E order \in [1..Cardinality(children) -> Unqueued(children)] :
                    /\ \A c \in Unqueued(children) : \E i \in DOMAIN order : order[i] = c
                    /\ pending' = Rest \o <<[item |-> Top.item, queued |-> TRUE]>> \o order
  /\ UNCHANGED <<kernelVars, allProcesses, pc, command, chosen, left, failed, touched>>

\* and ends the item when it comes to light again.
EndTop ==
  /\ pc = "run"
  /\ pending # <<>>
  /\ Top.queued
  /\ TerminateProcess(Top.item)
  /\ pending' = Rest
  /\ visited' = IF Rest = <<>> THEN {} ELSE visited  \* the call is over
  /\ UNCHANGED <<clock, lastBorn, allProcesses, pc, command, chosen, left>>

Done == pc = "run" /\ left = {} /\ pending = <<>>

\* The loop is over; a refresh, unless a priority could not be changed, and
\* the message if anything failed.
Report ==
  /\ Done
  /\ allProcesses' \in IF command = "priority" /\ failed THEN {allProcesses}
                                                       ELSE {Listed, {}}
  /\ NoCommand
  /\ UNCHANGED kernelVars

Kernel == \E pid \in Pids : Exit(pid) \/ \E creator \in Pids : Spawn(pid, creator)

Next ==
  \/ Kernel
  \/ Refresh \/ Choose \/ Decline \/ Confirm
  \/ NextProcess \/ NextTree \/ Visit \/ EndTop \/ Report

Spec == Init /\ [][Next]_vars

-----------------------------------------------------------------------------
(* Properties                                                              *)

\* The tree view shows every process of the list exactly once, whatever
\* circles the reuse of PIDs has made of the creators (BuildProcessTree).
EveryProcessShownOnce == ShownOnce(allProcesses)

\* However old the list, and whatever became of the PIDs since: a command
\* ends, or changes the priority of, only the processes the user chose, and
\* for a tree their true descendants.
OnlyChosenTouched ==
  \A item \in touched : \E c \in chosen :
    IF command = "tree" THEN Id(c) \in item.lineage ELSE Id(c) = Id(item)

\* What the traversal is to end for a chosen item.
Doomed(item) ==
  IF command = "tree" /\ item \in allProcesses THEN Subtree(item, allProcesses)
                                               ELSE {item}

\* When no failure is reported, nothing of what was to be ended runs: one
\* failure among many is not forgotten, and no branch is left out.
SuccessMeansGone ==
  Done /\ ~failed /\ command # "priority" =>
    \A c \in chosen : \A item \in Doomed(c) : ~Running(item)

\* The question asked before a tree is ended says that all child processes
\* of the process are terminated (resource.rc); here, those in the list.
AllChildrenEnded ==
  Done /\ ~failed /\ command = "tree" =>
    \A c \in chosen \cap allProcesses, item \in allProcesses :
      item.parent = c.pid /\ IsValidParentRelationship(c, item) => ~Running(item)
=============================================================================
