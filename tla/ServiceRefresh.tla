--------------------------- MODULE ServiceRefresh ---------------------------
(***************************************************************************)
(* The refresh of the Services tab (main_window.cc): the UI thread numbers *)
(* its requests and wakes the service-refresh worker; the worker takes a   *)
(* snapshot (ServiceConfigCache) and posts it to the window; the UI thread *)
(* applies it; closing the window cancels the snapshot, joins the worker   *)
(* and frees the messages it left.  Startup types are changed on the UI    *)
(* thread while a snapshot is being taken.                                 *)
(***************************************************************************)
EXTENDS ServiceConfigCache

CONSTANTS
  MaxGenerations,  \* bound: refreshes requested
  QueueLimit       \* messages the window's queue holds (10000 in Windows)

ASSUME RefreshAssumption ==
  /\ MaxGenerations \in Nat
  /\ QueueLimit \in Nat \ {0}

VARIABLES
  uiPc,          \* where the UI thread stands
  workerPc,      \* where ServiceRefreshWorker stands
  requested,     \* service_refresh_requested_
  requestedGeneration,  \* service_refresh_requested_generation_
  appliedGeneration,    \* service_refresh_applied_generation_
  stopping,      \* service_refresh_stopping_
  generation,    \* the worker's local generation
  posted,        \* WM_APP_SERVICE_SNAPSHOT_READY messages in the queue
  allServices,   \* all_services_, the list on screen
  floor          \* history: ownVersion when each refresh was requested

uiVars     == <<appliedGeneration, allServices>>
sharedVars == <<requested, requestedGeneration, stopping, floor>>
vars == <<configVars, uiPc, workerPc, generation, posted, uiVars, sharedVars>>

Lists == [Services -> Configs \cup {None}]
Messages == [generation : Nat, services : Lists]

TypeOK ==
  /\ CacheTypeOK
  /\ uiPc \in {"ready", "changing", "request", "notify", "stop", "join",
               "drain", "closed"}
  /\ workerPc \in {"lock", "asleep", "snapshot", "post", "done"}
  /\ requested \in BOOLEAN
  /\ requestedGeneration \in Nat
  /\ appliedGeneration \in Nat
  /\ stopping \in BOOLEAN
  /\ generation \in Nat
  /\ posted \in Seq(Messages)
  /\ allServices \in Lists
  /\ floor \in Seq([Services -> Nat])

Init ==
  /\ CacheInit
  /\ uiPc = "ready"
  /\ workerPc = "lock"
  /\ requested = FALSE
  /\ requestedGeneration = 0
  /\ appliedGeneration = 0
  /\ stopping = FALSE
  /\ generation = 0
  /\ posted = <<>>
  /\ allServices = NoResult
  /\ floor = <<>>

-----------------------------------------------------------------------------
(* The UI thread                                                           *)

\* ChangeSelectedServiceStartupType: the SCM call, the invalidation, and on
\* success a refresh; no message is handled in between.
ChangeInScm ==
  /\ uiPc = "ready"
  /\ requestedGeneration < MaxGenerations  \* the bound leaves room for its refresh
  /\ \E s \in Services : ChangeServiceConfig(s)
  /\ uiPc' = "changing"
  /\ UNCHANGED <<workerPc, generation, posted, uiVars, sharedVars>>

ChangeInCache ==
  /\ uiPc = "changing"
  /\ InvalidateConfig
  /\ uiPc' = "request"
  /\ UNCHANGED <<workerPc, generation, posted, uiVars, sharedVars>>

\* RefreshServicesData, up to the end of its lock: after a change, or on a
\* timer tick, a key or a tab switch.
RequestRefresh ==
  /\ uiPc \in {"ready", "request"}
  /\ ~stopping
  /\ requestedGeneration < MaxGenerations
  /\ requestedGeneration' = requestedGeneration + 1
  /\ requested' = TRUE
  /\ floor' = Append(floor, ownVersion)
  /\ uiPc' = "notify"
  /\ UNCHANGED <<configVars, workerPc, generation, posted, uiVars, stopping>>

\* notify_one wakes the worker only if it sleeps at this moment.
WakeWorker ==
  workerPc' = IF workerPc = "asleep" THEN "lock" ELSE workerPc

NotifyRequest ==
  /\ uiPc = "notify"
  /\ WakeWorker
  /\ uiPc' = "ready"
  /\ UNCHANGED <<configVars, generation, posted, uiVars, sharedVars>>

\* WM_APP_SERVICE_SNAPSHOT_READY: a newer snapshot replaces the list.
HandleSnapshot ==
  /\ uiPc = "ready"
  /\ posted # <<>>
  /\ posted' = Tail(posted)
  /\ IF Head(posted).generation > appliedGeneration
       THEN /\ appliedGeneration' = Head(posted).generation
            /\ allServices' = Head(posted).services
       ELSE UNCHANGED uiVars
  /\ UNCHANGED <<configVars, uiPc, workerPc, generation, sharedVars>>

\* WM_DESTROY: StopServiceRefreshWorker sets both flags under the lock,
StopWorker ==
  /\ uiPc = "ready"
  /\ stopping' = TRUE
  /\ Cancel
  /\ uiPc' = "stop"
  /\ UNCHANGED <<workerPc, generation, posted, uiVars, requested,
                 requestedGeneration, floor>>

\* Mutant of NotifyStop: the worker is not notified.
StopWithoutNotify ==
  /\ uiPc = "stop"
  /\ uiPc' = "join"
  /\ UNCHANGED <<configVars, workerPc, generation, posted, uiVars, sharedVars>>

\* notifies,
NotifyStop ==
  /\ uiPc = "stop"
  /\ WakeWorker
  /\ uiPc' = "join"
  /\ UNCHANGED <<configVars, generation, posted, uiVars, sharedVars>>

\* joins the thread,
JoinWorker ==
  /\ uiPc = "join"
  /\ workerPc = "done"
  /\ uiPc' = "drain"
  /\ UNCHANGED <<configVars, workerPc, generation, posted, uiVars, sharedVars>>

\* and frees the messages nobody will handle.
DrainMessages ==
  /\ uiPc = "drain"
  /\ posted' = <<>>
  /\ uiPc' = "closed"
  /\ UNCHANGED <<configVars, workerPc, generation, uiVars, sharedVars>>

-----------------------------------------------------------------------------
(* The worker                                                              *)

\* The wait's predicate and what follows it, under the lock.
TakeRequest ==
  /\ workerPc = "lock"
  /\ IF stopping
       THEN workerPc' = "done" /\ UNCHANGED <<generation, requested>>
       ELSE IF requested
         THEN /\ generation' = requestedGeneration
              /\ requested' = FALSE
              /\ workerPc' = "snapshot"
         ELSE workerPc' = "asleep" /\ UNCHANGED <<generation, requested>>
  /\ UNCHANGED <<configVars, uiPc, posted, uiVars, requestedGeneration,
                 stopping, floor>>

\* A condition variable may wake up without being notified.
SpuriousWakeup ==
  /\ workerPc = "asleep"
  /\ workerPc' = "lock"
  /\ UNCHANGED <<configVars, uiPc, generation, posted, uiVars, sharedVars>>

SnapshotStep ==
  /\ workerPc = "snapshot"
  /\ GetServicesSnapshot
  /\ UNCHANGED <<uiPc, workerPc, generation, posted, uiVars, sharedVars>>

\* Mutant of CheckCancellation: whatever came back is posted.
PostWithoutCheck ==
  /\ workerPc = "snapshot"
  /\ pc = "returned"
  /\ workerPc' = "post"
  /\ UNCHANGED <<configVars, uiPc, generation, posted, uiVars, sharedVars>>

\* Back from GetServicesSnapshot: a cancelled snapshot is dropped.
CheckCancellation ==
  /\ workerPc = "snapshot"
  /\ pc = "returned"
  /\ IF cancellation
       THEN workerPc' = "done" /\ Return
       ELSE workerPc' = "post" /\ UNCHANGED configVars
  /\ UNCHANGED <<uiPc, generation, posted, uiVars, sharedVars>>

\* Mutants of PostSnapshot: the generation is read when the message is made,
\* and the request flag is cleared after the snapshot.
PostWithLatestGeneration ==
  /\ workerPc = "post"
  /\ posted' = IF Len(posted) < QueueLimit
                 THEN Append(posted, [generation |-> requestedGeneration,
                                      services |-> result])
                 ELSE posted
  /\ Return
  /\ workerPc' = "lock"
  /\ UNCHANGED <<uiPc, generation, uiVars, sharedVars>>

PostThenClearRequest ==
  /\ workerPc = "post"
  /\ posted' = IF Len(posted) < QueueLimit
                 THEN Append(posted, [generation |-> generation,
                                      services |-> result])
                 ELSE posted
  /\ requested' = FALSE
  /\ Return
  /\ workerPc' = "lock"
  /\ UNCHANGED <<uiPc, generation, uiVars, requestedGeneration, stopping, floor>>

\* PostMessageW fails when the queue is full; the snapshot is lost then.
PostSnapshot ==
  /\ workerPc = "post"
  /\ posted' = IF Len(posted) < QueueLimit
                 THEN Append(posted, [generation |-> generation,
                                      services |-> result])
                 ELSE posted
  /\ Return
  /\ workerPc' = "lock"
  /\ UNCHANGED <<uiPc, generation, uiVars, sharedVars>>

-----------------------------------------------------------------------------
\* Other programs and the clock.
OtherPrograms ==
  /\ Environment
  /\ UNCHANGED <<uiPc, workerPc, generation, posted, uiVars, sharedVars>>

Ui ==
  \/ ChangeInScm \/ ChangeInCache \/ RequestRefresh \/ NotifyRequest
  \/ HandleSnapshot
  \/ StopWorker \/ NotifyStop \/ JoinWorker \/ DrainMessages

Worker == TakeRequest \/ SnapshotStep \/ CheckCancellation \/ PostSnapshot

Next == Ui \/ Worker \/ SpuriousWakeup \/ OtherPrograms

Spec == Init /\ [][Next]_vars

\* Both threads are scheduled. The UI thread finishes every call it has
\* begun and gets to every posted message; its user need not do anything.
Fairness ==
  /\ WF_vars(Worker)
  /\ WF_vars(ChangeInCache)
  /\ WF_vars(uiPc = "request" /\ RequestRefresh)
  /\ WF_vars(NotifyRequest \/ NotifyStop \/ JoinWorker \/ DrainMessages)
  /\ WF_vars(HandleSnapshot)

FairSpec == Spec /\ Fairness

-----------------------------------------------------------------------------
(* Properties                                                              *)

\* A list that answers a refresh requested after a ChangeStartupType shows
\* that change: neither the cache nor a query begun before the change can
\* put the former start type back on screen.
FreshDisplay ==
  appliedGeneration > 0 =>
    \A s \in Services :
      allServices[s] \in Nat => allServices[s] >= floor[appliedGeneration][s]

\* What the worker posts lists every service that was enumerated, although
\* a cancelled GetServicesSnapshot returns the part it has got to; and when
\* StopServiceRefreshWorker is through, no message is left whose snapshot
\* nobody would free, and no thread that could post another.
SnapshotsAccountedFor ==
  /\ workerPc = "post" => \A s \in names : result[s] # None
  /\ uiPc = "closed" => posted = <<>> /\ workerPc = "done"

\* The worker never sleeps through a request or through the end: if there is
\* anything for it to do while it sleeps, the UI thread stands between the
\* lock it set the flag under and the notification.
SleepsOnlyWhenIdle ==
  workerPc = "asleep" => /\ requested => uiPc = "notify"
                         /\ stopping => uiPc = "stop"

\* The last refresh that was requested is on its way to the list: flagged, in
\* the worker's hands, or posted.
Pending ==
  \/ requested
  \/ workerPc \in {"snapshot", "post"} /\ generation = requestedGeneration
  \/ \E i \in DOMAIN posted : posted[i].generation = requestedGeneration

\* A request stays on its way, or makes way for a newer one, until it has been
\* applied; it is given up only when the window closes or when its snapshot
\* finds the queue full.
NoRequestForgotten ==
  [][Pending => \/ Pending'
                \/ appliedGeneration' = requestedGeneration
                \/ stopping
                \/ workerPc = "post" /\ Len(posted) >= QueueLimit]_vars

\* The tab keeps what ServiceView promises.
View == INSTANCE ServiceView
          WITH applied <- appliedGeneration, services <- allServices,
               open <- ~stopping
ViewSpec == View!ViewSpec

\* What the two threads have still to do once the window closes, in steps.
WorkerRemaining ==
  CASE workerPc = "done" -> 0
    [] workerPc = "lock" -> 1
    [] workerPc \in {"asleep", "post"} -> 2
    [] workerPc = "snapshot" ->
         [returned |-> 1, idle |-> 2, scan |-> 2, store |-> 3, query |-> 4][pc]

UiRemaining ==
  CASE uiPc = "closed" -> 0
    [] uiPc = "drain" -> 1
    [] uiPc = "join" -> 2
    [] OTHER -> 3

Remaining == WorkerRemaining + UiRemaining

\* Closing the window takes seven steps of the two threads at most, whatever they were
\* at: each brings the end closer, no one else puts it off, and of the services still
\* to be listed the one being asked is the last.
ShutdownIsShort ==
  [][stopping => /\ Remaining' <= Remaining
                 /\ Ui \/ Worker => Remaining' < Remaining
                 /\ Remaining \in 0..7]_vars

\* A start type that has just been changed is shown by a refresh requested after
\* the change and applied to the list (no wake-up is lost), unless the window is
\* closed, or the snapshot of such a refresh is to be posted while the queue is
\* full: PostMessageW refuses it then, and ServiceRefreshWorker does not ask for
\* it again.
JustChanged(s, v) == uiPc = "request" /\ ownVersion[s] = v

Shown(s, v) == \E g \in 1..appliedGeneration : floor[g][s] >= v

FoundQueueFull(s, v) ==
  /\ workerPc = "post"
  /\ floor[generation][s] >= v
  /\ Len(posted) >= QueueLimit

ChangeReachesDisplay ==
  \A s \in Services, v \in 1..MaxChanges :
    JustChanged(s, v) ~> stopping \/ Shown(s, v) \/ FoundQueueFull(s, v)

\* Closing the window ends: join does not wait for a worker that sleeps.
ShutdownCompletes == stopping ~> uiPc = "closed"
=============================================================================
