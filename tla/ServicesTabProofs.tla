-------------------------- MODULE ServicesTabProofs --------------------------
(***************************************************************************)
(* Proofs about ServicesTab: the types, that a command reaches the service *)
(* its menu was built for, that a restart that reports success has started *)
(* the service anew, and that the rows follow the list and the search.     *)
(***************************************************************************)
EXTENDS ServicesTab, FiniteSetTheorems, WellFoundedInduction, SequenceTheorems, TLAPS

-----------------------------------------------------------------------------
(* The SCM and a restart.                                                  *)

LEMMA RequestStartTypes ==
  ASSUME ControlTypeOK, NEW s \in Services, NEW success \in BOOLEAN,
         RequestStart(s, success)
  PROVE  /\ state' \in [Services -> States]
         /\ life' \in [Services -> 0..MaxLives]
BY ControlAssumption
   DEF ControlTypeOK, RequestStart, Starts, Becomes, States

LEMMA StopsTypes ==
  ASSUME ControlTypeOK, NEW s \in Services, Stops(s)
  PROVE  /\ state' \in [Services -> States]
         /\ life' \in [Services -> 0..MaxLives]
BY DEF ControlTypeOK, Stops, Becomes, States

LEMMA SettleTypes ==
  ASSUME ControlTypeOK, NEW s \in Services, Settle(s)
  PROVE  ControlTypeOK'
<1>1. CASE Starts(s)
  <2>1. RequestStart(s, TRUE)
    BY <1>1 DEF RequestStart
  <2> QED
    BY <2>1, RequestStartTypes DEF Settle, ControlTypeOK
<1>2. CASE Stops(s)
  BY <1>2, StopsTypes DEF Settle, ControlTypeOK
<1>3. CASE UNCHANGED life /\ (Becomes(s, "running") \/ Becomes(s, "stopped"))
  BY <1>3 DEF Settle, Becomes, ControlTypeOK, States
<1> QED
  BY <1>1, <1>2, <1>3 DEF Settle

LEMMA StartStopTypes ==
  ASSUME ControlTypeOK, NEW s \in Services, NEW success \in BOOLEAN,
         StartServiceByName(s, success) \/ StopServiceByName(s, success)
  PROVE  ControlTypeOK'
<1>1. CASE StartServiceByName(s, success)
  BY <1>1, RequestStartTypes DEF StartServiceByName, ControlTypeOK
<1>2. CASE StopServiceByName(s, success)
  BY <1>2, StopsTypes DEF StopServiceByName, ControlTypeOK
<1> QED
  BY <1>1, <1>2

LEMMA BeginRestartTypes ==
  ASSUME ControlTypeOK, NEW s \in Services, BeginRestart(s)
  PROVE  ControlTypeOK' /\ call' # None
<1>1. state' \in [Services -> States] /\ life' \in [Services -> 0..MaxLives]
  BY StopsTypes DEF BeginRestart, ControlTypeOK
<1>2. call' \in Calls
  BY ControlAssumption DEF BeginRestart, ControlTypeOK, Calls
<1> QED
  BY <1>1, <1>2, ControlAssumption DEF ControlTypeOK

LEMMA PollTypes ==
  ASSUME ControlTypeOK, Poll
  PROVE  ControlTypeOK' /\ call' # None
<1>1. call \in Calls
  BY DEF Poll, Waiting, ControlTypeOK
<1>2. call.polls \in 0..MaxPolls /\ call.polls < MaxPolls
  BY <1>1 DEF Calls, Poll, Waiting
<1>3. call' \in Calls
  <2>1. CASE call' = [call EXCEPT !.stopped = TRUE]
    BY <1>1, <2>1 DEF Calls
  <2>2. CASE call' = [call EXCEPT !.polls = @ + 1]
    BY <1>1, <1>2, <2>2, ControlAssumption DEF Calls
  <2> QED
    BY <2>1, <2>2 DEF Poll
<1> QED
  BY <1>3, ControlAssumption DEF Poll, ControlTypeOK

LEMMA EndRestartTypes ==
  ASSUME ControlTypeOK, NEW success \in BOOLEAN, EndRestart(success)
  PROVE  ControlTypeOK'
<1>1. call.service \in Services
  BY DEF EndRestart, ControlTypeOK, Calls
<1> QED
  BY <1>1, RequestStartTypes DEF EndRestart, ControlTypeOK

\* While a restart is under way the service is not in an earlier life than at its
\* beginning; one that has been seen stopped still is, or was started anew.
NewOrStopped ==
  call # None =>
    /\ call.before <= life[call.service]
    /\ call.stopped => \/ state[call.service] = "stopped"
                       \/ call.before < life[call.service]

LEMMA SettleNewOrStopped ==
  ASSUME ControlTypeOK, NewOrStopped, NEW s \in Services, Settle(s)
  PROVE  NewOrStopped'
<1> SUFFICES ASSUME call # None
             PROVE  NewOrStopped'
  BY DEF NewOrStopped, Settle
<1>1. /\ call.service \in Services /\ call.before \in Nat
      /\ state \in [Services -> States] /\ life \in [Services -> Nat]
      /\ call' = call
  BY ControlAssumption DEF ControlTypeOK, Calls, Settle
<1>2. CASE Starts(s)
  BY <1>1, <1>2 DEF Starts, Becomes, NewOrStopped
<1>3. CASE Stops(s)
  BY <1>1, <1>3 DEF Stops, Becomes, NewOrStopped
<1>4. CASE /\ \/ state[s] = "startPending" /\ Becomes(s, "running")
              \/ state[s] # "stopped" /\ Becomes(s, "stopped")
           /\ UNCHANGED life
  BY <1>1, <1>4 DEF Becomes, NewOrStopped
<1> QED
  BY <1>2, <1>3, <1>4 DEF Settle

LEMMA PollNewOrStopped ==
  ASSUME ControlTypeOK, NewOrStopped, Poll
  PROVE  NewOrStopped'
<1>1. call \in Calls /\ call # None
  BY DEF Poll, Waiting, ControlTypeOK
<1>2. CASE Down(call.service) /\ call' = [call EXCEPT !.stopped = TRUE]
  BY <1>1, <1>2 DEF Poll, Down, NewOrStopped, Calls
<1>3. CASE call' = [call EXCEPT !.polls = @ + 1]
  BY <1>1, <1>3 DEF Poll, NewOrStopped, Calls
<1> QED
  BY <1>2, <1>3 DEF Poll

LEMMA BeginRestartNewOrStopped ==
  ASSUME ControlTypeOK, NEW s \in Services, BeginRestart(s)
  PROVE  NewOrStopped'
<1>1. life[s] \in Nat /\ life' = life
  BY ControlAssumption DEF ControlTypeOK, BeginRestart, Stops
<1> QED
  BY <1>1 DEF BeginRestart, NewOrStopped

-----------------------------------------------------------------------------
(* The rows and the selection.                                             *)

\* Any order of finitely many items is a list of rows.
LEMMA SortedTypes ==
  ASSUME NEW items \in SUBSET Items, IsFiniteSet(items), NEW order \in Sorted(items)
  PROVE  order \in Seq(Items)
<1>1. Cardinality(items) \in Nat
  BY FS_CardinalityType
<1>2. order \in [1..Cardinality(items) -> Items]
  BY DEF Sorted, SetToSeqs
<1> QED
  BY <1>1, <1>2, SeqDef

LEMMA PassingTypes ==
  ASSUME NEW services \in Listings
  PROVE  Passing(services) \in SUBSET Items /\ IsFiniteSet(Passing(services))
<1> DEFINE Some == DOMAIN services \cap search
           item == [s \in Some |-> [service |-> s, state |-> services[s]]]
<1>1. PICK listed \in SUBSET Services : services \in [listed -> ListedStates]
  BY DEF Listings
<1>2. Passing(services) \in SUBSET Items
  BY <1>1 DEF Passing, Items
<1>3. IsFiniteSet(Some)
  BY <1>1, ControlAssumption, FS_Subset
<1>4. item \in Surjection(Some, Passing(services))
  BY <1>1 DEF Surjection, Passing
<1>5. IsFiniteSet(Passing(services))
  BY <1>3, <1>4, FS_Surjection
<1> QED
  BY <1>2, <1>5

LEMMA RowsOfASequence ==
  ASSUME NEW s \in Seq(Items)
  PROVE  ToSet(s) \in SUBSET Items /\ IsFiniteSet(ToSet(s))
<1>1. s \in Surjection(1..Len(s), ToSet(s))
  BY DEF Surjection, ToSet
<1>2. IsFiniteSet(1..Len(s))
  BY FS_Interval
<1>3. IsFiniteSet(ToSet(s))
  BY <1>1, <1>2, FS_Surjection
<1> QED
  BY <1>3 DEF ToSet

\* Some selected row is the first.
LEMMA FirstSelected ==
  ASSUME NEW some \in SUBSET Nat, some # {}
  PROVE  \E i \in some : \A j \in some : i <= j
<1>1. PICK i \in some : \A j \in some : <<j, i>> \notin OpToRel(<, Nat)
  BY NatLessThanWellFounded, WFMin
<1>2. \A j \in Nat : j < i => <<j, i>> \in OpToRel(<, Nat)
  BY DEF OpToRel
<1>3. \A j \in some : ~ (j < i)
  BY <1>1, <1>2
<1> QED
  BY <1>3

LEMMA SelectedServiceTypes ==
  ASSUME rows \in Seq(Items), selected \subseteq DOMAIN rows
  PROVE  SelectedService \in Items \cup {None}
<1>1. CASE selected = {}
  BY <1>1 DEF SelectedService
<1>2. CASE selected # {}
  <2> DEFINE first == CHOOSE i \in selected : \A j \in selected : i <= j
  <2>1. first \in DOMAIN rows
    BY <1>2, FirstSelected
  <2>2. rows[first] \in Items
    BY <2>1
  <2> QED
    BY <1>2, <2>2 DEF SelectedService
<1> QED
  BY <1>1, <1>2

LEMMA DisplayTypes ==
  ASSUME NEW services \in Listings, ApplyServiceFilterAndDisplay(services)
  PROVE  rows' \in Seq(Items) /\ selected' = {}
BY PassingTypes, SortedTypes DEF ApplyServiceFilterAndDisplay, UpdateServiceListView

-----------------------------------------------------------------------------
(* Type correctness.                                                       *)

LEMMA InitTypes == Init => TypeOK
<1> SUFFICES ASSUME Init PROVE TypeOK
  OBVIOUS
<1>1. ControlTypeOK
  BY ControlAssumption DEF Init, ControlInit, ControlTypeOK, States
<1>2. listing \in Listings
  <2>1. listing \in [{} -> ListedStates]
    BY DEF Init
  <2> QED
    BY <2>1 DEF Listings
<1>3. /\ rows \in Seq(Items) /\ queue \in Seq(Messages)
      /\ selected \subseteq DOMAIN rows /\ menu \in Items \cup {None}
  BY DEF Init
<1>4. /\ search \in Searches /\ tab \in {"processes", "services"}
      /\ searchTimer \in BOOLEAN /\ box \in BOOLEAN /\ requested \in BOOLEAN
      /\ worker \in {"waits", "queries", "refused"}
  BY SearchesAssumption DEF Init
<1> QED
  BY <1>1, <1>2, <1>3, <1>4 DEF TypeOK

LEMMA SnapshotTypes ==
  \A services \in {[s \in Services |-> Listed(s)], <<>>} : Snapshot(services) \in Messages
<1>1. [s \in Services |-> Listed(s)] \in [Services -> ListedStates]
  BY DEF Listed, ListedStates
<1>2. <<>> \in [{} -> ListedStates]
  OBVIOUS
<1> QED
  BY <1>1, <1>2 DEF Listings, Messages, Snapshot

\* What goes on in the tab alone.
LEMMA TabTypes ==
  ASSUME TypeOK, Tab, UNCHANGED worker
  PROVE  TypeOK'
<1>0. ControlTypeOK'
  BY DEF TypeOK, Tab, control, ControlTypeOK
<1>1. CASE Select
  BY <1>0, <1>1 DEF Select, TypeOK
<1>2. CASE ClickColumn
  <2>1. rows' \in Seq(Items) /\ selected' = {}
    BY <1>2, RowsOfASequence, SortedTypes DEF TypeOK, ClickColumn, UpdateServiceListView
  <2> QED
    BY <1>0, <1>2, <2>1 DEF ClickColumn, TypeOK
<1>3. CASE TypeSearch
  BY <1>0, <1>3 DEF TypeSearch, TypeOK
<1>4. CASE SearchTimer
  <2>1. rows' \in Seq(Items) /\ selected' \subseteq DOMAIN rows'
    BY <1>4, DisplayTypes DEF SearchTimer, TypeOK
  <2> QED
    BY <1>0, <1>4, <2>1 DEF SearchTimer, TypeOK
<1>5. CASE OnTabChanged
  <2>1. CASE ShowServices
    <3>1. rows' \in Seq(Items) /\ selected' \subseteq DOMAIN rows'
      BY <2>1, DisplayTypes DEF ShowServices, TypeOK
    <3> QED
      BY <1>0, <1>5, <2>1, <3>1 DEF OnTabChanged, ShowServices, TypeOK
  <2>2. CASE ShowProcesses
    BY <1>0, <1>5, <2>2 DEF OnTabChanged, ShowProcesses, TypeOK
  <2> QED
    BY <1>5, <2>1, <2>2 DEF OnTabChanged
<1>6. CASE RefreshServicesData
  BY <1>0, <1>6 DEF RefreshServicesData, TypeOK
<1>8. CASE HandleSnapshot
  <2>1. Head(queue) \in Messages /\ Tail(queue) \in Seq(Messages)
    BY <1>8, HeadTailProperties DEF HandleSnapshot, TypeOK
  <2>2. listing' \in Listings
    BY <1>8, <2>1 DEF HandleSnapshot, Messages
  <2>3. rows' \in Seq(Items) /\ selected' \subseteq DOMAIN rows'
    BY <1>8, <2>2, DisplayTypes DEF HandleSnapshot, TypeOK
  <2> QED
    BY <1>0, <1>8, <2>1, <2>2, <2>3 DEF HandleSnapshot, TypeOK
<1>9. CASE ShowServiceContextMenu
  BY <1>0, <1>9, SelectedServiceTypes DEF ShowServiceContextMenu, TypeOK
<1>10. CASE LeaveMenu
  <2>1. \A name \in Offered(menu) : Command(name, menu) \in Messages
    BY <1>10 DEF LeaveMenu, TypeOK, Offered, Command, Messages
  <2>2. queue' \in Seq(Messages)
    BY <1>10, <2>1 DEF LeaveMenu, TypeOK
  <2> QED
    BY <1>0, <1>10, <2>2 DEF LeaveMenu, TypeOK
<1>11. CASE NoSelectedService
  BY <1>0, <1>11, HeadTailProperties DEF NoSelectedService, NextCommand, TypeOK
<1>12. CASE DismissBox
  BY <1>0, <1>12 DEF DismissBox, TypeOK
<1>13. CASE GoToSelectedServiceProcess
  <2>1. queue' \in Seq(Messages)
    BY <1>13, HeadTailProperties DEF GoToSelectedServiceProcess, NextCommand, TypeOK
  <2> QED
    BY <1>0, <1>13, <2>1 DEF GoToSelectedServiceProcess, ShowProcesses, TypeOK
<1>14. CASE \E host \in Hosts \cup {IdlePid} : GoToProcessRelatedServices(host)
  <2> PICK host \in Hosts \cup {IdlePid} : GoToProcessRelatedServices(host)
    BY <1>14
  <2>1. rows' \in Seq(Items)
    BY PassingTypes, SortedTypes DEF GoToProcessRelatedServices, TypeOK
  <2>2. selected' \subseteq DOMAIN rows'
    BY DEF GoToProcessRelatedServices
  <2> QED
    BY <1>0, <2>1, <2>2 DEF GoToProcessRelatedServices, TypeOK
<1> QED
  BY <1>1, <1>2, <1>3, <1>4, <1>5, <1>6, <1>8, <1>9, <1>10, <1>11, <1>12, <1>13,
     <1>14 DEF Tab

\* What the worker does.
LEMMA WorkerTypes ==
  ASSUME TypeOK, ServiceRefreshWorker
  PROVE  TypeOK'
<1>0. ControlTypeOK'
  BY DEF TypeOK, ServiceRefreshWorker, control, ControlTypeOK
<1>1. CASE WorkerTakes
  BY <1>0, <1>1 DEF WorkerTakes, TypeOK
<1>2. CASE WorkerPosts
  <2>1. queue \in Seq(Messages)
    BY DEF TypeOK
  <2>2. queue' \in Seq(Messages)
    <3>1. CASE UNCHANGED queue
      BY <2>1, <3>1
    <3>2. CASE \E services \in {[s \in Services |-> Listed(s)], <<>>} :
                 queue' = Append(queue, Snapshot(services))
      BY <2>1, <3>2, SnapshotTypes
    <3> QED
      BY <1>2, <3>1, <3>2 DEF WorkerPosts
  <2>3. worker' \in {"waits", "refused"}
    BY <1>2 DEF WorkerPosts
  <2> QED
    BY <1>0, <1>2, <2>2, <2>3 DEF WorkerPosts, TypeOK
<1> QED
  BY <1>1, <1>2 DEF ServiceRefreshWorker

\* What reaches the SCM.
LEMMA ControlTypes ==
  ASSUME TypeOK, Control, UNCHANGED worker
  PROVE  TypeOK'
<1>0. ControlTypeOK
  BY DEF TypeOK
<1>1. ASSUME SelectedService # None PROVE SelectedService.service \in Services
  BY <1>1, SelectedServiceTypes DEF TypeOK, Items
<1>2. CASE StartOrStopSelectedService
  <2> PICK success \in BOOLEAN :
         /\ \/ StartServiceByName(SelectedService.service, success)
            \/ StopServiceByName(SelectedService.service, success)
         /\ Conclude(success)
    BY <1>2 DEF StartOrStopSelectedService
  <2>1. ControlTypeOK'
    BY <1>0, <1>1, <1>2, StartStopTypes DEF StartOrStopSelectedService
  <2>2. queue' \in Seq(Messages)
    BY <1>2, HeadTailProperties DEF StartOrStopSelectedService, NextCommand, TypeOK
  <2>3. box' \in BOOLEAN /\ requested' \in BOOLEAN
    BY DEF Conclude, TypeOK
  <2> QED
    BY <1>2, <2>1, <2>2, <2>3 DEF StartOrStopSelectedService, TypeOK
<1>3. CASE RestartSelectedService
  <2>1. ControlTypeOK'
    BY <1>0, <1>1, <1>3, BeginRestartTypes
       DEF RestartSelectedService, control, ControlTypeOK
  <2>2. queue' \in Seq(Messages)
    BY <1>3, HeadTailProperties DEF RestartSelectedService, NextCommand, TypeOK
  <2>3. box' \in BOOLEAN /\ requested' \in BOOLEAN
    BY <1>3 DEF RestartSelectedService, Conclude, TypeOK
  <2> QED
    BY <1>3, <2>1, <2>2, <2>3 DEF RestartSelectedService, TypeOK
<1>4. CASE FinishRestart
  <2> PICK success \in BOOLEAN : EndRestart(success) /\ Conclude(success)
    BY <1>4 DEF FinishRestart
  <2>1. ControlTypeOK'
    BY <1>0, EndRestartTypes
  <2>2. box' \in BOOLEAN /\ requested' \in BOOLEAN
    BY DEF Conclude, TypeOK
  <2> QED
    BY <1>4, <2>1, <2>2 DEF FinishRestart, TypeOK
<1>5. CASE Poll /\ UNCHANGED tabVars
  BY <1>0, <1>5, PollTypes DEF tabVars, TypeOK
<1>6. CASE \E s \in Services : Settle(s) /\ UNCHANGED tabVars
  BY <1>0, <1>6, SettleTypes DEF tabVars, TypeOK
<1> QED
  BY <1>2, <1>3, <1>4, <1>5, <1>6 DEF Control

-----------------------------------------------------------------------------
(* What a command is for.                                                  *)

\* While a menu is open, and until its command has been served, nothing is selected but
\* the item it was built for: whatever rebuilds the rows drops the selection, and the
\* user can select nothing in between.
MenuForSelected == menu # None => SelectedService \in {None, menu}

CommandForSelected ==
  \A i \in DOMAIN queue :
    queue[i].type = "command" => SelectedService \in {None, queue[i].for}

Meant == MenuForSelected /\ CommandForSelected

LEMMA NothingSelected == selected = {} => SelectedService = None
BY DEF SelectedService

LEMMA SelectionUnchanged ==
  ASSUME UNCHANGED <<rows, selected>>
  PROVE  SelectedService' = SelectedService
BY DEF SelectedService

\* Rows rebuilt, or left, with a queue that has lost messages at most.
LEMMA StillMeant ==
  ASSUME queue \in Seq(Messages), Meant,
         UNCHANGED menu,
         \/ UNCHANGED <<rows, selected>>
         \/ selected' = {},
         \/ queue' = queue
         \/ queue # <<>> /\ queue' = Tail(queue)
  PROVE  Meant'
<1>1. SelectedService' \in {None, SelectedService}
  BY SelectionUnchanged, NothingSelected' DEF SelectedService
<1>2. MenuForSelected'
  BY <1>1 DEF Meant, MenuForSelected
<1>3. ASSUME NEW i \in DOMAIN queue' PROVE \E j \in DOMAIN queue : queue'[i] = queue[j]
  BY <1>3, HeadTailProperties
<1>4. CommandForSelected'
  BY <1>1, <1>3 DEF Meant, CommandForSelected
<1> QED
  BY <1>2, <1>4 DEF Meant

\* With no menu open and nothing posted there is nothing to be meant.
LEMMA NothingMeant ==
  ASSUME menu' = None, queue' = <<>>
  PROVE  Meant'
BY DEF Meant, MenuForSelected, CommandForSelected

LEMMA TabMeant ==
  ASSUME TypeOK, Meant, Tab
  PROVE  Meant'
<1>0. queue \in Seq(Messages)
  BY DEF TypeOK
<1>1. CASE Select \/ ClickColumn \/ TypeSearch \/ OnTabChanged
           \/ \E host \in Hosts \cup {IdlePid} : GoToProcessRelatedServices(host)
  <2>1. menu' = None /\ queue' = <<>>
    BY <1>1 DEF Select, ClickColumn, TypeSearch, OnTabChanged, GoToProcessRelatedServices,
                OnServices, Input, Idle
  <2> QED
    BY <2>1, NothingMeant
<1>2. CASE SearchTimer \/ RefreshServicesData \/ NoSelectedService \/ DismissBox
           \/ HandleSnapshot
  <2>1. UNCHANGED <<rows, selected>> \/ selected' = {}
    BY <1>2 DEF SearchTimer, RefreshServicesData, NoSelectedService, DismissBox,
                HandleSnapshot, ApplyServiceFilterAndDisplay, UpdateServiceListView
  <2>2. UNCHANGED menu /\ (queue' = queue \/ (queue # <<>> /\ queue' = Tail(queue)))
    BY <1>2 DEF SearchTimer, RefreshServicesData, NoSelectedService, DismissBox,
                HandleSnapshot, NextCommand
  <2> QED
    BY <1>0, <2>1, <2>2, StillMeant
<1>4. CASE ShowServiceContextMenu
  <2>1. SelectedService' = SelectedService /\ menu' = SelectedService /\ queue' = <<>>
    BY <1>4, SelectionUnchanged DEF ShowServiceContextMenu, OnServices, Input, Idle
  <2> QED
    BY <2>1 DEF Meant, MenuForSelected, CommandForSelected
<1>5. CASE LeaveMenu
  <2>1. /\ SelectedService' = SelectedService /\ SelectedService \in {None, menu}
        /\ menu' = None /\ queue = <<>>
    BY <1>5, SelectionUnchanged DEF LeaveMenu, Idle, Meant, MenuForSelected
  <2>2. ASSUME NEW i \in DOMAIN queue' PROVE queue'[i].for = menu
    BY <1>5, <2>1, <2>2 DEF LeaveMenu, Command
  <2> QED
    BY <2>1, <2>2 DEF Meant, MenuForSelected, CommandForSelected
<1>6. CASE GoToSelectedServiceProcess
  <2>1. UNCHANGED <<rows, selected, menu>>
    BY <1>6 DEF GoToSelectedServiceProcess, ShowProcesses
  <2>2. queue' = queue \/ (queue # <<>> /\ queue' = Tail(queue))
    BY <1>6 DEF GoToSelectedServiceProcess, NextCommand
  <2> QED
    BY <1>0, <2>1, <2>2, StillMeant
<1> QED
  BY <1>1, <1>2, <1>4, <1>5, <1>6 DEF Tab

LEMMA WorkerMeant ==
  ASSUME TypeOK, Meant, ServiceRefreshWorker
  PROVE  Meant'
<1>1. queue \in Seq(Messages)
  BY DEF TypeOK
<1>2. SelectedService' = SelectedService /\ menu' = menu
  BY SelectionUnchanged DEF ServiceRefreshWorker, WorkerTakes, WorkerPosts
<1>3. ASSUME NEW i \in DOMAIN queue', queue'[i].type = "command"
      PROVE  i \in DOMAIN queue /\ queue'[i] = queue[i]
  <2>1. CASE UNCHANGED queue
    BY <1>3, <2>1
  <2>2. ASSUME NEW services, queue' = Append(queue, Snapshot(services))
        PROVE  i \in DOMAIN queue /\ queue'[i] = queue[i]
    BY <1>1, <1>3, <2>2 DEF Snapshot
  <2> QED
    BY <2>1, <2>2 DEF ServiceRefreshWorker, WorkerTakes, WorkerPosts
<1> QED
  BY <1>2, <1>3 DEF Meant, MenuForSelected, CommandForSelected

LEMMA ControlMeant ==
  ASSUME TypeOK, Meant, Control
  PROVE  Meant'
<1>1. UNCHANGED <<rows, selected, menu>>
  BY DEF Control, StartOrStopSelectedService, RestartSelectedService, FinishRestart, tabVars
<1>2. queue' = queue \/ (queue # <<>> /\ queue' = Tail(queue))
  BY DEF Control, StartOrStopSelectedService, RestartSelectedService, FinishRestart, tabVars,
         NextCommand
<1> QED
  BY <1>1, <1>2, StillMeant DEF TypeOK

-----------------------------------------------------------------------------
(* The inductive invariant.                                                *)

IInv == TypeOK /\ Meant /\ NewOrStopped

LEMMA InitInv == Init => IInv
<1> SUFFICES ASSUME Init PROVE IInv
  OBVIOUS
<1>1. Meant
  BY DEF Init, Meant, MenuForSelected, CommandForSelected
<1>2. NewOrStopped
  BY DEF Init, ControlInit, NewOrStopped
<1> QED
  BY <1>1, <1>2, InitTypes DEF IInv

LEMMA ControlNewOrStopped ==
  ASSUME TypeOK, NewOrStopped, Control
  PROVE  NewOrStopped'
<1>0. ControlTypeOK
  BY DEF TypeOK
<1>1. CASE StartOrStopSelectedService
  BY <1>1 DEF StartOrStopSelectedService, NextCommand, Serving, StartServiceByName,
              StopServiceByName, NewOrStopped
<1>2. CASE RestartSelectedService
  <2>1. SelectedService.service \in Services
    BY <1>2, SelectedServiceTypes DEF RestartSelectedService, TypeOK, Items
  <2>2. CASE BeginRestart(SelectedService.service)
    BY <1>0, <2>1, <2>2, BeginRestartNewOrStopped
  <2>3. CASE UNCHANGED control
    BY <1>2, <2>3 DEF RestartSelectedService, NextCommand, Serving, control, NewOrStopped
  <2> QED
    BY <1>2, <2>2, <2>3 DEF RestartSelectedService
<1>3. CASE FinishRestart
  BY <1>3 DEF FinishRestart, EndRestart, NewOrStopped
<1>4. CASE Poll /\ UNCHANGED tabVars
  BY <1>0, <1>4, PollNewOrStopped
<1>5. CASE \E s \in Services : Settle(s) /\ UNCHANGED tabVars
  BY <1>0, <1>5, SettleNewOrStopped
<1> QED
  BY <1>1, <1>2, <1>3, <1>4, <1>5 DEF Control

LEMMA NextInv ==
  ASSUME IInv, [Next]_vars
  PROVE  IInv'
<1>1. CASE Control /\ UNCHANGED worker
  BY <1>1, ControlTypes, ControlMeant, ControlNewOrStopped DEF IInv
<1>2. CASE Tab /\ UNCHANGED worker
  <2>1. NewOrStopped'
    BY <1>2 DEF Tab, control, IInv, NewOrStopped
  <2> QED
    BY <1>2, <2>1, TabTypes, TabMeant DEF IInv
<1>3. CASE ServiceRefreshWorker
  <2>1. NewOrStopped'
    BY <1>3 DEF ServiceRefreshWorker, control, IInv, NewOrStopped
  <2> QED
    BY <1>3, <2>1, WorkerTypes, WorkerMeant DEF IInv
<1>4. CASE UNCHANGED vars
  <2>1. TypeOK'
    BY <1>4 DEF vars, control, tabVars, IInv, TypeOK, ControlTypeOK
  <2>2. Meant'
    BY <1>4, SelectionUnchanged
       DEF vars, tabVars, IInv, Meant, MenuForSelected, CommandForSelected
  <2>3. NewOrStopped'
    BY <1>4 DEF vars, control, IInv, NewOrStopped
  <2> QED
    BY <2>1, <2>2, <2>3 DEF IInv
<1> QED
  BY <1>1, <1>2, <1>3, <1>4 DEF Next

\* The inductive invariant: types, what a menu and its command are for, and what a restart
\* has seen.
THEOREM Invariant == Spec => []IInv
BY InitInv, NextInv, PTL DEF Spec

-----------------------------------------------------------------------------
(* Theorems.                                                               *)

\* Every variable of the tab and of a restart has its type.
THEOREM TypeCorrect == Spec => []TypeOK
<1>1. IInv => TypeOK
  BY DEF IInv
<1> QED
  BY <1>1, Invariant, PTL

\* However the list is sorted, searched and replaced while the menu of a service is open
\* or its command is waiting, the command reaches that service or none.
THEOREM CommandsReachTheirService == Spec => CommandReachesItsService
<1> DEFINE Only(meant) ==
             /\ \A s \in Services \ {meant} : state'[s] = state[s] /\ life'[s] = life[s]
             /\ call' # call => call'.service = meant
           Reaches ==
             queue # <<>> /\ queue' = Tail(queue) /\ control' # control =>
               LET meant == Head(queue).for.service
               IN /\ \A s \in Services \ {meant} : state'[s] = state[s] /\ life'[s] = life[s]
                  /\ call' # call => call'.service = meant
<1>1. ASSUME IInv, Next, queue # <<>>, queue' = Tail(queue), control' # control
      PROVE  Only(Head(queue).for.service)
  <2>1. queue \in Seq(Messages) /\ queue' # queue
    BY <1>1, HeadTailProperties DEF IInv, TypeOK
  <2>2. StartOrStopSelectedService \/ RestartSelectedService
    BY <1>1, <2>1 DEF Next, Control, Tab, ServiceRefreshWorker, FinishRestart, tabVars
  <2>3. Head(queue).type = "command" /\ SelectedService # None
    BY <2>2 DEF StartOrStopSelectedService, RestartSelectedService, NextCommand
  <2>4. SelectedService = Head(queue).for
    BY <1>1, <2>1, <2>3 DEF IInv, TypeOK, Meant, CommandForSelected
  <2> DEFINE s == SelectedService.service
  <2>5. state \in [Services -> States] /\ life \in [Services -> 0..MaxLives]
    BY <1>1 DEF IInv, TypeOK, ControlTypeOK
  <2>6. Only(s)
    <3>1. CASE StartOrStopSelectedService
      BY <2>5, <3>1 DEF StartOrStopSelectedService, StartServiceByName, StopServiceByName,
                        RequestStart, Starts, Stops, Becomes
    <3>2. CASE RestartSelectedService
      BY <1>1, <2>5, <3>2 DEF RestartSelectedService, BeginRestart, Stops, Becomes, Conclude
    <3> QED
      BY <2>2, <3>1, <3>2
  <2> QED
    BY <2>4, <2>6
<1>2. ASSUME IInv, [Next]_vars PROVE [Reaches]_vars
  BY <1>1, <1>2
<1> QED
  BY <1>2, Invariant, PTL DEF Spec, CommandReachesItsService

\* A restart that reports success has started the service since it began, or found it
\* started by somebody else after it had been stopped, unless it gave up polling.
THEOREM RestartsAreNew == Spec => RestartIsNew
<1> DEFINE New ==
             call # None /\ call' = None /\ ~box' =>
               \/ life'[call.service] > call.before
               \/ call.polls = MaxPolls
<1>1. ASSUME IInv, Next, call # None, call' = None, ~box', call.polls # MaxPolls
      PROVE  life'[call.service] > call.before
  <2>1. /\ call \in Calls
        /\ state \in [Services -> States] /\ life \in [Services -> Nat]
    BY <1>1, ControlAssumption DEF IInv, TypeOK, ControlTypeOK
  <2>2. FinishRestart
    <3>1. ~ Tab /\ ~ ServiceRefreshWorker
      BY <1>1 DEF Tab, ServiceRefreshWorker, control
    <3>2. ~ StartOrStopSelectedService /\ ~ RestartSelectedService
      BY <1>1 DEF StartOrStopSelectedService, RestartSelectedService, NextCommand, Serving
    <3>3. ~ Poll
      BY <1>1, PollTypes DEF IInv, TypeOK
    <3>4. ~ \E s \in Services : Settle(s)
      BY <1>1 DEF Settle
    <3> QED
      BY <1>1, <3>1, <3>2, <3>3, <3>4 DEF Next, Control
  <2>3. EndRestart(TRUE)
    BY <1>1, <2>2 DEF FinishRestart, Conclude
  <2>4. call.stopped
    BY <1>1, <2>1, <2>3, ControlAssumption DEF EndRestart, Waiting, Calls
  <2>5. CASE Starts(call.service)
    BY <1>1, <2>1, <2>5 DEF Starts, IInv, NewOrStopped, Calls
  <2>6. CASE state[call.service] # "stopped" /\ UNCHANGED <<state, life>>
    BY <1>1, <2>1, <2>4, <2>6 DEF IInv, NewOrStopped, Calls
  <2> QED
    BY <2>3, <2>5, <2>6 DEF EndRestart, RequestStart
<1>2. ASSUME IInv, [Next]_vars PROVE [New]_vars
  BY <1>1, <1>2
<1> QED
  BY <1>2, Invariant, PTL DEF Spec, RestartIsNew
-----------------------------------------------------------------------------
(* The rows follow the list and the search.                                *)

\* Sorting loses no row and adds none.
LEMMA SortedRows ==
  ASSUME NEW items \in SUBSET Items, IsFiniteSet(items), NEW order \in Sorted(items)
  PROVE  ToSet(order) = items
<1> DEFINE D == 1..Cardinality(items)
<1>1. Cardinality(items) \in Nat
  BY FS_CardinalityType
<1>2. order \in Injection(D, items)
  BY DEF Sorted, SetToSeqs, Injection, IsInjective
<1>3. IsFiniteSet(D) /\ Cardinality(D) = Cardinality(items)
  BY <1>1, FS_Interval
<1>4. order \in Surjection(D, items)
  BY <1>2, <1>3, FS_Injection
<1>5. order \in [D -> items] /\ \A t \in items : \E k \in D : order[k] = t
  BY <1>4 DEF Surjection
<1> QED
  BY <1>5 DEF ToSet

LEMMA Shown ==
  ASSUME NEW services \in Listings, ApplyServiceFilterAndDisplay(services)
  PROVE  ToSet(rows') = Passing(services)
BY PassingTypes, SortedRows DEF ApplyServiceFilterAndDisplay, UpdateServiceListView

\* A snapshot that is on its way stays so until it arrives.
LEMMA ComingStays ==
  ASSUME TypeOK, Coming, UNCHANGED worker,
         \/ UNCHANGED <<requested, queue>>
         \/ requested'
         \/ NextCommand(Commands) /\ (requested => requested')
         \/ /\ UNCHANGED requested
            /\ \E name \in Offered(menu) : queue' = Append(queue, Command(name, menu))
  PROVE  Coming'
<1>1. queue \in Seq(Messages)
  BY DEF TypeOK
<1>2. CASE UNCHANGED <<requested, queue>> \/ requested'
  BY <1>2 DEF Coming
<1>4. CASE NextCommand(Commands) /\ (requested => requested')
  <2>1. CASE requested \/ worker = "queries"
    BY <1>4, <2>1 DEF Coming
  <2>2. CASE ~requested /\ worker # "queries"
    <3>1. PICK i \in DOMAIN queue : queue[i].type = "snapshot"
      BY <2>2 DEF Coming
    <3>2. queue # <<>> /\ queue[1].type = "command" /\ queue' = Tail(queue)
      BY <1>1, <1>4 DEF NextCommand
    <3>3. i \in Nat /\ i > 1 /\ i <= Len(queue) /\ Len(queue) \in Nat
      BY <1>1, <3>1, <3>2
    <3>4. i - 1 \in DOMAIN queue' /\ queue'[i - 1] = queue[i]
      BY <1>1, <3>2, <3>3
    <3> QED
      BY <3>1, <3>4 DEF Coming
  <2> QED
    BY <2>1, <2>2
<1>5. ASSUME UNCHANGED requested, NEW name \in Offered(menu),
             queue' = Append(queue, Command(name, menu))
      PROVE  Coming'
  <2>1. \A i \in DOMAIN queue : i \in DOMAIN queue' /\ queue'[i] = queue[i]
    BY <1>1, <1>5
  <2> QED
    BY <1>5, <2>1 DEF Coming
<1> QED
  BY <1>2, <1>4, <1>5

\* The worker turns a request into a snapshot, unless that is refused.
LEMMA WorkerBrings ==
  ASSUME TypeOK, Coming, ServiceRefreshWorker
  PROVE  Coming' \/ worker' = "refused"
<1>1. queue \in Seq(Messages)
  BY DEF TypeOK
<1>2. CASE WorkerTakes
  BY <1>2 DEF WorkerTakes, Coming
<1>3. CASE WorkerPosts /\ worker' # "refused"
  <2>1. PICK services : queue' = Append(queue, Snapshot(services)) /\ Snapshot(services) \in Messages
    BY <1>3, SnapshotTypes DEF WorkerPosts
  <2>2. queue'[Len(queue) + 1] = Snapshot(services) /\ Len(queue) + 1 \in DOMAIN queue'
    BY <1>1, <2>1
  <2>3. queue'[Len(queue) + 1].type = "snapshot"
    BY <2>2 DEF Snapshot
  <2> QED
    BY <2>2, <2>3 DEF Coming
<1> QED
  BY <1>2, <1>3 DEF ServiceRefreshWorker

\* Steps that do not touch the rows, the list, the search and the tab.
LEMMA RowsStay ==
  ASSUME ListFollows, UNCHANGED <<rows, listing, search, searchTimer, tab>>,
         Coming => Coming' \/ worker' = "refused",
         worker = "refused" => Coming' \/ worker' = "refused"
  PROVE  ListFollows'
<1>1. ToSet(rows') = ToSet(rows) /\ Passing(listing)' = Passing(listing)
  BY DEF ToSet, Passing
<1> QED
  BY <1>1 DEF ListFollows

LEMMA FollowsTab ==
  ASSUME TypeOK, ListFollows, Tab, UNCHANGED worker
  PROVE  ListFollows'
<1>0. listing \in Listings /\ rows \in Seq(Items) /\ queue \in Seq(Messages)
  BY DEF TypeOK
<1>1. CASE Select \/ ShowServiceContextMenu \/ DismissBox
  BY <1>1, RowsStay DEF Select, ShowServiceContextMenu, DismissBox, Coming
<1>2. CASE RefreshServicesData \/ LeaveMenu \/ NoSelectedService
  <2>1. UNCHANGED <<rows, listing, search, searchTimer, tab>>
    BY <1>2 DEF RefreshServicesData, LeaveMenu, NoSelectedService
  <2>2. Coming => Coming'
    BY <1>2, ComingStays
      DEF RefreshServicesData, LeaveMenu, NoSelectedService
  <2> QED
    BY <2>1, <2>2, RowsStay
<1>3. CASE ClickColumn
  <2>1. ToSet(rows') = ToSet(rows)
    BY <1>0, <1>3, RowsOfASequence, SortedRows DEF ClickColumn, UpdateServiceListView
  <2>2. UNCHANGED <<listing, search, searchTimer, tab, queue, requested>>
    BY <1>3 DEF ClickColumn
  <2> QED
    BY <2>1, <2>2 DEF ListFollows, Coming, Passing
<1>4. CASE TypeSearch
  BY <1>4 DEF TypeSearch, ListFollows
<1>5. CASE SearchTimer
  <2>1. CASE tab = "services"
    <3>1. ToSet(rows') = Passing(listing) /\ UNCHANGED <<listing, search>>
      BY <1>0, <1>5, <2>1, Shown DEF SearchTimer
    <3> QED
      BY <3>1 DEF ListFollows, Passing
  <2>2. CASE tab # "services"
    BY <1>5, <2>2 DEF SearchTimer, ListFollows
  <2> QED
    BY <2>1, <2>2
<1>6. CASE OnTabChanged
  <2>1. UNCHANGED <<listing, search>>
    BY <1>6 DEF OnTabChanged
  <2>2. CASE ShowProcesses
    BY <2>2 DEF ShowProcesses, ListFollows
  <2>3. CASE ShowServices /\ listing = <<>>
    BY <2>1, <2>3 DEF ShowServices, ListFollows, Coming
  <2>4. CASE ShowServices /\ listing # <<>>
    <3>1. ToSet(rows') = Passing(listing)
      BY <1>0, <2>4, Shown DEF ShowServices
    <3> QED
      BY <2>1, <3>1 DEF ListFollows, Passing
  <2> QED
    BY <1>6, <2>2, <2>3, <2>4 DEF OnTabChanged
<1>7. CASE HandleSnapshot
  <2>1. CASE tab = "services"
    <3>1. Head(queue) \in Messages
      BY <1>0, <1>7, HeadTailProperties DEF HandleSnapshot
    <3>2. listing' \in Listings
      BY <1>7, <3>1 DEF HandleSnapshot, Messages
    <3>3. ToSet(rows') = Passing(listing') /\ UNCHANGED search
      BY <1>7, <2>1, <3>2, Shown DEF HandleSnapshot
    <3> QED
      BY <3>3 DEF ListFollows, Passing
  <2>2. CASE tab # "services"
    BY <1>7, <2>2 DEF HandleSnapshot, ListFollows
  <2> QED
    BY <2>1, <2>2
<1>8. CASE GoToSelectedServiceProcess
  <2>1. UNCHANGED <<listing, search>>
    BY <1>8 DEF GoToSelectedServiceProcess
  <2>2. CASE ShowProcesses
    BY <2>2 DEF ShowProcesses, ListFollows
  <2>3. CASE UNCHANGED <<rows, selected, searchTimer, tab, requested>>
    <3>1. NextCommand({"goToProcess"}) \/ UNCHANGED queue
      BY <1>8 DEF GoToSelectedServiceProcess
    <3>2. NextCommand(Commands) \/ UNCHANGED queue
      BY <3>1 DEF NextCommand, Commands
    <3>3. Coming => Coming'
      BY <2>3, <3>2, ComingStays
    <3> QED
      BY <2>1, <2>3, <3>3, RowsStay
  <2> QED
    BY <1>8, <2>2, <2>3 DEF GoToSelectedServiceProcess
<1>9. ASSUME NEW host \in Hosts \cup {IdlePid}, GoToProcessRelatedServices(host)
      PROVE  ListFollows'
  <2>1. UNCHANGED <<listing, search>>
    BY <1>9 DEF GoToProcessRelatedServices
  <2>2. CASE listing = <<>>
    BY <1>9, <2>1, <2>2 DEF GoToProcessRelatedServices, ListFollows, Coming
  <2>3. CASE listing # <<>>
    <3>1. rows' \in Sorted(Passing(listing))
      BY <1>9, <2>3 DEF GoToProcessRelatedServices
    <3>2. ToSet(rows') = Passing(listing)
      BY <1>0, <3>1, PassingTypes, SortedRows
    <3> QED
      BY <2>1, <3>2 DEF ListFollows, Passing
  <2> QED
    BY <2>2, <2>3
<1> QED
  BY <1>1, <1>2, <1>3, <1>4, <1>5, <1>6, <1>7, <1>8, <1>9 DEF Tab

LEMMA FollowsControl ==
  ASSUME TypeOK, ListFollows, Control, UNCHANGED worker
  PROVE  ListFollows'
<1>1. UNCHANGED <<rows, listing, search, searchTimer, tab>>
  BY DEF Control, StartOrStopSelectedService, RestartSelectedService, FinishRestart, tabVars
<1>2. requested \in BOOLEAN
  BY DEF TypeOK
<1>3. CASE StartOrStopSelectedService \/ RestartSelectedService
  <2>1. NextCommand(Commands) /\ (requested => requested')
    BY <1>2, <1>3 DEF StartOrStopSelectedService, RestartSelectedService, Conclude,
                      NextCommand, Commands
  <2> QED
    BY <1>1, <2>1, ComingStays, RowsStay
<1>4. CASE FinishRestart
  <2>1. UNCHANGED queue /\ (requested => requested')
    BY <1>2, <1>4 DEF FinishRestart, Conclude
  <2> QED
    BY <1>1, <2>1, RowsStay DEF Coming
<1>5. CASE UNCHANGED tabVars
  BY <1>1, <1>5, RowsStay DEF tabVars, Coming
<1> QED
  BY <1>3, <1>4, <1>5 DEF Control

\* The rows on screen are the listed services that pass the search, or the list is empty
\* and a snapshot is on its way or was refused (ApplyServiceFilterAndDisplay and its callers).
THEOREM RowsFollowList == Spec => []ListFollows
<1>1. Init => ListFollows
  BY DEF Init, ListFollows
<1>2. TypeOK /\ ListFollows /\ [Next]_vars => ListFollows'
  <2> SUFFICES ASSUME TypeOK, ListFollows, [Next]_vars PROVE ListFollows'
    OBVIOUS
  <2>1. CASE UNCHANGED vars
    BY <2>1, RowsStay DEF vars, tabVars, Coming
  <2>2. CASE ServiceRefreshWorker
    <3>1. UNCHANGED <<rows, listing, search, searchTimer, tab>>
      BY <2>2 DEF ServiceRefreshWorker, WorkerTakes, WorkerPosts
    <3>2. worker = "refused" => Coming'
      BY <2>2 DEF ServiceRefreshWorker, WorkerTakes, WorkerPosts, Coming
    <3> QED
      BY <2>2, <3>1, <3>2, WorkerBrings, RowsStay
  <2> QED
    BY <2>1, <2>2, FollowsTab, FollowsControl DEF Next
<1> QED
  BY <1>1, <1>2, TypeCorrect, PTL DEF Spec
=============================================================================
