---------------------------- MODULE ServicesTab ----------------------------
(***************************************************************************)
(* The Services tab (main_window.cc 2800-3221): the list, its search, its  *)
(* order and its selection, the menu of a service, the commands of that    *)
(* menu, the way to a service's process and back.                          *)
(*                                                                         *)
(* Everything here runs on the UI thread.  The worker's snapshots come to  *)
(* it as messages, and so do the commands chosen from a menu: posted       *)
(* messages are served in their order and before input and timers, also by *)
(* the loop of an open menu or message box, and by none while a service is *)
(* being restarted.  A command does not say which service it is for: it    *)
(* goes to the first selected row at the time it is served.                *)
(***************************************************************************)
EXTENDS ServiceControl, SequencesExt

CONSTANTS
  Searches,  \* sets of services that a text in the search box lets through
  Hosts,     \* processes, by their PIDs
  Host,      \* the process a service runs in, if it runs
  IdlePid    \* PID 0, of the System Idle Process and of a service that is stopped

ASSUME SearchesAssumption == Services \in Searches

VARIABLES
  listing,    \* all_services_: of the services listed, the state
  rows,       \* filtered_services_, and the rows of the list view
  selected,   \* numbers of the selected rows
  search,     \* the text in the search box
  searchTimer,\* IDT_SEARCH_DEBOUNCE_TIMER is set
  tab,        \* current_tab_
  menu,       \* the row the open menu was built for
  box,        \* a message box is open
  queue,      \* posted messages
  requested,  \* service_refresh_requested_
  worker      \* ServiceRefreshWorker: waits, queries, or waits after a refused post

tabVars == <<listing, rows, selected, search, searchTimer, tab, menu, box, queue, requested>>
vars == <<control, tabVars, worker>>

\* What is shown of a state: the two pending ones make no difference.
Listed(s) == IF state[s] \in {"stopped", "running"} THEN state[s] ELSE "pending"
ListedStates == {"stopped", "running", "pending"}

Items == [service : Services, state : ListedStates]
Commands == {"start", "stop", "restart", "goToProcess"}

\* A snapshot, or a command with the item its menu was built for, a note.
Snapshot(services) == [type |-> "snapshot", services |-> services]
Command(name, item) == [type |-> "command", name |-> name, for |-> item]

Listings == UNION {[listed -> ListedStates] : listed \in SUBSET Services}
Messages == [type : {"snapshot"}, services : Listings]
            \cup [type : {"command"}, name : Commands, for : Items]

TypeOK ==
  /\ ControlTypeOK
  /\ listing \in Listings
  /\ queue \in Seq(Messages)
  /\ rows \in Seq(Items)
  /\ selected \subseteq DOMAIN rows
  /\ search \in Searches
  /\ tab \in {"processes", "services"}
  /\ menu \in Items \cup {None}
  /\ searchTimer \in BOOLEAN /\ box \in BOOLEAN /\ requested \in BOOLEAN
  /\ worker \in {"waits", "queries", "refused"}

Init ==
  /\ ControlInit
  /\ listing = <<>>
  /\ rows = <<>>
  /\ selected = {}
  /\ search = Services
  /\ searchTimer = FALSE
  /\ tab = "processes"
  /\ menu = None
  /\ box = FALSE
  /\ queue = <<>>
  /\ requested = FALSE
  /\ worker = "waits"

-----------------------------------------------------------------------------
(* When the thread serves what.                                            *)

Serving == call = None

\* Timers, in whatever loop.
Idle == Serving /\ queue = <<>>

\* Input to the main window.
Input == Idle /\ menu = None /\ ~box

OnServices == Input /\ tab = "services"

-----------------------------------------------------------------------------
(* The list.                                                               *)

\* SortServices: some order, the texts deciding which.
Sorted(items) == SetToSeqs(items)

Passing(services) == {[service |-> s, state |-> services[s]] : s \in DOMAIN services \cap search}

\* Rows are written over, those left are deleted: the numbers selected are kept.
RowsWrittenOver(order) == rows' = order /\ selected' = selected \cap DOMAIN order

\* UpdateServiceListView deletes all rows, and with them the selection.
UpdateServiceListView(order) == rows' = order /\ selected' = {}

ApplyServiceFilterAndDisplay(services) ==
  \E order \in Sorted(Passing(services)) : UpdateServiceListView(order)

Select ==
  /\ OnServices
  /\ selected' \in SUBSET DOMAIN rows
  /\ UNCHANGED <<listing, rows, search, searchTimer, tab, menu, box, queue, requested>>

ClickColumn ==
  /\ OnServices
  /\ \E order \in Sorted(ToSet(rows)) : UpdateServiceListView(order)
  /\ UNCHANGED <<listing, search, searchTimer, tab, menu, box, queue, requested>>

TypeSearch ==
  /\ Input
  /\ search' \in Searches
  /\ searchTimer' = TRUE
  /\ UNCHANGED <<listing, rows, selected, tab, menu, box, queue, requested>>

\* On the other tab it is the process list that is searched.
SearchTimer ==
  /\ Idle
  /\ searchTimer
  /\ searchTimer' = FALSE
  /\ IF tab = "services" THEN ApplyServiceFilterAndDisplay(listing)
                         ELSE UNCHANGED <<rows, selected>>
  /\ UNCHANGED <<listing, search, tab, menu, box, queue, requested>>

\* The rows stay what they were, and the list is requested in any case.
ShowServicesAsTheyWere ==
  /\ tab' = "services"
  /\ searchTimer' = FALSE
  /\ requested' = TRUE
  /\ UNCHANGED <<rows, selected>>

\* OnTabChanged: if the list is empty it is requested, and the rows stay what they
\* were.
ShowServices ==
  /\ tab' = "services"
  /\ searchTimer' = FALSE
  /\ IF listing = <<>>
     THEN requested' = TRUE /\ UNCHANGED <<rows, selected>>
     ELSE ApplyServiceFilterAndDisplay(listing) /\ UNCHANGED requested

ShowProcesses ==
  /\ tab' = "processes"
  /\ searchTimer' = FALSE
  /\ UNCHANGED <<rows, selected, requested>>

OnTabChanged ==
  /\ Input
  /\ ShowServices \/ ShowProcesses
  /\ UNCHANGED <<listing, search, menu, box, queue>>

-----------------------------------------------------------------------------
(* Refreshes.                                                              *)

\* RefreshData, by the timer or F5.
RefreshServicesData ==
  /\ Idle
  /\ tab = "services"
  /\ requested' = TRUE
  /\ UNCHANGED <<listing, rows, selected, search, searchTimer, tab, menu, box, queue>>

\* The worker takes the request.
WorkerTakes ==
  /\ requested
  /\ worker # "queries"
  /\ requested' = FALSE
  /\ worker' = "queries"
  /\ UNCHANGED <<listing, rows, selected, search, searchTimer, tab, menu, box, queue>>

\* It posts a snapshot, an empty one if the query fails; PostMessageW may refuse it, the
\* queue being full of whatever else is posted to this thread.
WorkerPosts ==
  /\ worker = "queries"
  /\ \/ /\ \E services \in {[s \in Services |-> Listed(s)], <<>>} :
             queue' = Append(queue, Snapshot(services))
        /\ worker' = "waits"
     \/ UNCHANGED queue /\ worker' = "refused"
  /\ UNCHANGED <<listing, rows, selected, search, searchTimer, tab, menu, box, requested>>

HandleSnapshot ==
  /\ Serving
  /\ queue # <<>> /\ Head(queue).type = "snapshot"
  /\ queue' = Tail(queue)
  /\ listing' = Head(queue).services
  /\ IF tab = "services" THEN ApplyServiceFilterAndDisplay(listing')
                         ELSE UNCHANGED <<rows, selected>>
  /\ UNCHANGED <<search, searchTimer, tab, menu, box, requested>>

-----------------------------------------------------------------------------
(* The menu and its commands.                                              *)

\* GetSelectedService.
SelectedService ==
  IF selected = {} THEN None ELSE rows[CHOOSE i \in selected : \A j \in selected : i <= j]

\* ShowServiceContextMenu, at a right click.
ShowServiceContextMenu ==
  /\ OnServices
  /\ SelectedService # None
  /\ menu' = SelectedService
  /\ UNCHANGED <<listing, rows, selected, search, searchTimer, tab, box, queue, requested>>

Offered(item) ==
  {name \in Commands :
     CASE name = "start" -> item.state = "stopped"
       [] name \in {"stop", "restart"} -> item.state = "running"
       [] name = "goToProcess" -> item.state # "stopped"}

\* A click on an entry posts its command; one elsewhere closes the menu.
LeaveMenu ==
  /\ Idle
  /\ menu # None
  /\ menu' = None
  /\ \/ \E name \in Offered(menu) : queue' = Append(queue, Command(name, menu))
     \/ UNCHANGED queue
  /\ UNCHANGED <<listing, rows, selected, search, searchTimer, tab, box, requested>>

\* A message box after a failure, a refresh after a success.
Conclude(success) ==
  /\ box' = ~success
  /\ requested' = (requested \/ success)

NextCommand(names) ==
  /\ Serving
  /\ queue # <<>> /\ Head(queue).type = "command" /\ Head(queue).name \in names
  /\ queue' = Tail(queue)

\* StartSelectedService, StopSelectedService.
StartOrStopSelectedService ==
  /\ NextCommand({"start", "stop"})
  /\ SelectedService # None
  /\ \E success \in BOOLEAN :
       /\ IF Head(queue).name = "start"
          THEN StartServiceByName(SelectedService.service, success)
          ELSE StopServiceByName(SelectedService.service, success)
       /\ Conclude(success)
  /\ UNCHANGED <<listing, rows, selected, search, searchTimer, tab, menu>>

\* RestartSelectedService, up to the first poll; the service may not even open.
RestartSelectedService ==
  /\ NextCommand({"restart"})
  /\ SelectedService # None
  /\ \/ BeginRestart(SelectedService.service) /\ UNCHANGED <<box, requested>>
     \/ Conclude(FALSE) /\ UNCHANGED control
  /\ UNCHANGED <<listing, rows, selected, search, searchTimer, tab, menu>>

\* The rest of it.
FinishRestart ==
  /\ \E success \in BOOLEAN : EndRestart(success) /\ Conclude(success)
  /\ UNCHANGED <<listing, rows, selected, search, searchTimer, tab, menu, queue>>

NoSelectedService ==
  /\ NextCommand(Commands)
  /\ SelectedService = None
  /\ UNCHANGED <<listing, rows, selected, search, searchTimer, tab, menu, box, requested>>

DismissBox ==
  /\ Idle
  /\ box
  /\ box' = FALSE
  /\ UNCHANGED <<listing, rows, selected, search, searchTimer, tab, menu, queue, requested>>

-----------------------------------------------------------------------------
(* To the process of a service and back.                                   *)

HostOf(item) == IF item.state = "stopped" THEN IdlePid ELSE Host[item.service]

\* GoToSelectedServiceProcess, from the menu or by a double click, to the other tab,
\* unless the service has no process.
GoToSelectedServiceProcess ==
  /\ \/ NextCommand({"goToProcess"})
     \/ OnServices /\ UNCHANGED queue
  /\ SelectedService # None
  /\ IF HostOf(SelectedService) # IdlePid
     THEN ShowProcesses
     ELSE UNCHANGED <<rows, selected, searchTimer, tab, requested>>
  /\ UNCHANGED <<listing, search, menu, box>>

\* GoToProcessRelatedServices selects the rows with that PID, all stopped services if it
\* is 0, or says that there are none.
GoToProcessRelatedServices(host) ==
  /\ Input
  /\ tab = "processes"
  /\ tab' = "services"
  /\ searchTimer' = FALSE
  /\ IF listing = <<>>
     THEN requested' = TRUE /\ UNCHANGED rows
     ELSE rows' \in Sorted(Passing(listing)) /\ UNCHANGED requested
  /\ selected' = {i \in DOMAIN rows' : HostOf(rows'[i]) = host}
  /\ box' = (selected' = {})
  /\ UNCHANGED <<listing, search, menu, queue>>

-----------------------------------------------------------------------------
\* What reaches the SCM.
Control ==
  \/ StartOrStopSelectedService
  \/ RestartSelectedService
  \/ FinishRestart
  \/ Poll /\ UNCHANGED tabVars
  \/ \E s \in Services : Settle(s) /\ UNCHANGED tabVars

\* What does not, on the UI thread.
Tab ==
  /\ \/ Select \/ ClickColumn
     \/ TypeSearch \/ SearchTimer
     \/ OnTabChanged
     \/ RefreshServicesData \/ HandleSnapshot
     \/ ShowServiceContextMenu \/ LeaveMenu \/ NoSelectedService \/ DismissBox
     \/ GoToSelectedServiceProcess
     \/ \E host \in Hosts \cup {IdlePid} : GoToProcessRelatedServices(host)
  /\ UNCHANGED control

ServiceRefreshWorker == (WorkerTakes \/ WorkerPosts) /\ UNCHANGED control

Next ==
  \/ (Control \/ Tab) /\ UNCHANGED worker
  \/ ServiceRefreshWorker

Spec == Init /\ [][Next]_vars

-----------------------------------------------------------------------------
(* Properties                                                              *)

\* A command reaches the service its menu was built for, or none, whatever was listed
\* or sorted anew while the menu was open or before the command was served.
CommandReachesItsService ==
  [][queue # <<>> /\ queue' = Tail(queue) /\ control' # control =>
       LET meant == Head(queue).for.service
       IN /\ \A s \in Services \ {meant} : state'[s] = state[s] /\ life'[s] = life[s]
          /\ call' # call => call'.service = meant]_vars

\* A snapshot is on its way: asked for, being taken, or posted.
Coming ==
  requested \/ worker = "queries" \/ \E i \in DOMAIN queue : queue[i].type = "snapshot"

\* The rows on screen are the services listed that pass the search, once its timer has
\* fired, or there are none to list and a snapshot is on its way, or the last one was
\* refused by the queue: nothing asks for another until the next refresh.
ListFollows ==
  tab = "services" /\ ~searchTimer =>
    \/ ToSet(rows) = Passing(listing)
    \/ listing = <<>> /\ (Coming \/ worker = "refused")

\* A restart that reports success has started the service since it began, or found it
\* started anew, unless none of its polls has seen the service stopped.
RestartIsNew ==
  [][call # None /\ call' = None /\ ~box' =>
       \/ life'[call.service] > call.before
       \/ call.polls = MaxPolls]_vars
=============================================================================
