---------------------------- MODULE ProcessView ----------------------------
(***************************************************************************)
(* The process list and the process tree of the main window                *)
(* (main_window.cc RefreshData, ApplyConditionFilter,                      *)
(* ApplyFilterAndDisplay, UpdateListView, UpdateTreeView).  The list is    *)
(* virtual: the control knows rows by number only, and row i shows         *)
(* filtered_processes_[i].  The nodes of the tree hold raw pointers to the *)
(* items.  Each refresh replaces every item, so what is selected is        *)
(* captured as identities, PID and start time, before the items go and     *)
(* looked up again among the new ones.  One of the two is kept up to date, *)
(* the other only when the display mode changes.  An item without a start  *)
(* time has no identity.                                                   *)
(***************************************************************************)
EXTENDS ProcessSnapshot, Sequences, SequencesExt

CONSTANTS
  Filters,  \* the sets of processes that a condition or a search lets through
  Freed     \* a node of the tree whose item has been freed

ASSUME ViewAssumption ==
  /\ \A f \in Filters : f \subseteq Starts
  /\ Starts \in Filters  \* an empty search box lets everything through
  /\ Freed \notin Pids /\ None \notin Pids
  /\ None \notin [pid : Pids, start : Nat]

VARIABLES
  all,            \* all_processes_, by PID
  display,        \* display_processes_: the PIDs the condition lets through
  filtered,       \* filtered_processes_: the PIDs on display, in their order
  tab,            \* current_tab_
  mode,           \* settings_.display_mode
  condition,      \* settings_.display_filter_condition
  search,         \* the text of the search box
  debounce,       \* IDT_SEARCH_DEBOUNCE_TIMER is set
  rows,           \* the number of rows the list view believes in
  selected,       \* its selected rows
  nodes,          \* the nodes of the tree view, by the PID of their item
  node,           \* its selected node
  listCurrent,    \* list_view_data_current_
  treeCurrent,    \* tree_view_data_current_
  savedList,      \* saved_list_view_state_
  savedTree       \* saved_tree_view_state_

filterVars == <<condition, search, debounce>>
listVars   == <<rows, selected, listCurrent, savedList>>
treeVars   == <<nodes, node, treeCurrent, savedTree>>
viewVars   == <<all, display, filtered, tab, mode, filterVars, listVars, treeVars>>
vars       == <<kernelVars, snapshotVars, viewVars>>

Identities == [pid : Pids, start : Starts]

TypeOK ==
  /\ SnapshotTypeOK
  /\ all \in [Pids -> Items \cup {None}]
  /\ display \subseteq {p \in Pids : all[p] # None}
  /\ Range(filtered) \subseteq display /\ IsInjective(filtered)
  /\ tab \in {"processes", "services"} /\ mode \in {"list", "tree"}
  /\ condition \in Filters /\ search \in Filters /\ debounce \in BOOLEAN
  /\ rows \in Nat /\ selected \subseteq 1..rows
  /\ nodes \subseteq Pids \cup {Freed} /\ node \in nodes \cup {None}
  /\ listCurrent \in BOOLEAN /\ treeCurrent \in BOOLEAN
  /\ savedList \subseteq Identities
  /\ savedTree \in Identities \cup {None}

Init ==
  /\ SnapshotInit
  /\ all = NoItems /\ display = {} /\ filtered = <<>>
  /\ tab = "processes" /\ mode \in {"list", "tree"}
  /\ condition \in Filters /\ search = Starts /\ debounce = FALSE
  /\ rows = 0 /\ selected = {} /\ listCurrent = FALSE /\ savedList = {}
  /\ nodes = {} /\ node = None /\ treeCurrent = FALSE /\ savedTree = None

\* The UI thread is not inside GetSnapshot.
Idling == table = None

-----------------------------------------------------------------------------
(* What is on display                                                      *)

\* The process an item is of.
Process(from, p) == [pid |-> p, start |-> from[p].start]

Processes(from, S) == {Process(from, p) : p \in S}

\* GetProcessIdentity: what the code can tell of it, None without a start time.
Identity(from, p) ==
  IF StartTime(from[p].start) = None THEN None ELSE Process(from, p)

Identified(from, S) == {Identity(from, p) : p \in S} \ {None}

\* CaptureListViewState: the identities behind the selected rows.
CaptureRows(from, order) ==
  Identified(from, {order[i] : i \in {j \in selected : j <= Len(order)}})

\* CaptureTreeViewState: the identity behind the selected node, if it has one.
CaptureNode(from) ==
  IF node = None THEN None ELSE Identity(from, node)

\* SortItems: any order, for the column may hold any figures, equal ones too.
Orders(S) == SetToSeqs(S)

Passing(from, f) == {p \in Pids : from[p] # None /\ from[p].start \in f}

\* UpdateListView: the rows of these identities are selected, no others.
ShowRows(from, order, wanted) ==
  /\ rows' = Len(order)
  /\ selected' = {i \in DOMAIN order : Identified(from, {order[i]}) \cap wanted # {}}

\* The node is looked up by PID alone.
ShowNodesByPid(from, S, wanted) ==
  /\ nodes' = S
  /\ node' = IF wanted # None /\ wanted.pid \in S THEN wanted.pid ELSE None

\* UpdateTreeView: the nodes are built anew and the one of this identity selected.
ShowNodes(from, S, wanted) ==
  /\ nodes' = S
  /\ node' = IF wanted # None /\ wanted.pid \in S /\ Identity(from, wanted.pid) = wanted
             THEN wanted.pid ELSE None

\* The flag of the other control is not reset.
MarkCurrentOnly(newMode) ==
  /\ listCurrent' = (listCurrent \/ newMode = "list")
  /\ treeCurrent' = (treeCurrent \/ newMode = "tree")

\* The control that was brought up to date, and the other, which no longer is.
MarkCurrent(newMode) ==
  /\ listCurrent' = (newMode = "list")
  /\ treeCurrent' = (newMode = "tree")

\* ApplyFilterAndDisplay, with the items and those of them the condition lets through.
\* What is on display is captured while filtered_processes_ still owns its items; the
\* nodes of a tree that is not rebuilt point to freed items if the items are fresh.
ApplyFilterAndDisplay(from, shown, newMode, fresh) ==
  LET passing == shown \cap Passing(from, search)
  IN  /\ savedList' = IF listCurrent THEN CaptureRows(all, filtered) ELSE savedList
      /\ savedTree' = IF treeCurrent THEN CaptureNode(all) ELSE savedTree
      /\ filtered' \in Orders(passing)
      /\ MarkCurrent(newMode)
      /\ \/ /\ newMode = "tree"
            /\ ShowNodes(from, passing, savedTree')
            /\ UNCHANGED <<rows, selected>>
         \/ /\ newMode = "list"
            /\ ShowRows(from, filtered', savedList')
            /\ nodes' = IF fresh /\ nodes # {} THEN {Freed} ELSE nodes
            /\ node' = IF fresh /\ node # None THEN Freed ELSE node

-----------------------------------------------------------------------------
(* RefreshData on the process tab.  On the other tab it refreshes the      *)
(* services, and all_processes_ grows old.                                 *)

\* GetSnapshot begins: the timer, F5, the refresh button, or the end of a command.
BeginRefresh ==
  /\ Idling /\ tab = "processes"
  /\ QueryTable
  /\ UNCHANGED viewVars

Enrich(p) == EnrichProcessDetails(p) /\ UNCHANGED viewVars

Replace(new) ==
  /\ all' = new
  /\ display' = Passing(new, condition)
  /\ ApplyFilterAndDisplay(new, display', mode, TRUE)
  /\ UNCHANGED <<tab, mode, filterVars>>

FinishRefresh == Finish /\ Replace(items)

\* NtQuerySystemInformation fails or its buffer cannot be had: the result is empty and
\* the service keeps what it knew.
FailedRefresh ==
  /\ Idling /\ tab = "processes"
  /\ Replace(NoItems)
  /\ UNCHANGED <<kernelVars, snapshotVars>>

-----------------------------------------------------------------------------
(* What the user does between two messages                                 *)

Still == Idling /\ UNCHANGED <<kernelVars, snapshotVars, all>>

\* A click, Ctrl+A or the keyboard, in the list on screen.
SelectRows(R) ==
  /\ Still /\ tab = "processes" /\ mode = "list"
  /\ selected' = R
  /\ UNCHANGED <<display, filtered, tab, mode, filterVars, rows, listCurrent, savedList,
                 treeVars>>

SelectNode(p) ==
  /\ Still /\ tab = "processes" /\ mode = "tree"
  /\ node' = p
  /\ UNCHANGED <<display, filtered, tab, mode, filterVars, listVars, nodes, treeCurrent,
                 savedTree>>

\* OnFilterConditionChanged and the button that clears the condition.
ChangeCondition(f) ==
  /\ Still /\ tab = "processes" /\ f # condition
  /\ condition' = f
  /\ display' = Passing(all, f)
  /\ ApplyFilterAndDisplay(all, display', mode, FALSE)
  /\ UNCHANGED <<tab, mode, search, debounce>>

\* EN_CHANGE of the search box: the lists wait for the timer.
TypeSearch(f) ==
  /\ Still /\ f # search
  /\ search' = f /\ debounce' = TRUE
  /\ UNCHANGED <<display, filtered, tab, mode, condition, listVars, treeVars>>

\* IDT_SEARCH_DEBOUNCE_TIMER: for the tab on screen only.
SearchTimer ==
  /\ Still /\ debounce
  /\ debounce' = FALSE
  /\ IF tab = "processes" THEN ApplyFilterAndDisplay(all, display, mode, FALSE)
     ELSE UNCHANGED <<filtered, listVars, treeVars>>
  /\ UNCHANGED <<display, tab, mode, condition, search>>

\* UpdateListView called with no state: after a click on a column header, after a
\* column is hidden, and after the column selector, which opens in either mode.
UpdateListView ==
  /\ filtered' \in Orders(Range(filtered))
  /\ ShowRows(all, filtered',
              IF listCurrent THEN CaptureRows(all, filtered) ELSE savedList)
  /\ listCurrent' = TRUE
  /\ UNCHANGED savedList

OpenColumnSelectorDialog ==
  /\ Still
  /\ UpdateListView
  /\ UNCHANGED <<display, tab, mode, filterVars, treeVars>>

OtherMode == IF mode = "tree" THEN "list" ELSE "tree"

\* IDM_TOGGLE_TREE, from either tab.
ToggleTree ==
  /\ Still
  /\ mode' = OtherMode
  /\ ApplyFilterAndDisplay(all, display, mode', FALSE)
  /\ UNCHANGED <<display, tab, filterVars>>

\* Coming back, the process tab shows what it showed before.
OnTabChangedAsItWas ==
  /\ Still
  /\ debounce' = FALSE
  /\ tab' = IF tab = "services" THEN "processes" ELSE "services"
  /\ UNCHANGED <<display, filtered, mode, condition, search, listVars, treeVars>>

\* OnTabChanged
OnTabChanged ==
  /\ Still
  /\ debounce' = FALSE
  /\ \/ /\ tab = "services" /\ tab' = "processes"
        /\ ApplyFilterAndDisplay(all, display, mode, FALSE)
     \/ /\ tab = "processes" /\ tab' = "services"
        /\ UNCHANGED <<filtered, listVars, treeVars>>
  /\ UNCHANGED <<display, mode, condition, search>>

-----------------------------------------------------------------------------
Next ==
  \/ \E p \in Pids : Start(p) /\ UNCHANGED viewVars
  \/ \E p \in Pids : Work(p) /\ UNCHANGED viewVars
  \/ \E p \in Pids : Exit(p) /\ UNCHANGED viewVars
  \/ BeginRefresh
  \/ \E p \in Pids : Enrich(p)
  \/ FinishRefresh
  \/ FailedRefresh
  \/ \E R \in SUBSET (1..rows) : SelectRows(R)
  \/ \E p \in nodes : SelectNode(p)
  \/ \E f \in Filters : ChangeCondition(f) \/ TypeSearch(f)
  \/ SearchTimer
  \/ OpenColumnSelectorDialog
  \/ ToggleTree
  \/ OnTabChanged

Spec == Init /\ [][Next]_vars

-----------------------------------------------------------------------------
(* Properties                                                              *)

\* User, path and the rest of a row are those of the process the row names, unless the
\* process has ended, whatever the PIDs and the cache did in between
\* (EnrichProcessDetails).
DetailsOfLiving ==
  \A p \in Pids :
    all[p] # None /\ all[p].start = holder[p] => all[p].details \in {holder[p], Fallback}

\* No process is charged with the CPU time of an earlier one with its PID, nor twice
\* with its own: never more than it used since the table before (GetSnapshot). A process
\* may be charged less, for what the former one on its PID had used is taken off.
ChargedOnce ==
  table # None =>
    \A p \in Pids :
      items[p] # None =>
        table[p].charge <= table[p].time - seen[items[p].start]

\* The processes selected in the list and in the tree, wherever that is remembered.
Chosen ==
  IF listCurrent THEN Processes(all, {filtered[i] : i \in selected}) ELSE savedList
ChosenNode ==
  IF treeCurrent THEN (IF node = None THEN None ELSE Process(all, node)) ELSE savedTree

\* Those of them an identity can stand for.
Lasting(S) == {process \in S : process.start \notin Untimed}

UserSelects ==
  \/ \E R \in SUBSET (1..rows) : SelectRows(R)
  \/ \E p \in nodes : SelectNode(p)

\* Only the user selects: no refresh, sort, search or change of the mode moves the
\* selection of the list to another process, and what is selected and still listed stays
\* selected, also when it is remembered while the tree is on screen, provided it has a
\* start time: a process without one, which the user can select as well, loses its
\* selection whenever the list is brought up to date (GetProcessIdentity,
\* CaptureListViewState, UpdateListView). The same holds of the tree and its one selected
\* node (CaptureTreeViewState, UpdateTreeView).
SelectionStays ==
  [][~UserSelects =>
       LET listed == Processes(all', Range(filtered'))
           stay   == IF listCurrent' THEN Chosen \cap listed ELSE Chosen
       IN  /\ Lasting(stay) \subseteq Chosen' /\ Chosen' \subseteq stay
           /\ \/ ChosenNode' = ChosenNode
              \/ /\ ChosenNode' = None
                 /\ \/ treeCurrent' /\ ChosenNode \notin listed
                    \/ ChosenNode.start \in Untimed]_vars

\* While the tree counts as current, its nodes are the items filtered_processes_ owns:
\* CaptureTreeViewState, which follows their pointers, never reads a freed one.
TreeOwned == treeCurrent => nodes = Range(filtered)

\* What is on screen is what the condition and the search let through, once the timer
\* of the search is not running (ApplyFilterAndDisplay and its callers).
FilterApplied ==
  tab = "processes" /\ ~debounce /\ Idling =>
    Range(filtered) = Passing(all, condition) \cap Passing(all, search)
=============================================================================
