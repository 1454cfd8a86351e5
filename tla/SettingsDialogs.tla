-------------------------- MODULE SettingsDialogs --------------------------
(***************************************************************************)
(* The dialogs in which the user changes monitor rules, options and        *)
(* columns (monitor_dialog.cc, options_dialog.cc,                          *)
(* column_selector_dialog.cc), and what MainWindow does with their results *)
(* (main_window.cc): rules in settings_, in the monitor service and in     *)
(* their file, columns in settings_ and in the list view.                  *)
(*                                                                         *)
(* Every dialog works on a copy that its caller takes over after an OK.    *)
(* The tray menu is served while the main window is disabled, so dialogs   *)
(* open over dialogs and copies get old; a dialog below may be used, and   *)
(* even end, before the one above it.  A rule is an identity, a flag and a *)
(* text, the text standing for all the fields of the rule editor; a list   *)
(* has no selection of its own here: a button applies to the row the user  *)
(* has selected for it, as every refresh of a list drops the selection.    *)
(* Where several rows are selected, they are worked on one after the       *)
(* other.                                                                  *)
(***************************************************************************)
EXTENDS ModalDialogs, FiniteSets, SequencesExt

CONSTANTS
  Texts,          \* what a rule says: names, conditions, level, cooldown
  Blank,          \* what a new rule says, without a name
  Columns,        \* ProcessColumnId
  InitialRules,   \* lists of rules the program may find in its file
  InitialColumns, \* lists of columns it may find there, the default one among them
  DefaultColumns, \* ProcessColumnInfo::GetDefaultColumns
  Absent,         \* no rules file
  None,           \* no column
  MaxRules,       \* bound: identities of rules
  MaxDialogs,     \* bound: dialogs open at a time
  MaxEdits        \* bound: changes by the user, clicks on columns and failed saves

VARIABLES
  (* settings_ and what is made of it *)
  rules,       \* settings_.monitor_rules
  engine,      \* MonitorService::rules_
  rulesFile,   \* LPMMonitorRules.json
  columns,     \* settings_.columns
  shown,       \* visible_process_columns_, the columns of the list view
  sortColumn,  \* sort_column_index_ + 1: 0 for none
  headerIndex, \* context_header_col_index_ + 1: 0 for none
  (* the dialogs *)
  dialogs,     \* the stack of open dialogs, each with its copy
  (* bounds and history *)
  edits,       \* changes, clicks on columns and failed saves so far
  overwritten, \* an options dialog brought back rules older than the engine's
  unsaved      \* the last save of the rules failed

list == <<columns, shown, sortColumn, headerIndex>>
stored == <<rules, engine, rulesFile, overwritten, unsaved>>
vars == <<stored, list, dialogs, edits>>

-----------------------------------------------------------------------------
Ids == 1..MaxRules
Rules == [id : Ids, enabled : BOOLEAN, text : Texts]
ColumnInfos == [id : Columns, visible : BOOLEAN]

ASSUME DialogsAssumption ==
  /\ Blank \in Texts
  /\ None \notin Columns
  /\ InitialRules \subseteq Seq(Rules)
  /\ InitialColumns \subseteq Seq(ColumnInfos)
  /\ DefaultColumns \in Seq(ColumnInfos)
  /\ {MaxRules, MaxDialogs, MaxEdits} \subseteq Nat

\* What a dialog keeps. Of monitor and options the last fields are history: the
\* rules changed in the dialog, those changed in the engine since its copy was
\* taken, those changed on a row that had moved under the editor, and whether the
\* engine has had other rules than the copy since it was taken.
MonitorData == [rules : Seq(Rules), touched : SUBSET Ids, missed : SUBSET Ids,
                strayed : SUBSET Ids]
EditData    == [row : Nat, rule : Rules, seen : Seq(Rules)]
DeleteData  == [row : Nat, seen : Seq(Rules)]
AddData     == [rule : Rules]
OptionsData == [rules : Seq(Rules), columns : Seq(ColumnInfos), stale : BOOLEAN]
SelectData  == [columns : Seq(ColumnInfos)]

OfKind(kind, data) ==
  [kind : {kind}, owner : 0..MaxDialogs, result : Results, disables : BOOLEAN,
   data : data]

Frames ==
  OfKind("monitor", MonitorData) \cup OfKind("edit", EditData)
  \cup OfKind("delete", DeleteData) \cup OfKind("add", AddData)
  \cup OfKind("options", OptionsData) \cup OfKind("columns", SelectData)

TypeOK ==
  /\ rules \in Seq(Rules)
  /\ engine \in Seq(Rules)
  /\ rulesFile \in Seq(Rules) \cup {Absent}
  /\ columns \in Seq(ColumnInfos)
  /\ shown \in Seq(Columns)
  /\ sortColumn \in Nat
  /\ headerIndex \in Nat
  /\ dialogs \in Seq(Frames)
  /\ \A k \in DOMAIN dialogs : dialogs[k].owner < k
  /\ edits \in 0..MaxEdits
  /\ overwritten \in BOOLEAN
  /\ unsaved \in BOOLEAN

\* The rules on which two lists differ.
Differing(a, b) ==
  {r.id : r \in (ToSet(a) \ ToSet(b)) \cup (ToSet(b) \ ToSet(a))}

\* Where the visible ones are among the first columns, and among all of them.
VisibleUpTo(cols) ==
  LET upTo[n \in 0..Len(cols)] ==
        IF n = 0 THEN <<>>
        ELSE IF cols[n].visible THEN Append(upTo[n - 1], n) ELSE upTo[n - 1]
  IN upTo

VisibleIndices(cols) == VisibleUpTo(cols)[Len(cols)]

VisibleIds(cols) ==
  LET visible == VisibleIndices(cols)
  IN [i \in DOMAIN visible |-> cols[visible[i]].id]

\* SortItems: the column the list is sorted by, None when the index has none.
SortedBy ==
  IF sortColumn \in DOMAIN VisibleIds(columns)
  THEN VisibleIds(columns)[sortColumn]
  ELSE None

Init ==
  /\ rules \in InitialRules
  /\ engine = rules
  /\ rulesFile = rules
  /\ columns \in InitialColumns
  /\ shown = VisibleIds(columns)
  /\ sortColumn = 1
  /\ headerIndex = 0
  /\ dialogs = <<>>
  /\ edits = 0
  /\ overwritten = FALSE
  /\ unsaved = FALSE

-----------------------------------------------------------------------------
(* What the user may do, within the bounds.                                *)

MayOpen == Dispatching(dialogs) /\ Len(dialogs) < MaxDialogs

MayChange == Dispatching(dialogs) /\ edits < MaxEdits

Changed == edits' = edits + 1

\* EndDialog by the OK or the Cancel button of dialog k.
Press(k, kind, result) ==
  /\ Dispatching(dialogs)
  /\ InUse(dialogs, k, kind)
  /\ dialogs' = Ended(dialogs, k, result)

\* The call of the topmost dialog returns.
Returning(kind) ==
  /\ ~Dispatching(dialogs)
  /\ Last(dialogs).kind = kind

Accepted == Last(dialogs).result = "ok"

-----------------------------------------------------------------------------
(* Taking over rules: settings_, SetRules, SaveMonitorRules.               *)

\* A dialog that still holds an older copy misses the change.
Missing(f, new) ==
  CASE f.kind = "monitor" ->
         [f EXCEPT !.data.missed = @ \cup Differing(engine, new)]
    [] f.kind = "options" /\ engine # new ->
         [f EXCEPT !.data.stale = TRUE]
    [] OTHER -> f

\* Saving replaces the file, or fails and may have removed it.
SaveMonitorRules(new) ==
  \/ /\ rulesFile' = new
     /\ unsaved' = FALSE
     /\ UNCHANGED edits
  \/ /\ edits < MaxEdits
     /\ rulesFile' \in {rulesFile, Absent}
     /\ unsaved' = TRUE
     /\ Changed

TakeOver(new) ==
  /\ rules' = new
  /\ engine' = new
  /\ SaveMonitorRules(new)
  /\ overwritten' = FALSE
  /\ dialogs' = [k \in 1..Len(dialogs) - 1 |-> Missing(dialogs[k], new)]

-----------------------------------------------------------------------------
(* The monitor dialog.                                                     *)

\* From the tray menu at any time, from the main window when it is enabled.
OpenMonitorSettings ==
  /\ MayOpen
  /\ dialogs' = Opened(dialogs, "monitor", 0,
                       [rules |-> rules, touched |-> {}, strayed |-> {},
                        missed |-> Differing(rules, engine)])
  /\ UNCHANGED <<stored, list, edits>>

OnToggleRuleEnabled(k, row) ==
  /\ MayChange
  /\ InUse(dialogs, k, "monitor")
  /\ row \in DOMAIN dialogs[k].data.rules
  /\ dialogs' = [dialogs EXCEPT
                   ![k].data.rules[row].enabled = ~@,
                   ![k].data.touched = @ \cup {dialogs[k].data.rules[row].id}]
  /\ Changed
  /\ UNCHANGED <<stored, list>>

\* The editor of a rule as a dialog over the main window.
OpenEditorOverMain(k, row, rule) ==
  dialogs' = Opened(dialogs, "edit", 0,
                    [row |-> row, rule |-> rule, seen |-> dialogs[k].data.rules])

\* The editor gets a copy of the rule, and the address the result goes to: a row
\* of the list, or 0 for a rule to be appended.
OpenEditor(k, row, rule) ==
  dialogs' = Opened(dialogs, "edit", k,
                    [row |-> row, rule |-> rule, seen |-> dialogs[k].data.rules])

OnEditRule(k, row) ==
  /\ MayOpen
  /\ InUse(dialogs, k, "monitor")
  /\ row \in DOMAIN dialogs[k].data.rules
  /\ OpenEditor(k, row, dialogs[k].data.rules[row])
  /\ UNCHANGED <<stored, list, edits>>

\* GenerateId: an identity that no list and no dialog knows.
KnownTo(f) ==
  CASE f.kind = "monitor" ->
         {r.id : r \in ToSet(f.data.rules)} \cup f.data.touched \cup f.data.missed
    [] f.kind = "options" -> {r.id : r \in ToSet(f.data.rules)}
    [] f.kind \in {"edit", "add"} -> {f.data.rule.id}
    [] OTHER -> {}

FreshIds ==
  Ids \ ({r.id : r \in ToSet(rules) \cup ToSet(engine)}
         \cup UNION {KnownTo(dialogs[k]) : k \in DOMAIN dialogs})

\* A new rule has an identity before it has a name; which one makes no difference.
NewRule ==
  [id |-> CHOOSE id \in FreshIds : TRUE, enabled |-> TRUE, text |-> Blank]

OnAddRule(k) ==
  /\ MayOpen
  /\ FreshIds # {}
  /\ InUse(dialogs, k, "monitor")
  /\ OpenEditor(k, 0, NewRule)
  /\ UNCHANGED <<stored, list, edits>>

\* The prompt names the rule and remembers its row.
OnDeleteRule(k, row) ==
  /\ MayOpen
  /\ InUse(dialogs, k, "monitor")
  /\ row \in DOMAIN dialogs[k].data.rules
  /\ dialogs' = Opened(dialogs, "delete", k,
                       [row |-> row, seen |-> dialogs[k].data.rules])
  /\ UNCHANGED <<stored, list, edits>>

\* RuleEditDialogProc: the rule says what the controls say when OK is pressed, be
\* it what they were given from the former rule or not; a rule needs a name.
RuleEditOk(k, text) ==
  /\ MayChange
  /\ InUse(dialogs, k, "edit") \/ InUse(dialogs, k, "add")
  /\ text # Blank
  /\ dialogs' = [Ended(dialogs, k, "ok") EXCEPT ![k].data.rule.text = text]
  /\ Changed
  /\ UNCHANGED <<stored, list>>

\* OK of a dialog, Yes of the prompt.
PressOk(k) ==
  /\ \E kind \in {"monitor", "options", "columns"} : Press(k, kind, "ok")
  /\ UNCHANGED <<stored, list, edits>>

PressYes(k) ==
  /\ MayChange
  /\ Press(k, "delete", "ok")
  /\ Changed
  /\ UNCHANGED <<stored, list>>

PressCancel(k) ==
  /\ \E kind \in {"monitor", "edit", "add", "delete", "options", "columns"} :
       Press(k, kind, "cancel")
  /\ UNCHANGED <<stored, list, edits>>

\* A call that returns to the caller of a dialog below, whose list becomes one of
\* news, a rule having been worked on.
Resume(owner, news, id, moved) ==
  LET data == dialogs[owner].data
  IN \E new \in news :
       dialogs' = [Front(dialogs) EXCEPT
                     ![owner].data = [data EXCEPT
                                        !.rules = new,
                                        !.touched = @ \cup {id},
                                        !.strayed = IF moved THEN @ \cup {id} ELSE @]]

\* The list has changed since the dialog over it was opened.
Moved(owner, seen) == dialogs[owner].data.rules # seen

\* ShowRuleEditModal returns and writes through the address it was given. When the
\* vector has been changed under it, that address holds another rule or none.
EditReturns ==
  LET owner == Last(dialogs).owner
      edit  == Last(dialogs).data
      into  == dialogs[owner].data.rules
      moved == edit.row # 0 /\ Moved(owner, edit.seen)
      news  == {new \in {Append(into, edit.rule)} : edit.row = 0}
               \cup {ReplaceAt(into, row, edit.rule) : row \in DOMAIN into \cap {edit.row}}
               \cup {old \in {into} : moved}
  IN /\ Returning("edit")
     /\ IF Accepted
        THEN Resume(owner, news, edit.rule.id, moved)
        ELSE dialogs' = Front(dialogs)
     /\ UNCHANGED <<stored, list, edits>>

\* The row after the one asked about is erased.
ErasedBelow(from, row) == IF row + 1 \in DOMAIN from THEN RemoveAt(from, row + 1) ELSE from

\* The row is erased if there still is one of that number.
Erased(from, row) == IF row \in DOMAIN from THEN RemoveAt(from, row) ELSE from

DeleteReturns ==
  LET owner  == Last(dialogs).owner
      prompt == Last(dialogs).data
  IN /\ Returning("delete")
     /\ IF Accepted
        THEN Resume(owner, {Erased(dialogs[owner].data.rules, prompt.row)},
                    prompt.seen[prompt.row].id, Moved(owner, prompt.seen))
        ELSE dialogs' = Front(dialogs)
     /\ UNCHANGED <<stored, list, edits>>

MonitorReturns ==
  /\ Returning("monitor")
  /\ IF Accepted
     THEN TakeOver(Last(dialogs).data.rules)
     ELSE dialogs' = Front(dialogs) /\ UNCHANGED <<stored, edits>>
  /\ UNCHANGED list

-----------------------------------------------------------------------------
(* AddSelectedProcessToMonitor: the editor over the main window.           *)

AddSelectedProcessToMonitor ==
  /\ MayOpen
  /\ Enabled(dialogs, 0)
  /\ FreshIds # {}
  /\ dialogs' = Opened(dialogs, "add", 0, [rule |-> NewRule])
  /\ UNCHANGED <<stored, list, edits>>

\* The rule is appended, but the monitor service is not told.
AddReturnsUntold ==
  /\ Returning("add")
  /\ dialogs' = Front(dialogs)
  /\ IF Accepted
     THEN rules' = Append(rules, Last(dialogs).data.rule)
     ELSE UNCHANGED rules
  /\ UNCHANGED <<engine, rulesFile, overwritten, unsaved, list, edits>>

\* The new rule is appended to settings_.monitor_rules as they are by now.
AddReturns ==
  /\ Returning("add")
  /\ IF Accepted
     THEN TakeOver(Append(rules, Last(dialogs).data.rule))
     ELSE dialogs' = Front(dialogs) /\ UNCHANGED <<stored, edits>>
  /\ UNCHANGED list

-----------------------------------------------------------------------------
(* The options dialog, of which only the copy of what it does not show     *)
(* matters here.                                                           *)

OpenOptionsDialog ==
  /\ MayOpen
  /\ Enabled(dialogs, 0)
  /\ dialogs' = Opened(dialogs, "options", 0,
                       [rules |-> rules, columns |-> columns,
                        stale |-> rules # engine])
  /\ UNCHANGED <<stored, list, edits>>

\* settings_ becomes the dialog's copy, the monitor service is left alone, and
\* UpdateLanguageAndUI builds the columns of the list view anew.
OptionsReturns ==
  /\ Returning("options")
  /\ dialogs' = Front(dialogs)
  /\ IF Accepted
     THEN LET copy == Last(dialogs).data
          IN /\ rules' = copy.rules
             /\ columns' = copy.columns
             /\ shown' = VisibleIds(copy.columns)
             /\ overwritten' = copy.stale
     ELSE UNCHANGED <<rules, columns, shown, overwritten>>
  /\ UNCHANGED <<engine, rulesFile, unsaved, sortColumn, headerIndex, edits>>

-----------------------------------------------------------------------------
(* The column selector and the columns of the list view.                   *)

OpenColumnSelectorDialog ==
  /\ MayOpen
  /\ Enabled(dialogs, 0)
  /\ dialogs' = Opened(dialogs, "columns", 0, [columns |-> columns])
  /\ UNCHANGED <<stored, list, edits>>

\* What the buttons and the check boxes make of the columns in the dialog.
Swapped(cols, i, j) == [cols EXCEPT ![i] = cols[j], ![j] = cols[i]]

Checked(cols, i) == [cols EXCEPT ![i].visible = ~@]

AllSelected(cols) == [i \in DOMAIN cols |-> [cols[i] EXCEPT !.visible = TRUE]]

SelectColumns(k) ==
  /\ MayChange
  /\ InUse(dialogs, k, "columns")
  /\ LET cols == dialogs[k].data.columns
     IN \E new \in {Swapped(cols, i, i + 1) : i \in 1..Len(cols) - 1}
                   \cup {Checked(cols, i) : i \in DOMAIN cols}
                   \cup {AllSelected(cols), DefaultColumns} :
          dialogs' = [dialogs EXCEPT ![k].data.columns = new]
  /\ Changed
  /\ UNCHANGED <<stored, list>>

\* The list is built anew; the index it is sorted by stays what it was.
ColumnsReturn ==
  /\ Returning("columns")
  /\ dialogs' = Front(dialogs)
  /\ IF Accepted
     THEN /\ columns' = Last(dialogs).data.columns
          /\ shown' = VisibleIds(columns')
     ELSE UNCHANGED <<columns, shown>>
  /\ UNCHANGED <<stored, sortColumn, headerIndex, edits>>

\* LVN_COLUMNCLICK, of whose two directions none is told apart.
ClickColumn(i) ==
  /\ MayChange
  /\ Enabled(dialogs, 0)
  /\ i \in DOMAIN shown
  /\ sortColumn' = i
  /\ Changed
  /\ UNCHANGED <<stored, columns, shown, headerIndex, dialogs>>

\* The list goes on to be sorted by the same index.
SortLeft(i) == sortColumn

\* The list stays sorted by the column it was, unless that is the one hidden.
SortAfterHiding(i) ==
  IF sortColumn = i THEN 0 ELSE IF sortColumn > i THEN sortColumn - 1 ELSE sortColumn

\* The last column is not hidden.
HideColumnByIndex(i) ==
  /\ MayChange
  /\ Enabled(dialogs, 0)
  /\ i \in DOMAIN VisibleIndices(columns)
  /\ Len(VisibleIndices(columns)) > 1
  /\ columns' = [columns EXCEPT ![VisibleIndices(columns)[i]].visible = FALSE]
  /\ shown' = VisibleIds(columns')
  /\ sortColumn' = SortAfterHiding(i)
  /\ Changed
  /\ UNCHANGED <<stored, dialogs>>

\* The menu of the header or the list remembers the column clicked on.
OpenColumnMenu(i) ==
  /\ MayChange
  /\ Enabled(dialogs, 0)
  /\ i \in 0..Len(shown)
  /\ headerIndex' = i
  /\ Changed
  /\ UNCHANGED <<stored, columns, shown, sortColumn, dialogs>>

\* IDM_HIDE_COLUMN, from a menu that was opened on a column or from that of the
\* tree, which was opened on none.
HideColumn ==
  /\ HideColumnByIndex(headerIndex)
  /\ UNCHANGED headerIndex

-----------------------------------------------------------------------------
RulesDialog(k) ==
  \/ OnAddRule(k)
  \/ \E row \in DOMAIN dialogs[k].data.rules :
       OnToggleRuleEnabled(k, row) \/ OnEditRule(k, row) \/ OnDeleteRule(k, row)

Next ==
  \/ OpenMonitorSettings
  \/ \E k \in DOMAIN dialogs :
       \/ dialogs[k].kind = "monitor" /\ RulesDialog(k)
       \/ \E text \in Texts : RuleEditOk(k, text)
       \/ SelectColumns(k)
       \/ PressOk(k)
       \/ PressYes(k)
       \/ PressCancel(k)
  \/ EditReturns
  \/ DeleteReturns
  \/ MonitorReturns
  \/ AddSelectedProcessToMonitor
  \/ AddReturns
  \/ OpenOptionsDialog
  \/ OptionsReturns
  \/ OpenColumnSelectorDialog
  \/ ColumnsReturn
  \/ \E i \in 0..Cardinality(Columns) : ClickColumn(i) \/ OpenColumnMenu(i)
  \/ HideColumn

Spec == Init /\ [][Next]_vars

-----------------------------------------------------------------------------
(* Properties                                                              *)

\* Taking over the rules of a dialog adds, removes or changes no rule but those
\* the user worked on in it and those that changed in the engine after the copy
\* was taken, unless a change of the user landed on a row that had moved.
NothingElseChanges ==
  [][engine' # engine =>
       LET f == Last(dialogs)
           changed == Differing(engine, engine')
       IN \/ /\ f.kind = "monitor"
             /\ f.data.strayed # {} \/ changed \subseteq f.data.touched \cup f.data.missed
          \/ /\ f.kind = "add"
             /\ changed \subseteq {f.data.rule.id} \cup Differing(rules, engine)]_vars

\* As long as the editor or the prompt is on screen, the list under it is the one
\* it was opened over: the row it will write or erase is still the rule it shows.
EditorsPointHome ==
  \A k \in DOMAIN dialogs :
    /\ dialogs[k].kind \in {"edit", "delete"}
    /\ dialogs[k].result = "open"
    => \E owner \in DOMAIN dialogs :
         /\ owner = dialogs[k].owner
         /\ dialogs[owner].kind = "monitor"
         /\ dialogs[owner].data.rules = dialogs[k].data.seen

\* The rules that are evaluated are those the next dialog will show, unless an
\* options dialog has brought back older ones, and those the next start will
\* find, unless they could not be saved.
RulesInForce ==
  /\ rules = engine \/ overwritten
  /\ rulesFile = engine \/ unsaved

\* The list view shows the visible columns in their order, and hiding one takes
\* that one away, not the last, and leaves the list sorted as it was.
ColumnsKept ==
  [][/\ shown' = VisibleIds(columns')
     /\ headerIndex > 0 /\ columns' # columns /\ dialogs' = dialogs =>
          /\ shown' = RemoveAt(shown, headerIndex)
          /\ shown' # <<>>
          /\ SortedBy' = IF sortColumn = headerIndex THEN None ELSE SortedBy]_vars
=============================================================================
