# A TLA+ verification of LiteProcManager

LiteProcManager is a Windows process and service manager (C++17, Win32). This
directory holds TLA+ models of the parts of it in which order matters, the TLC
configurations that check them on small instances and the theorems TLAPS proves
about them. Paths are those of the repository, under `src/`.

## 1. Inventory

The program has one UI thread, which runs the window procedure, the timers and
every dialog (each with a message loop of its own), and one worker thread, which
enumerates services. Everything else it interacts with runs beside it: the
processes and services it shows, the Service Control Manager (SCM), the settings
files another instance of the program may write, and the user.

| component | state | operations | interacts with |
|---|---|---|---|
| `ServiceManagerService` (`service_manager_service.cc`) | configuration cache and its revision, under a mutex | `GetServicesSnapshot`, `ChangeStartupType`; start, stop, restart | SCM; called from the worker (snapshot) and the UI thread (the rest) |
| Services tab of `MainWindow` (`main_window.cc` 2800-3221) | list, rows, selection, search, open menu | search, sort, menu, commands, the way to a process and back | posted snapshots and commands, `ServiceManagerService`, the Processes tab |
| service refresh of `MainWindow` (`main_window.cc` 2863-2927, 3360-3372) | request flag and generations, stop flag, posted snapshots, the list on screen | request, take, snapshot, post, apply, stop | condition variable, message queue, `ServiceManagerService` |
| `EnumerateServiceStatusRecords` (`service_enumeration_helper.cc`) | a page buffer, a resume handle | page through the SCM's list | SCM |
| `ProcessSnapshotService` (`process_snapshot_service.cc`) | previous times per PID, static details per PID | `GetSnapshot`, details, `TerminateProcess`, `TerminateProcessTree`, `SetPriority`, `BuildProcessTree` | the kernel: processes come and go between any two calls, PIDs are reused |
| `MonitorService`, `MonitorRule` (`monitor_service.cc`, `monitor_rule.cc`) | rules, time of the last notification per rule and PID, the last 100 events | `SetRules`, `CheckProcesses` | each process refresh; toasts |
| process refresh and view of `MainWindow` | current tab, timer, list, filters, sort, selection | timer tick, tab switch, filter, end process, priority | `ProcessSnapshotService`, `MonitorService` |
| settings of `MainWindow`, `AppSettings` (`app_settings.cc`) | settings in memory, pending debounced save, pending theme, the files | load, atomic save, debounce, dialogs, close, restart | the file system, other instances |
| single instance, restart (`main.cc`, `main_window.cc` 2135-2212) | a named mutex | start, restart, restart elevated | other instances of the program |
| `ToastWindow` (`toast_window.cc`) | the visible toasts | show, expire, close, reposition | timers |
| dialogs (`monitor_dialog.cc`, `options_dialog.cc`, `column_selector_dialog.cc`) | working copies of rules, columns, options | edit, add, delete, reorder, accept | `MainWindow`, `MonitorService`, `AppSettings`, and each other: the tray menu opens dialogs over dialogs |
| theme, language, icons, export, URL and JSON helpers, `third_party/jsoncpp` | - | formatting and drawing | - |

What is hard in it, with the lines where it bites, is the list "hazards" of
`PROJECT.json`.

What makes each part correct, in a sentence:

- cache: an entry is never older than a change this program has made itself, and
  other programs' changes are hidden for no more than the cache's lifetime;
- service refresh: the list on screen answers its request with what was true when
  it was made, moves forward only, is whole, and no request, message or thread is
  lost, not even while the window closes;
- enumeration: the list is whole or there is none, and the loop ends;
- monitoring: a cooldown neither lets a notification through early nor swallows
  one for good, and the exit of a watched process is noticed;
- ending processes: no process but the chosen ones and their descendants is
  touched, however old the list is, and success means they are gone;
- snapshot: a process has its own details and its own CPU time, not those of an
  earlier holder of its PID;
- list and tree: what is on screen passes the filter, the control never follows the
  pointer to an item that is gone, and only the user moves the selection;
- settings: what the user chose last survives saves, crashes and restarts;
- Services tab: the rows are the services listed that pass the search, and a command
  reaches the service its menu was opened for, whatever was listed meanwhile;
- restart of a service: success means that it has been started anew;
- dialogs: what one takes over undoes nothing that was done in another, an editor
  writes to the rule it shows, and the rules that run are those shown and saved;
- toasts: each window and its object go together and once, the stack has no gap, and
  every toast goes away;
- single instance: a running instance stays protected, and there is only one.

## 2. Modules

A module's variables carry the names of the members and locals they stand for
(`requestedGeneration` is `service_refresh_requested_generation_`), and its actions those of the functions. An action is what one
thread does between two points at which another thread, another process, the
kernel or the user can interfere. "History" variables, which no action reads,
record what the properties compare the present with.

| module | models | lines of the source |
|---|---|---|
| `ServiceConfigCache` | `GetServicesSnapshot` and `ChangeStartupType` over the cache | `service_manager_service.cc` 43-168, 271-313 |
| `ServiceRefresh` | extends it with the request protocol, the worker, the messages and the shutdown | `main_window.cc` 2863-2927, 3086-3102, 3360-3372 |
| `ServiceView` | abstract: what the Services tab promises | implemented by `ServiceRefresh` |
| `ServiceControl` | start, stop and restart beside the SCM: variables and actions that `ServicesTab` extends | `service_manager_service.cc` 170-279 |
| `ServicesTab` | the tab: list, search, selection, menu and commands | `main_window.cc` 2800-3221, 3360-3400, 3567-3591, 3716-3736 |
| `ServiceEnumeration` | the paging loop below `GetServicesSnapshot` | `service_enumeration_helper.cc` |
| `ProcessMonitor` | rules, cooldowns, not-found alerts, driven by the refreshes of the Processes tab | `monitor_service.cc`, `monitor_rule.cc`, `main_window.cc` 1205-1229 |
| `Toasts` | the stack of toasts, their timers, windows and objects | `toast_window.cc` |
| `MonitorToasts` | composes the two: each alert shows a toast | `monitor_service.cc` 115-152, `monitor_dialog.cc` 558-584 |
| `ProcessTree` | the parent relation: operators only | `process_snapshot_service.cc` 54-87, 587-610, 662-693 |
| `ProcessTermination` | end process, end tree, priority, over `ProcessTree` | `process_snapshot_service.cc` 89-113, 575-660, `main_window.cc` 1849-1914 |
| `ProcessSnapshot` | `GetSnapshot` and `EnrichProcessDetails`, one process at a time, beside the kernel | `process_snapshot_service.cc` 178-305, 341-535 |
| `ProcessView` | extends it with the refresh, the filters, the list, the tree and their selections | `main_window.cc` 1210-1299, 1376-1808, 2379-2387, 2800-2822, 3374-3400, 3439-3450 |
| `SettingsStore` | extends `ModalDialogs`; settings in memory, in the copies of open dialogs and on disk, the mutex, restarts | `app_settings.cc`, `main_window.cc` 1251-1299, 1427-1446, 2135-2260, 3870-3900, `main.cc` |
| `SavedSettings` | abstract: what is promised of the settings | implemented by `SettingsStore` |
| `ModalDialogs` | what Windows does with nested modal dialogs: operators only, external | |
| `SettingsDialogs` | the dialogs' copies and what is taken over from them, the rules file, the columns of the list | `monitor_dialog.cc`, `options_dialog.cc`, `column_selector_dialog.cc`, `process_column.cc`, `main_window.cc` 1137-1163, 2063-2070, 2229-2260, 2282-2387 |
| `*Proofs` | theorems and proofs about the module they are named after; `ServiceRefreshProofs` also about `ServiceConfigCache`, `ProcessMonitorProofs` about `Toasts` and `MonitorToasts`, `ProcessViewProofs` about `ProcessSnapshot` | |
| `MC*` | TLC's constants for the module they are named after | |

`PROJECT.json` maps every definition to its lines.

### Service refresh

Two threads. The UI thread requests (`RequestRefresh`, `NotifyRequest`), applies
posted snapshots (`HandleSnapshot`), changes startup types (`ChangeInScm`, then
`ChangeInCache`, with the lock taken only for the second) and shuts down
(`StopWorker`, `NotifyStop`, `JoinWorker`, `DrainMessages`). The worker takes the
request under the lock (`TakeRequest`), runs `GetServicesSnapshot` one service and
one SCM call at a time, looks at the cancellation flag and posts. A configuration
is the number of changes the service has seen, so "older" is "smaller". The
condition variable is modelled as it is specified: `notify_one` reaches a sleeping
worker only, and a sleeping worker may wake up on its own.

`ServiceView` says the same to the user without threads: requests are numbered,
lists answer requests, the list on screen moves to later requests only, nothing
moves once the window closes. `ServiceRefresh` implements it under the mapping in
`View`.

`Pending` says where a request can be on its way, `SleepsOnlyWhenIdle` that the worker
does not sleep over it, and `Remaining` counts the steps of both threads to the end
once the window closes: it may be in the middle of a snapshot then, but asks for no
further service.

### Services tab

Everything on this tab happens on the UI thread, and the order of its messages is what
matters. `queue` holds what has been posted: snapshots of the worker and the commands of
a menu, which `TrackPopupMenu` posts. Of the worker there are two steps (its others are in
`ServiceRefresh`): it takes the request and queries (`WorkerTakes`), and posts what it has
got (`WorkerPosts`), which a full queue refuses; the queue is filled by what else is
posted to the thread, so that a refusal is possible at any post. Posted messages go before input and
timers (`Idle`, `Input`), and they are also served by the loop of an open menu or message
box. A command carries no service: it goes to the first selected row when it is
served. The note `for` in it records what the menu was built for.

`UpdateServiceListView` deletes all rows, and a deleted row takes its selection with it;
that is what keeps a command from another service, and a mutant that writes the rows
over instead breaks `CommandReachesItsService`. The two jumps compare PIDs, and a service
that is stopped has PID 0 (`HostOf`): coming from the System Idle Process, one finds all
of them selected. A restart is one call of the UI thread:
between `BeginRestart` and `EndRestart` services change and the worker posts, but
nothing is served (`Serving`).

### Enumeration

A service is its place in the SCM's list, the resume handle is the number of
services handed out. `Documented` is what `EnumServicesStatusExW` promises (as many
as fit, in order, and how many bytes are still needed); the answers of the run
include those it does not promise, wrong handles, counts that exceed the buffer,
errors. `stable` records whether all answers so far were documented ones.

### Process monitoring

A process is a PID, a name and the set of conditions its figures meet; a rule is
what `MonitorRule` holds, with the pattern reduced to the names or the PIDs it selects.
`CheckProcesses` is one action, as it runs on the UI thread without interruption;
the interleaving is between refreshes: processes come and go, figures change, PIDs
are reused, rules are replaced, the tab is switched, snapshots fail.

### Toasts

`Toasts` is `toast_window.cc` with a toast identified by its window handle, which is
given out again. `ShowToast` comes in one step with the check that raises the alerts; a
window may fail to come up, before any of its messages or after all of them, and a
timer may be refused, as the result of `SetTimer` is not looked at. `deleted` counts how
often the object of a handle has been deleted: its two owners are `ShowToast`, until
`CreateWindowExW` returns, and `WM_NCDESTROY`. `MonitorToasts` puts the toasts beside the
monitor: `Refresh` is `RefreshData` with the toasts for what it raised, and every other
action of either moves alone.

### Ending processes

The user chooses from `allProcesses`, the list of some refresh; while the
confirmation box is open the timer replaces that list; between two calls processes
exit and start. A process is identified by its PID and its birth; the program
sees a start time, which may be unknown and may equal that of another process. No process
is its own parent, but the PID of a parent that is gone may be that of any other.
`TerminateProcessTree` is the code's own traversal, an explicit stack from which an
item is ended when it comes to light for the second time. `lineage` (history) is
the true ancestry the kernel knows.

### Process list, tree and snapshot

A process is the number of its start, which also stands for its details; the start time
the program sees is that number, but for the process in `Untimed`, at most one, which has
none: the System Idle Process. `GetProcessIdentity` makes nothing of an item without a start
time, so that its selection is lost whenever a control is brought up to date, which
`SelectionStays` exempts (`Lasting`). The kernel hands
over its table in one step (`QueryTable`); then the processes are asked one at a
time (`EnrichProcessDetails`), and in between they end, start and use CPU time. The
UI thread is inside `GetSnapshot` all that time, so the user acts only when no table
is being worked on (`Idling`). `FinishRefresh` is what `RefreshData` does after that
without interruption.

The list control is virtual and knows numbers of rows only, the tree control keeps
raw pointers: `rows` and `selected`, `nodes` and `node` are what the controls believe,
`all`, `display` and `filtered` the vectors of the program. `ApplyFilterAndDisplay` is
the whole function: capture what the control on screen shows, replace
`filtered_processes_`, update one of the two controls. Each control remembers its
selection while the other is on screen (`savedList`, `savedTree`). A node whose item
has been freed is `Freed`, from which there is no way back to a process. The user's
commands follow the handlers; a click in a control is the control's own doing.

Left out: focus, first visible row and expanded branches, which are captured and
restored in the way of the selection; the columns, which are in `SettingsDialogs`; the
shape of the tree, which `ProcessTree` models; the jump from a service to its process,
which is `OnTabChanged` and a selection by PID; the details of the PIDs 0 and 4, which are
constants and not asked for. The model lets them end like any other.

### Settings and the single instance

Processes of the program. Of the settings, the model keeps the two that can
diverge from the file, each in its own direction: a theme is written to the file at
once and gets into memory at the next start, a filter gets into memory at once and
into the file 500 ms later. `WriteTemporary` and `Replace` are the steps of
`WriteUtf8File`, each of which can fail, or be the last one before a crash.
`CreateMutex` to `RestoreSingleInstanceLock` are the life of the mutex: it is
released before `ShellExecuteExW` starts the successor, and asked for again when that
fails; `CreateMutexW` may then refuse it, and the instance goes on all the same
(`refused`, which `StaysProtected` exempts).

The options dialog works on a copy of the settings: `OpenOptionsDialog` takes it,
`AcceptOptions` ends the dialog, and `TakeOver` puts the copy in place of `settings_` when
the call returns. These are three steps, because a dialog that the tray menu has opened over
the options (`OpenOther`) holds the call back, and the main window is enabled again
meanwhile (`dialogs`, `ModalDialogs`): the user edits the filter there, closes or restarts
the program, or opens the options once more. A copy that was overtaken in this way (`stale`) still
replaces the settings, the newer filter with them. The question whether to restart is a dialog of
its own (`"restart"`).

`chosen` (history) is what the user set last; an options dialog sets when its call
returns, and what a late one puts in place is what counts from then on. It is corrected when a
crash or a failed save loses it. `ThemeKept` and `FilterKept` say that nothing else loses
it.

`SavedSettings` is that without processes, handlers, timers and temporary files: what
the user chose is what the next start finds, or a save of it is pending, under way or has
failed (`Dirty`); a write stores nothing but the choice; a choice is replaced by an earlier
one only if an open dialog held that back (`Revert`); and nothing is promised while two
instances work side by side. `SettingsStore` implements it under the mapping in
`Saved`.

### Dialogs

Every dialog works on a copy that its caller takes over after OK. While it is open, the
main window is disabled, but the tray menu is not: `WM_APP_TRAYMSG` opens the monitor dialog
over whatever is open. `ModalDialogs` is what Windows does then: the dialogs form
a stack, the last one's loop runs, a dialog below that is not its owner stays
enabled and may even end (`EndDialog`), but its call returns only when those above have
returned. `dialogs` is that stack, each frame with its copy and, for an editor or a
prompt, the row it will write to and the list it was opened over (`seen`).

`TakeOver` is what follows an accepted list of rules: `settings_`, `SetRules` and the
file, which may fail. The options dialog takes over a copy of all settings, rules and
columns included, without telling the monitor service (`OptionsReturns`). The history
fields say who is to blame: `touched` are the rules worked on in the dialog, `missed`
those that changed in the engine after the copy was taken.

The columns share the module because the options dialog brings back a copy of them, too:
`SelectColumns`, `HideColumnByIndex` and the two indices the window keeps, of the
column it sorts by and of the one that was clicked on.

## 3. Runs

| run | specification | checks |
|---|---|---|
| `service_refresh` | `Spec` | `CacheHoldsOwnChanges`, `BoundedStaleness`, `FreshDisplay`, `SnapshotsAccountedFor`, `SleepsOnlyWhenIdle`, `NoRequestForgotten`, `ShutdownIsShort`, the refinement `ViewSpec` |
| `service_refresh_live` | `FairSpec` | `ChangeReachesDisplay`, `ShutdownCompletes` |
| `services_tab` | `Spec` | `ListFollows`, `CommandReachesItsService`, `RestartIsNew` |
| `enumeration` | `FairSpec` | `AllOrNothing`, `NoNeedlessFailure`, `Returns` |
| `monitor` | `Spec` | `CooldownKept`, `NothingSilenced` |
| `monitor_toasts` | `ToastsSpec` | `OneOwner`, `Stacked`, `RightTimerRuns`, `ExitReported`, `ToastsGo` |
| `monitor_tab` | `FairSpec` | `ExitReportedOnAnyTab`: violated |
| `termination` | `Spec` | `EveryProcessShownOnce`, `OnlyChosenTouched`, `SuccessMeansGone` |
| `termination_children` | `Spec` | `AllChildrenEnded`: violated |
| `process_view` | `Spec` | `DetailsOfLiving`, `ChargedOnce`, `TreeOwned`, `FilterApplied`, `SelectionStays` |
| `settings` | `Spec` | `ThemeKept`, `FilterKept`, `FileWhole`, `StaysProtected`, the refinement `SavedSpec` |
| `dialogs` | `Spec` | `EditorsPointHome`, `RulesInForce`, `NothingElseChanges`, `ColumnsKept` |

The types (`TypeOK` of each module) are proved, for every value of the constants
(section 5), so that no run spends a check on them. Every property of a
passing run is broken by a mutant of the code, a variant of one action or operator
that stands before it in its module ("mutants" in `PROJECT.json`): the revision of
the cache is not bumped, a cooldown starts anew whenever it suppresses, the parent
is looked up by PID alone, a save takes the active theme, an editor is opened over the
main window instead of its dialog, a toast ends only when its alpha hits 0.

### Bounds

- `service_refresh`: one service, two changes, three requests, two cache lifetimes,
  a queue of two messages (so that it can be full). Services share only the revision,
  and `CacheHoldsOwnChanges` and `BoundedStaleness` are proved for any number of
  them; two changes are needed for one to be invalidated while a query for the other
  is under way, three requests for one to be taken, one merged and one waiting.
  The liveness run leaves out the clock and has two requests and a queue of one message, so
  that the post of the second can be refused while the first waits to be applied: nothing
  asks for a refused snapshot again, and `ChangeReachesDisplay` exempts it
  (`FoundQueueFull`). Without the exemption the run fails. It was also made once with three
  requests and a queue of two.
- `enumeration`: lists of up to three services, buffers of 1 to 4 units, five pages;
  a service larger than the largest buffer, one as large, and one that needs two
  doublings all occur. The real bounds are 64 KiB, 256 KiB (two doublings) and 4096
  pages.
- `monitor`: two PIDs, one name, one condition, and three lists of rules: a load rule and
  a not-found rule with a cooldown of one second, a rule that selects everything with one
  of two, and the load rule for one PID; two ticks to the second (so
  that truncation to seconds matters), a history of two events. `monitor_tab` has
  two names and no clock.
- `monitor_toasts`: one PID, two names, a history of two events, two alerts per rule and
  process, two window handles, so that a handle is given out again while the other toast
  is shown, and toasts can be fewer than alerts. A toast starts at 3 and fades by 2 (255 and 25 in the
  code): what matters is that the step does not divide the start.
- `services_tab`: two services that share a process, a search that lets both through and
  one that lets none through, two polls
  of a restart (50 in the code) and one start of each service; enough for a row to move
  or vanish under an open menu and for another program to stop the service during a
  restart, or to start it before the restart does. The run was also made once with every
  search over the two, and the theorems hold for any number. Services are only compared, hence the
  symmetry. The queue needs no bound of its own: a request is made once the queue is empty, one more
  may be with the worker, and a menu posts one command. That a post is refused is a choice.
- `dialogs`: three identities of rules, two columns, three dialogs open at a time and
  two changes by the user: a monitor dialog with an editor, and another monitor dialog
  over both. The run was also made once with four dialogs and two changes (a second
  dialog with its own editor), and with two dialogs and three changes.
- `termination`: three PIDs and a clock of two ticks: a PID can be reused, an item
  can be a grandchild, start times can be equal. PIDs are only compared, hence the
  symmetry. One chosen item for the safety properties, two for the finding; the
  theorem `OnlyChosen` covers any number.
- `process_view`: two PIDs, two processes in the life of the run, of which the second has no
  start time, a CPU time of 0 or 1, one filter that lets everything through and one that
  does not. That is enough for
  a PID to be reused between two tables and between a table and a query for details,
  for a successor to have used as much CPU time as its predecessor, for rows to
  change places, and for a selected row to vanish and come back. The run was also made
  once with a start time for both, and `SelectionStays` with three processes without CPU times.
  PIDs are only compared, hence the symmetry.
- `settings`: two processes, which is what it takes for one to start while the
  other restarts; two themes, two filters of which one is read back as the other; and
  two dialogs, the options and one over them, so that the call of the options can return after
  a filter was edited in the main window. While two instances are at work side by side the
  user does not work in their main windows (`SideWork`), but closes or crashes them, and they
  flush and write: nothing is promised then but `FileWhole` and `StaysProtected`. The
  run was also made once with `SideWork` and one dialog (without the refinement), and with one process and
  three dialogs, where a second options dialog is overtaken by the first; the theorems cover any number of
  each, with `SideWork` and without. A restart needs a free process to start; with two, a third can
  not interfere.

Where a bound stops the counters (`MaxClock`, `MaxAlerts`, `MaxGenerations`) the
system may stop, and deadlock is not checked; after `closed` it stops by design.

### Fairness

- Worker and UI thread of `ServiceRefresh`: weak fairness of every step each
  thread has begun, and of handling a posted message. The threads are scheduled by
  the operating system and neither loops without end; the user is not assumed to do
  anything, nor is the SCM assumed to succeed (`SnapshotFails` is always enabled).
- `ProcessMonitor` and `MonitorToasts`: weak fairness of `RefreshData`, because the
  refresh timer (`SetTimer`) fires as long as the interval is not 0. Nothing is assumed of the
  user, of the processes, or of a snapshot's success: a snapshot that fails comes
  back empty. In `MonitorToasts` also weak fairness of each toast's timer messages, once
  the timer is set; a toast whose timer was refused is exempt from `ToastsGo`, and no
  click is assumed.
- `ServiceEnumeration`: weak fairness of the loop. The SCM is assumed to answer, but
  not to answer well.

## 4. What disagrees with what the repository says

| run | the code | what is said |
|---|---|---|
| `monitor_tab` | on the Services tab `RefreshData` returns before `CheckProcesses` (`main_window.cc:1211`), so an exit goes unreported while that tab is shown | `README.md:51-52`: real-time monitoring, detection of a named process's exit |
| `termination_children` | `ParentChainContains` follows PIDs regardless of start times (`process_snapshot_service.cc:607`); a child on the PID its grandparent once had survives End Process Tree | `resource.rc:706`: "and all of its child processes (entire process tree)" |

Seen while reading, with no run of their own:

- a failed snapshot is an empty list, which `CheckProcesses` takes for the exit of every
  watched process (`main_window.cc:1216`; `tests/lite_proc_manager_test.cc:681`:
  "Process exists ... -> 0 events"); `ProcessMonitor` includes such snapshots;
- after a declined elevation the mutex is created without a look at
  `ERROR_ALREADY_EXISTS` (`main_window.cc:2206`, and `2160` likewise), beside a copy
  started meanwhile (`main.cc:33`: "Single instance control per user session");
  `SettingsStore` includes that step; and if `CreateMutexW` fails there (2162, 2208) the
  instance goes on without the mutex, while `main.cc:25` has it that "this still-running process
  stays protected against a duplicate launch";
- a snapshot that `PostMessageW` refuses (`main_window.cc:2922`) is not asked for again before the
  next refresh; `ChangeReachesDisplay`, `NoRequestForgotten` and `ListFollows` exempt it;
- the cooldown of a rule is kept by PID, so that a new process on a reused PID can stay
  unreported for the cooldown of a former one (`monitor_service.cc`), and a process on a reused PID
  is charged with too little CPU time, measured against its predecessor
  (`process_snapshot_service.cc:263`); the properties allow both;
- the selection of the System Idle Process, which has no start time, is lost at each refresh,
  and "related services" of it selects every stopped service (`main_window.cc:1563`, `3204`);
- `RestartServiceByName` ignores whether the stop succeeded and starts the service
  after 50 polls in any case; a service that never stopped, or is still stopping, counts
  as restarted (`service_manager_service.cc:250`: "1. Stop service", "2. Start service";
  `README.md:42`); `RestartIsNew` says what holds instead;
- accepting the options dialog brings back the rules of the time it was opened in
  memory, while the monitor service and the file keep the newer ones
  (`main_window.cc:2238`), so that the next dialog shows, and its OK restores, the old
  ones; a filter edited, or a theme accepted in a second options dialog, while a monitor
  dialog opened from the tray holds the call back is overwritten in the same way, in memory
  and in the file (2230, 2238; `SavedSettings` has it as `Revert`); a theme accepted but not
  yet taken over is dropped when the program closes or restarts; and its "always on top" is stored, but applied to the window at the next start
  only (the command of line 3462 does both);
- a threshold is shown in the rule editor with six digits (`monitor_dialog.cc:176`), and
  what is shown is what OK stores;
- the column selector leaves the index the list is sorted by (`main_window.cc:2382`), so
  that the sort moves to another column, and "Hide column" in the menu of the tree
  (`main_window.cc:3782`) hides the column a former menu was opened on;
- `README.md:30` says column widths and the sort order are saved, which they are not;
- `README.md:69` says closing sends the window to the tray, while WM_CLOSE exits after a
  question;
- an operator "Contains" is written in the language of the program and read back in
  English (`ReadBack` in `SettingsStore`);
- a failed query keeps the CPU times of the processes but replaces those of the system,
  so that the next refresh divides two intervals by the length of one, and the CPU
  percentages ("accurately against total system time", `process_snapshot_service.cc:262`)
  are too high once; after a `VirtualAlloc` that failed (188) every later snapshot is
  empty;
- changing the display mode on the Services tab shows the list or the tree
  (`main_window.cc:3446`) that `ResizeChildren` had hidden.

## 5. Proofs

Checked by TLAPS, for every value of the constants that satisfies the assumptions of
the module. Every invariant and every action property that a run checks is proved for
its specification, and so are four implementations: of the view of the services by its
threads, of the cache by the refresh that uses it, of the monitor by the monitor with its
toasts, and of the saved settings by the handlers that save them.

| theorem | module | argument |
|---|---|---|
| `CacheTypeCorrect`, `OwnChangesKept`, `StalenessBounded` | `ServiceRefreshProofs` | `OwnChangesInv`: an answer that may still be stored, because the revision it saw is the current one, is no older than the last own change. `StalenessInv`: everything that travels (entry, answer, result) was current when it was read |
| `RefreshImplementsCache` | `ServiceRefreshProofs` | every step of the composed system is a step of the cache or leaves it alone, so that the three above hold in it |
| `TypeCorrect`, `DisplayFresh` | `ServiceRefreshProofs` | `FloorInv`, `WorkerInv`, `DisplayInv`: whatever the worker holds for request g answers g, because it took g before it looked at the cache or the SCM |
| `NothingLeftBehind` | `ServiceRefreshProofs` | `ScanInv`: what is built is the services before the one being asked, and the rest is still to come; `AccountInv`: a cancelled snapshot is not posted, and a worker that was joined posts no more |
| `ImplementsView` | `ServiceRefreshProofs` | each step mapped to one of `ServiceView` or to none; what a posted snapshot is to the view follows from `DisplayInv`, and `StoppingInv` says that nothing is applied after the stop. Uses the invariants above |
| `NoLostWakeup`, `RequestsReachTheList` | `ServiceRefreshProofs` | the first is inductive, because the flags are set under the lock the worker looks at them under; the second follows the request through flag, worker and queue, case by case, with `DisplayInv` (nothing later than the last request is applied) and `CancelInv` (only the shutdown cancels a snapshot) |
| `ShutdownSteps` | `ServiceRefreshProofs` | with `StoppingInv` the UI thread can only go on to the end, with `CancelInv` no snapshot begins and no service is looked up (`GivenUpSnapshot`); so each step of either thread lowers its share of `Remaining` |
| `WholeOrNothing`, `TypeCorrect` | `ServiceEnumerationProofs` | `Progress`: what was read is the list up to the handle |
| `NeverGivesUpNeedlessly` | `ServiceEnumerationProofs` | `PagesInv`: each page spent has read a service or doubled the buffer; `RoomGrows`, by the least counterexample: that many doublings reach the limit |
| `TypeCorrect`, `CooldownsKept`, `NothingIsSilenced` | `ProcessMonitorProofs` | `Remembered`: the map of last notifications holds the time of every key's last alert |
| `ToastsLeaveMonitor`, `CooldownsKeptWithToasts` | `ProcessMonitorProofs` | each step with toasts is a step of the monitor or leaves it alone |
| `ToastsInvariance`, `ToastsTypeCorrect`, `OwnedOnce`, `StackedWithoutGaps` | `ProcessMonitorProofs` | `ToastsInv`: the windows are those on the list, each once and in its place, and a handle is free when its object is gone; what `Keep` keeps of a list is by induction on the list (`KeptExists`) |
| `TimersRun` | `ProcessMonitorProofs` | inductive with the types (`TimersStep`): each message of a timer starts the next one or ends the window, `Close` kills the first timer only and sets the second, and the tick that would leave nothing of the window ends it |
| `TypeCorrect`, `OnlyChosen` | `ProcessTerminationProofs` | `GoodItem`: an item whose start time still matches is the process it was listed for; `Inherits`: where the code sees a parent, the child has its lineage; so everything on the stack descends from a chosen item |
| `EveryProcessShown` | `ProcessTerminationProofs` | `UniquePids`: a list has one item to a PID, hence no item two parents; a parent has started earlier than its child (`BelowSomeRoot`, by the earliest start among those not below a root), hence no circles |
| `SuccessIsComplete` | `ProcessTerminationProofs` | `SuccessInv`: what has been visited is gone or waits on the stack for its turn, and its listed children have been visited or wait to be; so nothing is left of the tree when the stack is empty |
| `TypeCorrect`, `NeverChargedTwice`, `NoForeignDetails` | `ProcessViewProofs` | `SnapshotInv`: what table, items and cache say under a start time that still runs is its own (`ItemsInv`, `CacheInv`), and what a running process had used at the table before is what the times of its PID say (`SeenInv`); `NeverChargedTwice` is an upper bound |
| `NoFreedNodeRead`, `FilterShown`, `OnlyUserSelects` | `ProcessViewProofs` | `FilteredInv`: the list is an order of what the filters let through; `ControlsInv`: a list that counts as current has as many rows, and a tree that counts as current has nodes of owned items only; the rest is one lemma for each way a control is rebuilt; what has an identity is found again by it (`Lasting`) |
| `TypeCorrect`, `CommandsReachTheirService`, `RestartsAreNew` | `ServicesTabProofs` | `Meant`: while a menu is open or its command is posted, nothing is selected but the item it was built for, since rebuilding the rows drops the selection and input waits; `NewOrStopped`: a service seen stopped by a restart still is, or is in a later life |
| `RowsFollowList` | `ServicesTabProofs` | inductive with the types: whatever changes list or search builds the rows, but for the switch to the tab with an empty list, whose snapshot has been asked for until it is applied (`Coming`) or refused (`WorkerBrings`) |
| `TypeCorrect`, `RowsStayPut` | `SettingsDialogsProofs` | `Owned`, `OneAtATime`: an editor or a prompt disables the list it is over, so that no second one opens over it and nothing but its own return changes it; those that ended but have not returned wait below |
| `OnlyWhatWasWorkedOn`, `SameRulesEverywhere` | `SettingsDialogsProofs` | `Copies`: a copy differs from the rules in force by what was worked on in it and what it missed, or its history says that an edit strayed; `Differing` obeys the triangle inequality |
| `HidingKeepsTheRest` | `SettingsDialogsProofs` | by induction on the columns (`HiddenUpTo`): up to any column, the visible ones without the hidden column are those with it, less its place |
| `Invariant`, `ThemeNeverLost`, `FilterNeverLost`, `NeverPartial`, `AlwaysProtected`, `TypeCorrect` | `SettingsStoreProofs` | `Alone`, `LastHolds`: who may be at work follows from the mutex, which an instance with something left to write keeps unless it was refused it (`Locked`); `Copied`, `StackOK`: a copy on the stack that is not outdated has the filter of the settings, and of the dialogs with a copy one at most has not ended; `Intent`: its memory, its writes and, once nothing is under way, the file agree with the user |
| `ImplementsSaved` | `SettingsStoreProofs` | each step mapped to one of `SavedSettings` or to none, from `Invariant`: what is written agrees with the choice (`Intent`), and a choice that was never written is lost with its instance, or to a copy that was `Held` |

None of the properties is inductive alone; the strengthened invariants are named
`IInv`, or `...Inv`, in the proof modules. The proof of a step has one case or one
lemma per action.

What is assumed of the constants: finitely many services and PIDs where the code
counts them, positive limits and counts (a `size_t`, a `constexpr`), special values
that differ from the ordinary ones (`Absent`, `None`, a null handle), at most one process without a start time, names that are
no PIDs, and initial values
of their types (`DialogsAssumption`, `ToastsAssumption`, `SnapshotAssumption`, `ViewAssumption` and their
like). None of them bounds how many there are of anything; where a bound such as
`MaxDialogs` is a constant, the theorems hold for each value of it.

What the recursive functions compute (`Keep`, `VisibleIndices`, the chains of parents, the
growth of the buffer) is proved from the least natural number at which it would fail,
since an induction rule with a predicate as its parameter can not be used.

Only model-checked: everything under fairness (`ChangeReachesDisplay`,
`ShutdownCompletes`, `ExitReported`, `ToastsGo`, `Returns`), which the prover does not
reach. What these rest on besides fairness is proved: no wake-up is lost and a request
stays on its way (`NoLostWakeup`, `RequestsReachTheList`), nothing but the two threads'
own steps, seven at most, stands between the stop and the end (`ShutdownSteps`), and the timer a
toast waits for runs (`TimersRun`).

## 6. Abstractions

- Configurations, names, filters, figures and conditions are members of small sets.
  What a configuration, a row or a file looks like in characters is left out, but
  what a conversion does is kept where it matters (`Default` for a service that cannot
  be queried, truncation to seconds, `ReadBack`).
- In `SettingsStore` the dialogs that hold no copy of theme or filter (rules, columns, messages)
  are one kind, and message boxes with nothing behind them (the question of `WM_CLOSE`)
  are a single step with their answer; the rules and columns that the options bring back are in
  `SettingsDialogs`. The messages that are served inside `ShellExecuteExW` are left out. A dialog
  destroyed with its owner is taken to return without OK. The rest of the
  settings (excluded processes, fonts, the refresh interval) are fields that are copied
  with the others.
- `SettingsDialogs` starts from rules that were read as they are in the file. A rules file that is
  missing, unreadable or not valid (`app_settings.cc:358-362`) gives an empty list while the
  file stays what it is until the next save, and a rule without a name is given one in memory
  only (`main_window.cc:662-666`); both are left out.
- A rule is an identity, a flag and a text that stands for its other fields; the dialogs
  do not look into it.
- A write through the address of a row that was erased or moved lands on whatever row has
  that number, or nowhere (`EditReturns`); what else it might do is left out, and
  `EditorsPointHome` and `strayed` say when it can happen.
- In `ServicesTab` a snapshot shows what is so when it is posted; how it is put together, and the change
  of a startup type, is in `ServiceRefresh`. The order of the rows is any: the column and the
  texts decide. A paused service is listed like one that is starting or stopping:
  neither started, stopped nor restarted from its menu.
- A settings file that cannot be read is answered with the defaults, which the next
  save writes; the history then takes the defaults as chosen, because no statement
  of the repository says otherwise.
- The kernel lists every PID once, so the code's special case for duplicate PIDs in
  a list is left out.

## 7. Plan

Modelled first, because a mistake there ends or hides the wrong thing: the service
refresh, the monitor, ending processes, the settings, the process list; then the Services
tab, the dialogs and the toasts. The safety properties of all of them are proved. What
would come next:

1. An abstract specification of what the user is promised of the rules and the columns,
   with `SettingsDialogs` shown to implement it, like `SavedSettings` for the file.
2. A bound like `Remaining` for the paging loop and for the life of a toast, so that only
   the fairness of their steps is left to TLC.

Not modelled: themes, languages, icons, fonts, layout, export, URLs and the JSON helper,
which format and draw without state that others depend on; the vendored jsoncpp; tests,
resources, installer and build files, which were read for what they say about the
program.
