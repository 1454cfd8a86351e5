--------------------------- MODULE SettingsStore ---------------------------
(***************************************************************************)
(* The settings of MainWindow and the single instance of wWinMain          *)
(* (main_window.cc, app_settings.cc, main.cc): settings in memory, a       *)
(* debounced save of the filter, a theme that takes effect at the next     *)
(* start, a file replaced through a temporary one, and a named mutex that  *)
(* is given up while a successor is being started.                         *)
(*                                                                         *)
(* Of the settings the model keeps the theme and the filter: the theme is  *)
(* the one the file may hold without the memory holding it, the filter the *)
(* one the memory may hold without the file holding it.  The others follow *)
(* the filter without its delay.  A handler that saves and goes on is two  *)
(* steps, the save itself happening between them.                          *)
(*                                                                         *)
(* The options dialog works on a copy of the settings, which OpenOptions-  *)
(* Dialog puts in their place when the call that showed the dialog returns *)
(* with an OK.  A dialog opened over it from the tray menu delays it: the   *)
(* main window is enabled as soon as the options are accepted, and what    *)
(* the user chooses there in the meantime is overwritten by the copy.      *)
(***************************************************************************)
EXTENDS ModalDialogs, FiniteSets, SequencesExt

CONSTANTS
  Instances,  \* processes of the program, one running or about to run each
  Themes,     \* AppTheme
  Filters,    \* display_filter_enabled and display_filter_condition
  ReadBack,   \* ReadBack[f]: what LoadFrom makes of what SaveSettingsTo wrote of f
  Default,    \* AppSettings()
  Absent,     \* no settings file
  Partial,    \* a file that was not written to its end
  None,       \* no pending theme, no save under way, no copy of the settings
  MaxDialogs, \* bound: dialogs open at a time, of all instances
  SideWork    \* bound: whether the user works in the main window of an instance
              \* while another is at work

Settings == [theme : Themes, filter : Filters]

ASSUME StoreAssumption ==
  /\ Default \in Settings
  /\ ReadBack \in [Filters -> Filters]
  /\ \A f \in Filters : ReadBack[ReadBack[f]] = ReadBack[f]
  /\ Absent \notin Settings
  /\ Partial \notin Settings \cup {Absent}
  /\ None \notin Themes
  /\ MaxDialogs \in Nat /\ SideWork \in BOOLEAN
  /\ None \notin [step : {"write", "replace"}, contents : Settings \cup {Partial}]

VARIABLES
  lock,         \* instances with a handle of the single-instance mutex
  elevated,     \* is_elevated_
  phase,        \* where wWinMain or the handler of the window procedure stands
  settings,     \* settings_
  pendingTheme, \* pending_theme_change_
  savePending,  \* filter_settings_save_pending_
  dialogs,      \* the stack of open dialogs, those with options with their copy
  write,        \* WriteUtf8File: the temporary file and what remains to be done
  file,         \* LPMSettings.json
  chosen,       \* history: the theme and the filter the user chose last, or an
                \* options dialog accepted before has put in their place
  unsaved,      \* history: instances whose last save failed
  refused,      \* history: instances that were refused the mutex after a restart
  mixed         \* history: two instances have been at work side by side

memory == <<settings, pendingTheme, savePending, dialogs>>

vars == <<lock, elevated, phase, memory, write, file, chosen, unsaved, refused, mixed>>

-----------------------------------------------------------------------------
Writes == [step : {"write", "replace"}, contents : Settings \cup {Partial}]

\* "restart" and "runas" still hold the mutex, "spawn" and "elevate" wait for
\* ShellExecuteExW without it.
Phases == {"off", "launched", "loading", "running", "restart", "spawn", "runas",
           "elevate", "leaving", "exiting"}

\* Phases in which the instance works on its settings, now or after a failure.
Serving == {"running", "restart", "spawn", "runas", "elevate"}

\* What an options dialog will put in the place of the settings, and whether the user
\* has chosen something else since it was copied from them (history).
Copies == [theme : Themes, filter : Filters, stale : BOOLEAN]

\* Besides the options, the question whether to restart, and the dialogs that hold none
\* of these settings: monitor rules, columns, messages.
Frames ==
  [kind : {"options"}, owner : {0}, result : Results, disables : BOOLEAN, data : Copies]
  \cup [kind : {"restart", "other"}, owner : {0}, result : Results,
        disables : BOOLEAN, data : {None}]

TypeOK ==
  /\ lock \in SUBSET Instances
  /\ elevated \in SUBSET Instances
  /\ phase \in [Instances -> Phases]
  /\ settings \in [Instances -> Settings]
  /\ pendingTheme \in [Instances -> Themes \cup {None}]
  /\ savePending \in [Instances -> BOOLEAN]
  /\ dialogs \in [Instances -> Seq(Frames)]
  /\ write \in [Instances -> Writes \cup {None}]
  /\ file \in Settings \cup {Absent, Partial}
  /\ chosen \in Settings
  /\ unsaved \in SUBSET Instances
  /\ refused \in SUBSET Instances
  /\ mixed \in BOOLEAN

\* What the next instance to read the file starts with.
OnDisk ==
  IF file \in Settings
  THEN [theme |-> file.theme, filter |-> ReadBack[file.filter]]
  ELSE Default

Persisted(i) ==
  [theme  |-> IF pendingTheme[i] = None THEN settings[i].theme ELSE pendingTheme[i],
   filter |-> settings[i].filter]

Init ==
  /\ lock = {}
  /\ elevated = {}
  /\ phase = [i \in Instances |-> "off"]
  /\ settings = [i \in Instances |-> Default]
  /\ pendingTheme = [i \in Instances |-> None]
  /\ savePending = [i \in Instances |-> FALSE]
  /\ dialogs = [i \in Instances |-> <<>>]
  /\ write = [i \in Instances |-> None]
  /\ file \in Settings \cup {Absent}
  /\ chosen = OnDisk
  /\ unsaved = {}
  /\ refused = {}
  /\ mixed = FALSE

-----------------------------------------------------------------------------
(* WriteUtf8File, on the UI thread: the handler goes on when it is done.   *)

Save(i, contents) ==
  write' = [write EXCEPT ![i] = [step |-> "write", contents |-> contents]]

\* A file that was not written to its end goes on to replace the settings.
WriteTemporaryUnchecked(i) ==
  /\ write[i] # None
  /\ write[i].step = "write"
  /\ \E contents \in {write[i].contents, Partial} :
       write' = [write EXCEPT ![i] = [step |-> "replace", contents |-> contents]]
  /\ UNCHANGED <<lock, elevated, phase, memory, file, chosen, unsaved, refused, mixed>>

\* The temporary file is created, written, flushed and closed, or deleted.
WriteTemporary(i) ==
  /\ write[i] # None
  /\ write[i].step = "write"
  /\ \/ /\ write' = [write EXCEPT
                       ![i] = [step |-> "replace", contents |-> write[i].contents]]
        /\ UNCHANGED unsaved
     \/ /\ write' = [write EXCEPT ![i] = None]
        /\ unsaved' = unsaved \cup {i}
  /\ UNCHANGED <<lock, elevated, phase, memory, file, chosen, refused, mixed>>

\* ReplaceFileW, or MoveFileExW when there is no file. A failed ReplaceFileW may
\* already have removed the file it was to replace; the temporary file is deleted.
Replace(i) ==
  /\ write[i] # None
  /\ write[i].step = "replace"
  /\ write' = [write EXCEPT ![i] = None]
  /\ \/ file' = write[i].contents /\ unsaved' = unsaved \ {i}
     \/ file' \in {file, Absent}  /\ unsaved' = unsaved \cup {i}
  /\ UNCHANGED <<lock, elevated, phase, memory, chosen, refused, mixed>>

-----------------------------------------------------------------------------
(* wWinMain and the loading of the settings.                               *)

\* The user starts the program; an elevated process stays one.
Launch(i) ==
  /\ phase[i] = "off"
  /\ phase' = [phase EXCEPT ![i] = "launched"]
  /\ elevated' \in {elevated, elevated \cup {i}}
  /\ UNCHANGED <<lock, memory, write, file, chosen, unsaved, refused, mixed>>

\* CreateMutexW: a mutex that exists already, or that is refused, ends the process.
CreateMutex(i) ==
  /\ phase[i] = "launched"
  /\ \/ /\ lock = {}
        /\ phase' = [phase EXCEPT ![i] = "loading"]
        /\ lock' = {i}
        /\ UNCHANGED elevated
     \/ /\ phase' = [phase EXCEPT ![i] = "off"]
        /\ elevated' = elevated \ {i}
        /\ UNCHANGED lock
  /\ UNCHANGED <<memory, write, file, chosen, unsaved, refused, mixed>>

\* i is at work from now on; so may another instance be, which either was there before
\* or does not hold the mutex that would have kept i away until it was gone.
SideBySide(i) ==
  mixed' = (mixed \/ \E j \in Instances \ {i} :
                       phase[j] \in Serving \cup {"loading"} \/ j \in refused)

\* AppSettings::Load; a file that cannot be opened counts as none.
Load(i) ==
  /\ phase[i] = "loading"
  /\ phase' = [phase EXCEPT ![i] = "running"]
  /\ SideBySide(i)
  /\ \E readable \in BOOLEAN :
       /\ settings' = [settings EXCEPT ![i] = IF readable THEN OnDisk ELSE Default]
       /\ chosen' = IF readable THEN chosen ELSE Default
       /\ unsaved' = IF readable THEN unsaved ELSE unsaved \cup {i}
  /\ UNCHANGED <<lock, elevated, pendingTheme, savePending, dialogs, write, file, refused>>

\* The process is gone, and with it what it had not written.
Depart(i) ==
  /\ phase' = [phase EXCEPT ![i] = "off"]
  /\ lock' = lock \ {i}
  /\ elevated' = elevated \ {i}
  /\ settings' = [settings EXCEPT ![i] = Default]
  /\ pendingTheme' = [pendingTheme EXCEPT ![i] = None]
  /\ savePending' = [savePending EXCEPT ![i] = FALSE]
  /\ dialogs' = [dialogs EXCEPT ![i] = <<>>]
  /\ write' = [write EXCEPT ![i] = None]
  /\ unsaved' = unsaved \ {i}
  /\ refused' = refused \ {i}
  /\ mixed' = (mixed /\ \E j \in Instances \ {i} : phase[j] \notin {"off", "launched"})
  /\ chosen' = IF mixed \/ savePending[i] \/ write[i] # None \/ i \in unsaved
               THEN OnDisk ELSE chosen
  /\ UNCHANGED file

\* The end of wWinMain, after the message loop.
Exit(i) ==
  /\ phase[i] = "exiting"
  /\ write[i] = None
  /\ Depart(i)

\* The process is ended from outside, at any step of anything it does.
Crash(i) ==
  /\ phase[i] # "off"
  /\ Depart(i)

-----------------------------------------------------------------------------
(* The handlers of the window procedure.                                   *)

\* The message loop of the window, or of the topmost dialog, takes messages.
Ready(i) ==
  /\ phase[i] = "running"
  /\ write[i] = None
  /\ Dispatching(dialogs[i])

\* The user can work with the main window.
AtHand(i) == Ready(i) /\ Enabled(dialogs[i], 0) /\ (mixed => SideWork)

\* The user has chosen something that the copies on the stack do not have.
Outdated(stack) ==
  [k \in DOMAIN stack |->
     IF stack[k].kind = "options" THEN [stack[k] EXCEPT !.data.stale = TRUE] ELSE stack[k]]

\* OnFilterConditionChanged and the clear button; without a timer the save is made
\* at once.
EditFilter(i, f) ==
  /\ AtHand(i)
  /\ settings' = [settings EXCEPT ![i] = [theme |-> settings[i].theme, filter |-> f]]
  /\ chosen' = [theme |-> chosen.theme, filter |-> f]
  /\ dialogs' = [dialogs EXCEPT ![i] = Outdated(dialogs[i])]
  /\ \/ /\ savePending' = [savePending EXCEPT ![i] = TRUE]
        /\ UNCHANGED write
     \/ /\ Save(i, [theme |-> Persisted(i).theme, filter |-> f])
        /\ savePending' = [savePending EXCEPT ![i] = FALSE]
  /\ UNCHANGED <<lock, elevated, phase, pendingTheme, file, unsaved, refused, mixed>>

\* FlushPendingFilterSettingsSave
Flush(i) ==
  /\ savePending' = [savePending EXCEPT ![i] = FALSE]
  /\ IF savePending[i] THEN Save(i, Persisted(i)) ELSE UNCHANGED write

\* The debounce timer, or the edit control losing the focus.
FlushFilter(i) ==
  /\ Ready(i)
  /\ savePending[i]
  /\ Flush(i)
  /\ UNCHANGED <<lock, elevated, phase, settings, pendingTheme, dialogs, file, chosen,
                 unsaved, refused, mixed>>

\* The settings are saved as they are in memory, with the active theme.
SaveOtherWithActiveTheme(i) ==
  /\ AtHand(i)
  /\ Save(i, settings[i])
  /\ UNCHANGED <<lock, elevated, phase, memory, file, chosen, unsaved, refused, mixed>>

\* SaveSettingsPreservingPendingTheme: columns, refresh interval.
SaveOther(i) ==
  /\ AtHand(i)
  /\ Save(i, Persisted(i))
  /\ UNCHANGED <<lock, elevated, phase, memory, file, chosen, unsaved, refused, mixed>>

-----------------------------------------------------------------------------
(* Dialogs.                                                                *)

Open(i, kind, data) ==
  /\ Cardinality(UNION {{j} \X DOMAIN dialogs[j] : j \in Instances}) < MaxDialogs
  /\ dialogs' = [dialogs EXCEPT ![i] = Opened(dialogs[i], kind, 0, data)]
  /\ UNCHANGED <<lock, elevated, phase, settings, pendingTheme, savePending, write,
                 file, chosen, unsaved, refused, mixed>>

\* OpenOptionsDialog: a copy of the settings, with the theme that is pending.
OpenOptionsDialog(i) ==
  /\ AtHand(i)
  /\ Open(i, "options", [theme  |-> Persisted(i).theme,
                         filter |-> settings[i].filter,
                         stale  |-> FALSE])

\* A dialog without a copy of these settings; the tray menu opens the monitor rules
\* while the main window is disabled.
OpenOther(i) ==
  /\ Ready(i)
  /\ Open(i, "other", None)

End(i, k, stack) ==
  /\ Ready(i)
  /\ dialogs[i][k].result = "open"
  /\ dialogs' = [dialogs EXCEPT ![i] = stack]
  /\ UNCHANGED <<lock, elevated, phase, settings, pendingTheme, savePending, write,
                 file, chosen, unsaved, refused, mixed>>

\* OnSave takes the theme from its list.
AcceptOptions(i, k, t) ==
  /\ dialogs[i][k].kind = "options"
  /\ End(i, k, [Ended(dialogs[i], k, "ok") EXCEPT ![k].data.theme = t])

AgreeToRestart(i, k) ==
  /\ dialogs[i][k].kind = "restart"
  /\ End(i, k, Ended(dialogs[i], k, "ok"))

\* With the dialogs that hold none of these settings it makes no difference.
Cancel(i, k) == End(i, k, Ended(dialogs[i], k, "cancel"))

\* The call of the topmost dialog returns, with the stack that is left.
Returning(i, kinds) ==
  /\ phase[i] = "running"
  /\ write[i] = None
  /\ ~Dispatching(dialogs[i])
  /\ Last(dialogs[i]).kind \in kinds

NewTheme(i) == Last(dialogs[i]).data.theme # settings[i].theme

\* The copy replaces the settings, whatever has become of them since it was taken;
\* settings_ keeps the active theme, and if that is not the one of the copy, the user is
\* asked whether to restart.
PutInPlace(i, pending) ==
  LET copy == Last(dialogs[i]).data
      rest == Outdated(Front(dialogs[i]))
      now  == [theme |-> settings[i].theme, filter |-> copy.filter]
  IN /\ Returning(i, {"options"})
     /\ Last(dialogs[i]).result = "ok"
     /\ settings' = [settings EXCEPT ![i] = now]
     /\ pendingTheme' = [pendingTheme EXCEPT ![i] = pending]
     /\ Save(i, [now EXCEPT !.theme = IF pending = None THEN @ ELSE pending])
     /\ dialogs' = [dialogs EXCEPT
                      ![i] = IF NewTheme(i) THEN Opened(rest, "restart", 0, None)
                             ELSE rest]
     /\ chosen' = [theme  |-> copy.theme,
                   filter |-> IF copy.stale THEN copy.filter ELSE chosen.filter]
     /\ UNCHANGED <<lock, elevated, phase, savePending, file, unsaved, refused, mixed>>

\* A theme that was pending stays so when the active one is chosen again.
TakeOverKeepingPending(i) ==
  PutInPlace(i, IF NewTheme(i) THEN Last(dialogs[i]).data.theme ELSE pendingTheme[i])

TakeOver(i) ==
  PutInPlace(i, IF NewTheme(i) THEN Last(dialogs[i]).data.theme ELSE None)

\* RestartApplication, after a Yes.
RestartApplication(i) ==
  /\ Returning(i, {"restart"})
  /\ Last(dialogs[i]).result = "ok"
  /\ phase' = [phase EXCEPT ![i] = "restart"]
  /\ dialogs' = [dialogs EXCEPT ![i] = Front(dialogs[i])]
  /\ Flush(i)
  /\ UNCHANGED <<lock, elevated, settings, pendingTheme, file, chosen, unsaved, refused,
                 mixed>>

\* Any other dialog, and one that was cancelled, leaves these settings alone.
Return(i) ==
  /\ Returning(i, {"options", "restart", "other"})
  /\ Last(dialogs[i]).result = "cancel"
  /\ dialogs' = [dialogs EXCEPT ![i] = Front(dialogs[i])]
  /\ UNCHANGED <<lock, elevated, phase, settings, pendingTheme, savePending, write,
                 file, chosen, unsaved, refused, mixed>>

-----------------------------------------------------------------------------
(* Restarts and the end.                                                   *)

\* A filter whose save is still pending is forgotten.
RestartAsAdministratorWithoutFlush(i) ==
  /\ AtHand(i)
  /\ i \notin elevated
  /\ phase' = [phase EXCEPT ![i] = "runas"]
  /\ UNCHANGED <<lock, elevated, memory, write, file, chosen, unsaved, refused, mixed>>

RestartAsAdministrator(i) ==
  /\ AtHand(i)
  /\ i \notin elevated
  /\ phase' = [phase EXCEPT ![i] = "runas"]
  /\ Flush(i)
  /\ UNCHANGED <<lock, elevated, settings, pendingTheme, dialogs, file, chosen, unsaved,
                 refused, mixed>>

\* The flush is done, the restart goes on.
Restarting(i) == phase[i] \in {"restart", "runas"} /\ write[i] = None

ReleaseSingleInstanceLock(i) ==
  /\ Restarting(i)
  /\ lock' = lock \ {i}
  /\ phase' = [phase EXCEPT ![i] = IF @ = "restart" THEN "spawn" ELSE "elevate"]
  /\ UNCHANGED <<elevated, memory, write, file, chosen, unsaved, refused, mixed>>

\* The path of the executable cannot be had, or is too long for RestartApplication.
NoExecutablePath(i) ==
  /\ Restarting(i)
  /\ phase' = [phase EXCEPT ![i] = "running"]
  /\ UNCHANGED <<lock, elevated, memory, write, file, chosen, unsaved, refused, mixed>>

\* What a failed save left out does not reach the successor.
HandOver(i) ==
  /\ chosen' = IF i \in unsaved THEN OnDisk ELSE chosen
  /\ unsaved' = unsaved \ {i}

\* ShellExecuteExW starts j with the rights of i; DestroyWindow follows.
SpawnSuccessor(i, j) ==
  /\ phase[i] = "spawn"
  /\ phase[j] = "off"
  /\ phase' = [phase EXCEPT ![i] = "leaving", ![j] = "launched"]
  /\ elevated' = IF i \in elevated THEN elevated \cup {j} ELSE elevated
  /\ HandOver(i)
  /\ UNCHANGED <<lock, memory, write, file, refused, mixed>>

\* ShellExecuteExW starts j elevated; ExitProcess ends i without WM_DESTROY.
ElevateSuccessor(i, j) ==
  /\ phase[i] = "elevate"
  /\ phase[j] = "off"
  /\ phase' = [phase EXCEPT ![i] = "exiting", ![j] = "launched"]
  /\ elevated' = elevated \cup {j}
  /\ HandOver(i)
  /\ UNCHANGED <<lock, memory, write, file, refused, mixed>>

\* The instance goes on without the mutex.
GoOnWithoutLock(i) ==
  /\ phase[i] \in {"spawn", "elevate"}
  /\ phase' = [phase EXCEPT ![i] = "running"]
  /\ SideBySide(i)
  /\ UNCHANGED <<lock, elevated, memory, write, file, chosen, unsaved, refused>>

\* ShellExecuteExW fails or the user declines: CreateMutexW again, also where another
\* instance has created the mutex by now; without a handle the instance goes on as well.
RestoreSingleInstanceLock(i) ==
  /\ phase[i] \in {"spawn", "elevate"}
  /\ \/ lock' = lock \cup {i} /\ refused' = refused \ {i}
     \/ refused' = refused \cup {i} /\ UNCHANGED lock
  /\ phase' = [phase EXCEPT ![i] = "running"]
  /\ SideBySide(i)
  /\ UNCHANGED <<elevated, memory, write, file, chosen, unsaved>>

\* WM_CLOSE, from the tray menu at any time, confirmed; DestroyWindow follows the save.
Close(i) ==
  /\ Ready(i)
  /\ settings' = [settings EXCEPT ![i] = Persisted(i)]
  /\ pendingTheme' = [pendingTheme EXCEPT ![i] = None]
  /\ savePending' = [savePending EXCEPT ![i] = FALSE]
  /\ Save(i, Persisted(i))
  /\ phase' = [phase EXCEPT ![i] = "leaving"]
  /\ UNCHANGED <<lock, elevated, dialogs, file, chosen, unsaved, refused, mixed>>

\* WM_DESTROY: a last flush, and the message loop ends. Dialogs are destroyed with the
\* window that owns them, and their calls return no OK.
DestroyWindow(i) ==
  /\ phase[i] = "leaving"
  /\ write[i] = None
  /\ Flush(i)
  /\ phase' = [phase EXCEPT ![i] = "exiting"]
  /\ dialogs' = [dialogs EXCEPT ![i] = <<>>]
  /\ UNCHANGED <<lock, elevated, settings, pendingTheme, file, chosen, unsaved, refused,
                 mixed>>

-----------------------------------------------------------------------------
Next ==
  \E i \in Instances :
    \/ WriteTemporary(i)
    \/ Replace(i)
    \/ Launch(i)
    \/ CreateMutex(i)
    \/ Load(i)
    \/ Exit(i)
    \/ Crash(i)
    \/ \E f \in Filters : EditFilter(i, f)
    \/ FlushFilter(i)
    \/ SaveOther(i)
    \/ OpenOptionsDialog(i)
    \/ OpenOther(i)
    \/ \E k \in DOMAIN dialogs[i] :
         \/ \E t \in Themes : AcceptOptions(i, k, t)
         \/ AgreeToRestart(i, k)
         \/ Cancel(i, k)
    \/ TakeOver(i)
    \/ RestartApplication(i)
    \/ Return(i)
    \/ RestartAsAdministrator(i)
    \/ NoExecutablePath(i)
    \/ ReleaseSingleInstanceLock(i)
    \/ \E j \in Instances \ {i} : SpawnSuccessor(i, j) \/ ElevateSuccessor(i, j)
    \/ RestoreSingleInstanceLock(i)
    \/ Close(i)
    \/ DestroyWindow(i)

Spec == Init /\ [][Next]_vars

-----------------------------------------------------------------------------
(* Properties                                                              *)

\* No process of the program that works on the settings, or will soon.
Idle == \A i \in Instances : phase[i] \in {"off", "launched"}

\* The memory of i has reached the disk.
Settled(i) == write[i] = None /\ i \notin unsaved

\* What i knows has not all reached the file.
Dirty(i) == savePending[i] \/ write[i] # None \/ i \in unsaved

\* The theme the user chose last is the one the instance goes by or keeps pending, and
\* every save, for whatever reason it is made, puts it in the file: neither later
\* saves, a restart, a cancelled elevation nor the next start bring the old theme back
\* (SaveSettingsPreservingPendingTheme, OpenOptionsDialog, WM_CLOSE). An options dialog
\* chooses when its call returns: one that was accepted before others, but returns after
\* them, has the last word, and its theme is what is kept from then on.
ThemeKept ==
  ~mixed =>
    /\ \A i \in Instances :
         phase[i] \in Serving =>
           /\ Persisted(i).theme = chosen.theme
           /\ Settled(i) => OnDisk.theme = chosen.theme
    /\ Idle => OnDisk.theme = chosen.theme

\* A filter read back is the one that was chosen, or what ReadBack makes of it.
Survives(f) == f \in {chosen.filter, ReadBack[chosen.filter]}

\* The filter the user set last is the one the instance uses, and it is in the file
\* unless its save is still pending; no restart and no closing loses a pending one, nor
\* does an options dialog, which replaces all settings by its copy, as long as the filter
\* has not been edited since the copy was taken. A filter edited after that is lost when
\* the call of the dialog returns, and the copied one is what is kept from then on
\* (ScheduleFilterSettingsSave, FlushPendingFilterSettingsSave and their callers).
FilterKept ==
  ~mixed =>
    /\ \A i \in Instances :
         phase[i] \in Serving =>
           /\ Survives(settings[i].filter)
           /\ Settled(i) /\ ~savePending[i] => Survives(OnDisk.filter)
    /\ Idle => Survives(OnDisk.filter)

\* Whatever fails or is cut short, the settings file is never a partly written one
\* (WriteUtf8File).
FileWhole == file # Partial

\* An instance that works on the settings or still has something to write, on its way
\* out as well, has a handle of the mutex, also after a restart that failed, "so this
\* still-running process stays protected against a duplicate launch" (main.cc:25),
\* unless CreateMutexW refused it one.
StaysProtected ==
  \A i \in Instances :
    phase[i] \in {"loading", "running"} \/ savePending[i] \/ write[i] # None
    => i \in lock \cup refused

\* What the dialogs of a stack would put in the place of something chosen after their
\* copy was taken.
HeldBack(stack) ==
  {[theme |-> f.data.theme, filter |-> f.data.filter] :
     f \in {g \in ToSet(stack) : g.kind = "options" /\ g.data.stale}}

Held == UNION {HeldBack(dialogs[i]) : i \in Instances}

\* Handlers, dialogs, temporary files, restarts and crashes keep what SavedSettings
\* promises: the file only ever gets what was chosen last, or what a dialog that returned
\* late has put in its place, and a choice is given up only by an instance that goes
\* without having saved it.
Saved == INSTANCE SavedSettings
           WITH stored <- OnDisk, dirty <- \E i \in Instances : Dirty(i), held <- Held
SavedSpec == Saved!SavedSpec
=============================================================================
