--------------------------- MODULE ProcessMonitor ---------------------------
(***************************************************************************)
(* Process monitoring (monitor_service.cc, monitor_rule.cc) as MainWindow  *)
(* drives it: every refresh of the Processes tab takes a snapshot and runs *)
(* MonitorService::CheckProcesses on it; rules may be replaced, the tab    *)
(* switched between two refreshes, while processes come and go and PIDs    *)
(* are reused.                                                             *)
(*                                                                         *)
(* A process is a PID, a name and the conditions its figures meet; a       *)
(* rule's pattern is the set of names, or of PIDs, it selects.  The order  *)
(* of the notifications of a single check is left to SetToSeq.             *)
(***************************************************************************)
EXTENDS Integers, Sequences, FiniteSets, SequencesExt

CONSTANTS
  Pids,            \* process identifiers
  Names,           \* image names
  Conditions,      \* conditions rules may have
  RuleLists,       \* the lists of rules the user may set
  NotFound,        \* stands for a PID in the key of a not-found alert
  None,            \* no process, never notified
  TicksPerSecond,  \* ticks of steady_clock in a second
  HistoryLimit,    \* events kept (100)
  MaxClock,        \* bound: ticks of the clock
  MaxAlerts        \* bound: alerts of one key

Rules == UNION {{list[i] : i \in DOMAIN list} : list \in RuleLists}
RuleIds == {rule.id : rule \in Rules}

ASSUME MonitorAssumption ==
  /\ TicksPerSecond \in Nat \ {0}
  /\ HistoryLimit \in Nat \ {0}
  /\ MaxClock \in Nat /\ MaxAlerts \in Nat
  /\ IsFiniteSet(Pids) /\ NotFound \notin Pids /\ Names \cap Pids = {}
  /\ None \notin Nat
  /\ None \notin [name : Names, meets : SUBSET Conditions]
  /\ \A list \in RuleLists :
       /\ list \in Seq([id : RuleIds, enabled : BOOLEAN, blank : BOOLEAN,
                        pattern : SUBSET Names \cup SUBSET Pids,
                        conditions : SUBSET Conditions, logic : {"And", "Or"},
                        cooldown : Int, deadman : BOOLEAN])
       \* MonitorRule::GenerateId
       /\ \A i, j \in DOMAIN list : list[i].id = list[j].id => i = j

VARIABLES
  running,       \* the processes of the system, by PID
  clock,         \* steady_clock
  rules,         \* rules_
  lastNotified,  \* last_notified_map_
  eventHistory,  \* event_history_, reduced to the keys of the events
  allProcesses,  \* all_processes_, the list the last refresh left
  tab,           \* current_tab_
  alerts         \* history: the alerts raised, by key

monitorVars == <<rules, lastNotified, eventHistory, alerts>>
windowVars  == <<allProcesses, tab>>
vars == <<running, clock, monitorVars, windowVars>>

Processes == [name : Names, meets : SUBSET Conditions]
Keys == RuleIds \X (Pids \cup {NotFound})
Alerts == [at : Nat, cooldown : Int]

TypeOK ==
  /\ running \in [Pids -> Processes \cup {None}]
  /\ clock \in Nat
  /\ rules \in RuleLists
  /\ lastNotified \in [Keys -> Nat \cup {None}]
  /\ eventHistory \in Seq(Keys) /\ Len(eventHistory) <= HistoryLimit
  /\ allProcesses \in [Pids -> Processes \cup {None}]
  /\ tab \in {"processes", "services"}
  /\ alerts \in [Keys -> Seq(Alerts)]

NoProcess == [pid \in Pids |-> None]

Init ==
  /\ running \in [Pids -> Processes \cup {None}]
  /\ clock = 0
  /\ rules \in RuleLists
  /\ lastNotified = [key \in Keys |-> None]
  /\ eventHistory = <<>>
  /\ allProcesses = NoProcess
  /\ tab = "processes"
  /\ alerts = [key \in Keys |-> <<>>]

-----------------------------------------------------------------------------
(* The system                                                              *)

\* A process starts on a free PID, exits, or its figures change.
ProcessChanges ==
  /\ \E pid \in Pids, p \in Processes \cup {None} :
       /\ p # running[pid]
       /\ p # None /\ running[pid] # None => p.name = running[pid].name
       /\ running' = [running EXCEPT ![pid] = p]
  /\ UNCHANGED <<clock, monitorVars, windowVars>>

Tick ==
  /\ clock < MaxClock
  /\ clock' = clock + 1
  /\ UNCHANGED <<running, monitorVars, windowVars>>

-----------------------------------------------------------------------------
(* MonitorRule                                                             *)

\* The target of a rule is its processes' names or their PIDs.
Selects(rule, pid, p) == rule.blank \/ {pid, p.name} \cap rule.pattern # {}

\* MatchesProcess; absent processes match nothing.
Matches(rule, pid, p) == p # None /\ rule.enabled /\ Selects(rule, pid, p)

\* A rule without conditions never fires.
Evaluate(rule, pid, p) ==
  /\ Matches(rule, pid, p)
  /\ rule.conditions # {}
  /\ IF rule.logic = "And" THEN rule.conditions \subseteq p.meets
                           ELSE rule.conditions \cap p.meets # {}

-----------------------------------------------------------------------------
(* MonitorService                                                          *)

\* duration_cast<seconds> drops the fraction.
SecondsSince(time) == (clock - time) \div TicksPerSecond

CoolingDown(key, rule) ==
  lastNotified[key] # None /\ SecondsSince(lastNotified[key]) < rule.cooldown

\* Mutant of Fired: a match of any rule silences every not-found alert.
FiredUnlessAnyMatches(rule, procs) ==
  {<<rule.id, pid>> : pid \in {q \in Pids : Evaluate(rule, q, procs[q])}}
  \cup IF /\ rule.enabled /\ rule.deadman /\ ~rule.blank
          /\ \A pid \in Pids, i \in DOMAIN rules : ~Matches(rules[i], pid, procs[pid])
         THEN {<<rule.id, NotFound>>} ELSE {}

\* The keys of the rule that a list of processes fires, cooling down or not.
Fired(rule, procs) ==
  {<<rule.id, pid>> : pid \in {q \in Pids : Evaluate(rule, q, procs[q])}}
  \cup IF /\ rule.enabled /\ rule.deadman /\ ~rule.blank
          /\ \A pid \in Pids : ~Matches(rule, pid, procs[pid])
         THEN {<<rule.id, NotFound>>} ELSE {}

\* Those it notifies of.
Due(rule, procs) == {key \in Fired(rule, procs) : ~CoolingDown(key, rule)}

RuleOf(key) == CHOOSE i \in DOMAIN rules : rules[i].id = key[1]

LastEvents(events) ==
  SubSeq(events, IF Len(events) > HistoryLimit THEN Len(events) - HistoryLimit + 1
                                               ELSE 1, Len(events))

\* Mutant of CheckProcesses: a suppressed notification starts its cooldown anew.
CheckProcessesSliding(procs) ==
  LET fired == UNION {Fired(rules[i], procs) : i \in DOMAIN rules}
      due   == UNION {Due(rules[i], procs) : i \in DOMAIN rules}
  IN /\ lastNotified' = [key \in Keys |->
                           IF key \in fired THEN clock ELSE lastNotified[key]]
     /\ eventHistory' = LastEvents(eventHistory \o SetToSeq(due))
     /\ alerts' = [key \in Keys |->
          IF key \in due
            THEN Append(alerts[key],
                        [at |-> clock, cooldown |-> rules[RuleOf(key)].cooldown])
            ELSE alerts[key]]

\* One check: clock is its now for every rule and process.
CheckProcesses(procs) ==
  LET due == UNION {Due(rules[i], procs) : i \in DOMAIN rules}
  IN /\ lastNotified' = [key \in Keys |->
                           IF key \in due THEN clock ELSE lastNotified[key]]
     /\ eventHistory' = LastEvents(eventHistory \o SetToSeq(due))
     /\ alerts' = [key \in Keys |->
          IF key \in due
            THEN Append(alerts[key],
                        [at |-> clock, cooldown |-> rules[RuleOf(key)].cooldown])
            ELSE alerts[key]]

\* Mutant of SetRules: new rules start without cooldowns.
SetRulesAfresh(list) ==
  /\ rules' = list
  /\ lastNotified' = [key \in Keys |-> None]
  /\ UNCHANGED <<eventHistory, alerts>>

\* Cooldowns survive: the map is neither cleared nor purged.
SetRules(list) ==
  /\ rules' = list
  /\ UNCHANGED <<lastNotified, eventHistory, alerts>>

-----------------------------------------------------------------------------
(* MainWindow                                                              *)

\* GetSnapshot: every process, or an empty list when the kernel call or the
\* allocation of its buffer fails.
Snapshots == {running, NoProcess}

\* RefreshData on the Processes tab, by the timer or by the user.
RefreshProcesses ==
  /\ tab = "processes"
  /\ \A key \in Keys : Len(alerts[key]) < MaxAlerts
  /\ \E procs \in Snapshots :
       /\ allProcesses' = procs
       /\ CheckProcesses(procs)
  /\ UNCHANGED <<running, clock, rules, tab>>

\* On the Services tab it returns before it takes a snapshot.
RefreshServices ==
  /\ tab = "services"
  /\ UNCHANGED vars

RefreshData == RefreshProcesses \/ RefreshServices

\* OpenMonitorSettings and AddSelectedProcessToMonitor, when confirmed.
EditRules ==
  /\ \E list \in RuleLists : SetRules(list)
  /\ UNCHANGED <<running, clock, windowVars>>

OnTabChanged ==
  /\ tab' \in {"processes", "services"} \ {tab}
  /\ UNCHANGED <<running, clock, monitorVars, allProcesses>>

Next ==
  \/ ProcessChanges \/ Tick
  \/ RefreshData
  \/ EditRules \/ OnTabChanged

Spec == Init /\ [][Next]_vars

\* The timer keeps refreshing (its interval is not 0); the user need do
\* nothing.
FairSpec == Spec /\ WF_vars(RefreshData)

-----------------------------------------------------------------------------
(* Properties                                                              *)

\* Two notifications of one rule about one PID (or about its absence) are
\* at least the cooldown apart that applied when the later one was raised,
\* whatever became of the rules and of the process in between.
CooldownKept ==
  \A key \in Keys : \A i \in 2..Len(alerts[key]) :
    (alerts[key][i].at - alerts[key][i - 1].at) \div TicksPerSecond
      >= alerts[key][i].cooldown

\* A cooldown delays and never loses: after every check, whatever fires has
\* been notified of less than its cooldown ago, or just now; neither another
\* rule nor another PID can silence it. What is notified of is the rule and the
\* PID: a new process on a PID may meet the cooldown of the former one.
NothingSilenced ==
  [][RefreshProcesses =>
       \A i \in DOMAIN rules : \A key \in Fired(rules[i], allProcesses') :
         \E n \in DOMAIN alerts'[key] :
           \/ alerts'[key][n].at = clock
           \/ SecondsSince(alerts'[key][n].at) < rules[i].cooldown]_vars

\* No process the rule looks for is running.
Absent(rule) ==
  \A pid \in Pids : running[pid] # None => ~Selects(rule, pid, running[pid])

Watched(rule) ==
  /\ \E i \in DOMAIN rules : rules[i] = rule
  /\ rule.enabled /\ rule.deadman /\ ~rule.blank

Alerted(rule) == alerts[<<rule.id, NotFound>>] # <<>>

\* While the Processes tab is shown, the exit of a watched process is
\* reported (first report of the rule, so that no cooldown applies).
ExitReported ==
  \A rule \in Rules :
    (Watched(rule) /\ Absent(rule)) ~>
      (Alerted(rule) \/ ~Watched(rule) \/ ~Absent(rule) \/ tab = "services")

\* README.md lists the detection of the exit of a named process as a
\* feature of the real-time monitoring, without tying it to a tab.
ExitReportedOnAnyTab ==
  \A rule \in Rules :
    (Watched(rule) /\ Absent(rule)) ~>
      (Alerted(rule) \/ ~Watched(rule) \/ ~Absent(rule))

=============================================================================
