------------------------ MODULE ProcessMonitorProofs ------------------------
(***************************************************************************)
(* Proofs about ProcessMonitor, for every set of PIDs, names and rules,    *)
(* every cooldown, resolution of the clock and limit of the history; about *)
(* Toasts, for any handles and opacity; and about the two together.        *)
(***************************************************************************)
EXTENDS MonitorToasts, FiniteSetTheorems, WellFoundedInduction, NaturalsInduction,
        TLAPS

-----------------------------------------------------------------------------
(* Rules and the keys they fire                                            *)

RuleRecords == [id : RuleIds, enabled : BOOLEAN, blank : BOOLEAN,
                pattern : SUBSET Names \cup SUBSET Pids, conditions : SUBSET Conditions,
                logic : {"And", "Or"}, cooldown : Int, deadman : BOOLEAN]

LEMMA RulesTyped ==
  ASSUME rules \in RuleLists
  PROVE  /\ rules \in Seq(RuleRecords)
         /\ \A i \in DOMAIN rules : rules[i] \in RuleRecords
         /\ \A i, j \in DOMAIN rules : rules[i].id = rules[j].id => i = j
<1>1. rules \in Seq(RuleRecords)
  BY MonitorAssumption DEF RuleRecords
<1>2. QED
  BY <1>1, MonitorAssumption

\* A key belongs to one rule only, the one with its identifier.
LEMMA FiredByOne ==
  ASSUME rules \in RuleLists, NEW i \in DOMAIN rules, NEW procs,
         NEW key \in Fired(rules[i], procs)
  PROVE  /\ key \in Keys
         /\ RuleOf(key) = i
         /\ \A j \in DOMAIN rules : key \in Fired(rules[j], procs) => j = i
<1>1. \A j \in DOMAIN rules : key \in Fired(rules[j], procs) =>
         key[1] = rules[j].id /\ key[2] \in Pids \cup {NotFound}
         /\ key = <<key[1], key[2]>>
  BY DEF Fired
<1>2. rules[i].id \in RuleIds
  BY RulesTyped DEF RuleRecords
<1>3. key \in Keys
  BY <1>1, <1>2 DEF Keys
<1>4. RuleOf(key) = i
  BY <1>1, RulesTyped DEF RuleOf
<1>5. QED
  BY <1>1, <1>3, <1>4, RulesTyped

AllDue(procs) == UNION {Due(rules[i], procs) : i \in DOMAIN rules}

\* A key is due when its one rule fires it and it is not cooling down.
LEMMA DueMeans ==
  ASSUME rules \in RuleLists, NEW i \in DOMAIN rules, NEW procs,
         NEW key \in Fired(rules[i], procs)
  PROVE  key \in AllDue(procs) <=> ~CoolingDown(key, rules[i])
BY FiredByOne DEF AllDue, Due

LEMMA DueIsFired ==
  ASSUME NEW procs, NEW key \in AllDue(procs)
  PROVE  \E i \in DOMAIN rules : key \in Fired(rules[i], procs)
BY DEF AllDue, Due

LEMMA SecondsInt ==
  ASSUME NEW a \in Int
  PROVE  a \div TicksPerSecond \in Int
BY MonitorAssumption

-----------------------------------------------------------------------------
(* Type correctness                                                        *)

LEMMA SetToSeqType ==
  ASSUME NEW S, IsFiniteSet(S)
  PROVE  SetToSeq(S) \in Seq(S)
<1>1. Cardinality(S) \in Nat /\ Bijection(1..Cardinality(S), S) # {}
  BY FS_CardinalityType DEF ExistsBijection
<1>2. \E f \in [1..Cardinality(S) -> S] : IsInjective(f)
  BY <1>1 DEF Bijection, Injection
<1>3. SetToSeq(S) \in [1..Cardinality(S) -> S]
  BY <1>2 DEF SetToSeq
<1>4. QED
  BY <1>1, <1>3

LEMMA DueFinite ==
  ASSUME rules \in RuleLists, NEW procs
  PROVE  AllDue(procs) \subseteq Keys /\ IsFiniteSet(AllDue(procs))
<1> DEFINE ids == {rules[i].id : i \in DOMAIN rules}
           f == [i \in 1..Len(rules) |-> rules[i].id]
<1>1. Len(rules) \in Nat /\ DOMAIN rules = 1..Len(rules)
  BY RulesTyped
<1>2. IsFiniteSet(1..Len(rules))
  BY <1>1, FS_Interval
<1>3. f \in Surjection(1..Len(rules), ids)
  BY <1>1 DEF Surjection
<1>4. IsFiniteSet(ids)
  BY <1>2, <1>3, FS_Surjection
<1>5. IsFiniteSet(Pids \cup {NotFound})
  BY FS_AddElement, MonitorAssumption
<1>6. IsFiniteSet(ids \X (Pids \cup {NotFound}))
  BY <1>4, <1>5, FS_Product
<1>7. AllDue(procs) \subseteq ids \X (Pids \cup {NotFound})
  BY DEF AllDue, Due, Fired
<1> HIDE DEF ids
<1>8. IsFiniteSet(AllDue(procs))
  BY <1>6, <1>7, FS_Subset
<1>9. AllDue(procs) \subseteq Keys
  BY DueIsFired, FiredByOne
<1>10. QED
  BY <1>8, <1>9

LEMMA LastEventsType ==
  ASSUME NEW events \in Seq(Keys)
  PROVE  LastEvents(events) \in Seq(Keys) /\ Len(LastEvents(events)) <= HistoryLimit
BY MonitorAssumption DEF LastEvents

LEMMA CheckType ==
  ASSUME TypeOK, NEW procs, CheckProcesses(procs)
  PROVE  /\ lastNotified' \in [Keys -> Nat \cup {None}]
         /\ eventHistory' \in Seq(Keys) /\ Len(eventHistory') <= HistoryLimit
         /\ alerts' \in [Keys -> Seq(Alerts)]
<1> DEFINE due == AllDue(procs)
           alert(key) == [at |-> clock, cooldown |-> rules[RuleOf(key)].cooldown]
<1>1. /\ lastNotified' = [key \in Keys |-> IF key \in due THEN clock ELSE lastNotified[key]]
      /\ eventHistory' = LastEvents(eventHistory \o SetToSeq(due))
      /\ alerts' = [key \in Keys |-> IF key \in due THEN Append(alerts[key], alert(key))
                                                    ELSE alerts[key]]
  BY DEF CheckProcesses, AllDue
<1>2. lastNotified' \in [Keys -> Nat \cup {None}]
  BY <1>1 DEF TypeOK
<1>3. SetToSeq(due) \in Seq(Keys)
  BY DueFinite, SetToSeqType DEF TypeOK
<1>4. eventHistory \o SetToSeq(due) \in Seq(Keys)
  BY <1>3 DEF TypeOK
<1>5. ASSUME NEW key \in due PROVE alert(key) \in Alerts
  <2>1. RuleOf(key) \in DOMAIN rules
    BY DueIsFired, FiredByOne DEF TypeOK
  <2>2. rules[RuleOf(key)].cooldown \in Int
    BY <2>1, RulesTyped DEF TypeOK, RuleRecords
  <2>3. QED
    BY <2>2 DEF TypeOK, Alerts
<1> HIDE DEF due, alert
<1>6. alerts' \in [Keys -> Seq(Alerts)]
  <2>1. ASSUME NEW key \in Keys
        PROVE  (IF key \in due THEN Append(alerts[key], alert(key)) ELSE alerts[key])
                 \in Seq(Alerts)
    BY <1>5, <2>1 DEF TypeOK
  <2>2. QED
    BY <1>1, <2>1
<1>7. QED
  BY <1>1, <1>2, <1>4, <1>6, LastEventsType

LEMMA TypeStep == TypeOK /\ [Next]_vars => TypeOK'
<1> SUFFICES ASSUME TypeOK, [Next]_vars PROVE TypeOK'
  OBVIOUS
<1>1. CASE RefreshProcesses
  <2>1. PICK procs \in Snapshots : allProcesses' = procs /\ CheckProcesses(procs)
    BY <1>1 DEF RefreshProcesses
  <2>2. procs \in [Pids -> Processes \cup {None}]
    BY DEF Snapshots, NoProcess, TypeOK
  <2>3. QED
    BY <1>1, <2>1, <2>2, CheckType DEF RefreshProcesses, TypeOK
<1>2. CASE ProcessChanges
  BY <1>2 DEF ProcessChanges, TypeOK, monitorVars, windowVars
<1>3. CASE Tick \/ EditRules \/ OnTabChanged
  BY <1>3 DEF Tick, EditRules, SetRules, OnTabChanged, TypeOK, monitorVars, windowVars
<1>4. CASE UNCHANGED vars
  BY <1>4 DEF vars, TypeOK, monitorVars, windowVars
<1>5. QED
  BY <1>1, <1>2, <1>3, <1>4 DEF Next, RefreshData, RefreshServices

LEMMA TypeInit == Init => TypeOK
<1> SUFFICES ASSUME Init PROVE TypeOK
  OBVIOUS
<1>1. <<>> \in Seq(Keys) /\ Len(<<>>) <= HistoryLimit /\ <<>> \in Seq(Alerts)
  BY MonitorAssumption
<1>2. QED
  BY <1>1 DEF Init, TypeOK, NoProcess

\* The variables keep their types; in particular the history never holds
\* more than its limit.
THEOREM TypeCorrect == Spec => []TypeOK
BY TypeInit, TypeStep, PTL DEF Spec

-----------------------------------------------------------------------------
(* Cooldowns.  last_notified_map_ remembers the last alert of every key.   *)

Remembered ==
  \A key \in Keys :
    lastNotified[key] =
      IF alerts[key] = <<>> THEN None ELSE alerts[key][Len(alerts[key])].at

IInv == TypeOK /\ Remembered /\ CooldownKept

\* What one check does to a key.
LEMMA CheckKey ==
  ASSUME TypeOK, NEW procs, CheckProcesses(procs), NEW key \in Keys
  PROVE  \/ /\ key \notin AllDue(procs)
            /\ lastNotified'[key] = lastNotified[key] /\ alerts'[key] = alerts[key]
         \/ \E i \in DOMAIN rules :
              /\ key \in Fired(rules[i], procs) /\ ~CoolingDown(key, rules[i])
              /\ lastNotified'[key] = clock
              /\ alerts'[key] =
                   Append(alerts[key], [at |-> clock, cooldown |-> rules[i].cooldown])
<1>1. /\ lastNotified'[key] = IF key \in AllDue(procs) THEN clock ELSE lastNotified[key]
      /\ alerts'[key] = IF key \in AllDue(procs)
           THEN Append(alerts[key],
                       [at |-> clock, cooldown |-> rules[RuleOf(key)].cooldown])
           ELSE alerts[key]
  BY DEF CheckProcesses, AllDue
<1>2. ASSUME key \in AllDue(procs)
      PROVE  \E i \in DOMAIN rules : /\ key \in Fired(rules[i], procs)
                                     /\ ~CoolingDown(key, rules[i]) /\ RuleOf(key) = i
  BY <1>2, DueIsFired, DueMeans, FiredByOne DEF TypeOK
<1>3. QED
  BY <1>1, <1>2

LEMMA CheckKeeps ==
  ASSUME IInv, NEW procs, CheckProcesses(procs), UNCHANGED <<clock, rules>>
  PROVE  Remembered' /\ CooldownKept'
<1> SUFFICES ASSUME NEW key \in Keys
             PROVE  /\ lastNotified'[key] =
                         IF alerts'[key] = <<>> THEN None
                                                ELSE alerts'[key][Len(alerts'[key])].at
                    /\ \A n \in 2..Len(alerts'[key]) :
                         (alerts'[key][n].at - alerts'[key][n - 1].at) \div TicksPerSecond
                           >= alerts'[key][n].cooldown
  BY DEF Remembered, CooldownKept
<1>1. /\ alerts[key] \in Seq(Alerts) /\ clock \in Nat
      /\ lastNotified[key] = IF alerts[key] = <<>> THEN None
                                                   ELSE alerts[key][Len(alerts[key])].at
      /\ \A n \in 2..Len(alerts[key]) :
           (alerts[key][n].at - alerts[key][n - 1].at) \div TicksPerSecond
             >= alerts[key][n].cooldown
  BY DEF IInv, TypeOK, Remembered, CooldownKept
<1>2. CASE lastNotified'[key] = lastNotified[key] /\ alerts'[key] = alerts[key]
  BY <1>1, <1>2
<1>3. ASSUME NEW i \in DOMAIN rules, ~CoolingDown(key, rules[i]),
             lastNotified'[key] = clock,
             alerts'[key] = Append(alerts[key], [at |-> clock, cooldown |-> rules[i].cooldown])
      PROVE  /\ alerts'[key] # <<>> /\ alerts'[key][Len(alerts'[key])].at = clock
             /\ \A n \in 2..Len(alerts'[key]) :
                  (alerts'[key][n].at - alerts'[key][n - 1].at) \div TicksPerSecond
                    >= alerts'[key][n].cooldown
  <2> DEFINE new == [at |-> clock, cooldown |-> rules[i].cooldown]
             old == alerts[key]
  <2>1. rules[i].cooldown \in Int
    BY RulesTyped DEF IInv, TypeOK, RuleRecords
  <2>2. new \in Alerts /\ new.at = clock /\ new.cooldown = rules[i].cooldown
    BY <1>1, <2>1 DEF Alerts
  <2>3. old # <<>> =>
          (clock - old[Len(old)].at) \div TicksPerSecond >= new.cooldown
    <3> SUFFICES ASSUME old # <<>>
                 PROVE  (clock - old[Len(old)].at) \div TicksPerSecond >= new.cooldown
      OBVIOUS
    <3>1. Len(old) \in DOMAIN old /\ old[Len(old)] \in Alerts
      BY <1>1
    <3>2. old[Len(old)].at \in Nat
      BY <3>1 DEF Alerts
    <3>3. lastNotified[key] = old[Len(old)].at /\ lastNotified[key] # None
      BY <1>1, <3>2, MonitorAssumption
    <3>4. ~(SecondsSince(old[Len(old)].at) < rules[i].cooldown)
      BY <1>3, <3>3 DEF CoolingDown
    <3>5. (clock - old[Len(old)].at) \div TicksPerSecond \in Int
      <4>1. clock - old[Len(old)].at \in Int
        BY <1>1, <3>2
      <4>2. QED
        BY <4>1, SecondsInt, Zenon
    <3>6. QED
      BY <2>1, <3>4, <3>5 DEF SecondsSince
  <2>4. alerts'[key] = Append(old, new) /\ old \in Seq(Alerts)
    BY <1>1, <1>3
  <2> HIDE DEF new, old
  <2>5. /\ Len(Append(old, new)) = Len(old) + 1 /\ Len(old) \in Nat
        /\ Append(old, new)[Len(old) + 1] = new
        /\ \A n \in 1..Len(old) : Append(old, new)[n] = old[n]
    BY <2>2, <2>4
  <2>6. \A n \in 2..Len(old) :
          (old[n].at - old[n - 1].at) \div TicksPerSecond >= old[n].cooldown
    BY <1>1 DEF old
  <2>7. ASSUME NEW n \in 2..Len(alerts'[key])
        PROVE  (alerts'[key][n].at - alerts'[key][n - 1].at) \div TicksPerSecond
                 >= alerts'[key][n].cooldown
    <3>1. CASE n \in 2..Len(old)
      <4>1. n \in 1..Len(old) /\ n - 1 \in 1..Len(old)
        BY <2>5, <3>1
      <4>2. alerts'[key][n] = old[n] /\ alerts'[key][n - 1] = old[n - 1]
        BY <2>4, <2>5, <4>1
      <4>3. QED
        BY <2>6, <3>1, <4>2
    <3>2. CASE n = Len(old) + 1
      <4>1. n - 1 = Len(old) /\ n - 1 \in 1..Len(old) /\ old # <<>>
        BY <3>2
      <4>2. alerts'[key][n] = new /\ alerts'[key][n - 1] = old[Len(old)]
        BY <2>4, <4>1
      <4>3. QED
        BY <2>2, <2>3, <4>1, <4>2
    <3>3. QED
      BY <2>4, <3>1, <3>2
  <2>8. alerts'[key] # <<>> /\ alerts'[key][Len(alerts'[key])].at = clock
    BY <2>2, <2>4, <2>5
  <2>9. QED
    BY <2>7, <2>8
<1>4. QED
  BY <1>2, <1>3, CheckKey DEF IInv

LEMMA Step == IInv /\ [Next]_vars => IInv'
<1> SUFFICES ASSUME IInv, [Next]_vars PROVE Remembered' /\ CooldownKept'
  BY TypeStep DEF IInv
<1>1. CASE RefreshProcesses
  BY <1>1, CheckKeeps DEF RefreshProcesses
<1>2. CASE UNCHANGED <<lastNotified, alerts>>
  BY <1>2 DEF IInv, Remembered, CooldownKept
<1>3. QED
  BY <1>1, <1>2
    DEF Next, RefreshData, RefreshServices, ProcessChanges, Tick, EditRules, SetRules,
        OnTabChanged, vars, monitorVars

LEMMA InitIInv == Init => IInv
<1> SUFFICES ASSUME Init PROVE Remembered /\ CooldownKept
  BY TypeInit DEF IInv
<1>1. \A key \in Keys : alerts[key] = <<>> /\ lastNotified[key] = None
  BY DEF Init
<1>2. Len(<<>>) = 0 /\ 2..0 = {}
  OBVIOUS
<1>3. QED
  BY <1>1 DEF Remembered, CooldownKept

\* Notifications of one key keep the distance of the cooldown that applies,
\* whatever rules, processes and clock do.
THEOREM CooldownsKept == Spec => []CooldownKept
<1>1. IInv => CooldownKept
  BY DEF IInv
<1>2. QED
  BY InitIInv, Step, <1>1, PTL DEF Spec

\* And no notification is lost for longer than that.
THEOREM NothingIsSilenced == Spec => NothingSilenced
<1>1. ASSUME IInv, RefreshProcesses, NEW i \in DOMAIN rules,
             NEW key \in Fired(rules[i], allProcesses')
      PROVE  \E n \in DOMAIN alerts'[key] :
               \/ alerts'[key][n].at = clock
               \/ SecondsSince(alerts'[key][n].at) < rules[i].cooldown
  <2>1. CheckProcesses(allProcesses')
    BY <1>1 DEF RefreshProcesses
  <2>2. key \in Keys /\ alerts[key] \in Seq(Alerts) /\ clock \in Nat
    BY <1>1, FiredByOne DEF IInv, TypeOK
  <2>3. CASE key \notin AllDue(allProcesses') /\ alerts'[key] = alerts[key]
    <3>1. CoolingDown(key, rules[i])
      BY <1>1, <2>3, DueMeans DEF IInv, TypeOK
    <3>2. alerts[key] # <<>> /\ lastNotified[key] = alerts[key][Len(alerts[key])].at
      BY <1>1, <2>2, <3>1 DEF CoolingDown, IInv, Remembered
    <3>3. Len(alerts[key]) \in DOMAIN alerts[key]
      BY <2>2, <3>2
    <3>4. QED
      BY <2>3, <3>1, <3>2 DEF CoolingDown
  <2>4. ASSUME NEW j \in DOMAIN rules,
               alerts'[key] = Append(alerts[key],
                                     [at |-> clock, cooldown |-> rules[j].cooldown])
        PROVE  \E n \in DOMAIN alerts'[key] : alerts'[key][n].at = clock
    <3>1. rules[j].cooldown \in Int
      BY <1>1, RulesTyped DEF IInv, TypeOK, RuleRecords
    <3>2. [at |-> clock, cooldown |-> rules[j].cooldown] \in Alerts
      BY <2>2, <3>1 DEF Alerts
    <3>3. /\ Len(alerts[key]) + 1 \in DOMAIN alerts'[key]
          /\ alerts'[key][Len(alerts[key]) + 1] =
               [at |-> clock, cooldown |-> rules[j].cooldown]
      BY <2>2, <2>4, <3>2
    <3>4. QED
      BY <3>3
  <2>5. QED
    BY <1>1, <2>1, <2>2, <2>3, <2>4, CheckKey DEF IInv
<1>2. IInv /\ [Next]_vars =>
        [RefreshProcesses =>
           \A i \in DOMAIN rules : \A key \in Fired(rules[i], allProcesses') :
             \E n \in DOMAIN alerts'[key] :
               \/ alerts'[key][n].at = clock
               \/ SecondsSince(alerts'[key][n].at) < rules[i].cooldown]_vars
  BY <1>1
<1>3. QED
  BY InitIInv, Step, <1>2, PTL DEF Spec, NothingSilenced

-----------------------------------------------------------------------------
(* The monitor with its toasts.  Whatever the toasts do, the monitor takes *)
(* a step of its own or none.                                              *)

LEMMA MonitorPart == ToastsNext => [Next]_vars
<1> SUFFICES ASSUME ToastsNext PROVE [Next]_vars
  OBVIOUS
<1>1. CASE Refresh
  BY <1>1 DEF Refresh, Next
<1>2. CASE OnTestRules
  BY <1>2 DEF OnTestRules
<1>3. CASE ProcessChanges \/ Tick \/ EditRules \/ OnTabChanged
  BY <1>3 DEF Next
<1>4. QED
  BY <1>1, <1>2, <1>3 DEF ToastsNext

\* The monitor behaves with its toasts as it does alone, so that what is proved of
\* it above holds of the two together.
THEOREM ToastsLeaveMonitor == ToastsSpec => Spec
<1>1. MonitorToastsInit => Init
  BY DEF MonitorToastsInit
<1>2. [ToastsNext]_allVars => [Next]_vars
  BY MonitorPart DEF allVars
<1>3. QED
  BY <1>1, <1>2, PTL DEF ToastsSpec, Spec

-----------------------------------------------------------------------------
(* What Keep keeps of a sequence, by induction on how much of it has been  *)
(* seen.                                                                   *)

IsKept(f, n, s, S) ==
  f = [i \in 0..n |->
         IF i = 0 THEN <<>>
         ELSE IF s[i] \in S THEN Append(f[i - 1], s[i]) ELSE f[i - 1]]

\* The recursion that Keep stands for has a solution.
LEMMA KeptExists ==
  ASSUME NEW T, NEW s \in Seq(T), NEW S
  PROVE  IsKept(KeptUpTo(s, S), Len(s), s, S)
<1> DEFINE Bad == {n \in Nat : ~\E f : IsKept(f, n, s, S)}
<1>1. SUFFICES Bad = {}
  <2>1. Len(s) \in Nat
    OBVIOUS
  <2>2. PICK f : IsKept(f, Len(s), s, S)
    BY <1>1, <2>1
  <2>3. QED
    BY <2>2 DEF IsKept, KeptUpTo
<1>2. SUFFICES ASSUME Bad # {} PROVE FALSE
  OBVIOUS
<1>3. PICK n \in Bad : \A m \in Bad : ~(<<m, n>> \in OpToRel(<, Nat))
  <2>1. Bad \subseteq Nat
    OBVIOUS
  <2> HIDE DEF Bad
  <2>2. QED
    BY <1>2, <2>1, WFMin, NatLessThanWellFounded
<1>4. n # 0
  <2>1. IsKept([i \in 0..0 |-> <<>>], 0, s, S)
    BY DEF IsKept
  <2>2. QED
    BY <2>1
<1>5. n \in Nat /\ n - 1 \in Nat /\ n - 1 \notin Bad
  <2>1. n \in Nat
    OBVIOUS
  <2>2. n - 1 \in Nat /\ n - 1 < n
    BY <1>4, <2>1
  <2>3. <<n - 1, n>> \in OpToRel(<, Nat)
    BY <2>1, <2>2 DEF OpToRel
  <2>4. QED
    BY <1>3, <2>1, <2>2, <2>3
<1>6. PICK f : IsKept(f, n - 1, s, S)
  BY <1>5
<1> DEFINE g == [i \in 0..n |->
                   IF i < n THEN f[i]
                   ELSE IF s[i] \in S THEN Append(f[i - 1], s[i]) ELSE f[i - 1]]
<1>7. \A i \in 0..n - 1 : g[i] = f[i]
  BY <1>5
<1>8. \A i \in 0..n : g[i] = IF i = 0 THEN <<>>
                             ELSE IF s[i] \in S THEN Append(g[i - 1], s[i]) ELSE g[i - 1]
  <2>1. \A i \in 0..n - 1 : f[i] = IF i = 0 THEN <<>>
                                    ELSE IF s[i] \in S THEN Append(f[i - 1], s[i]) ELSE f[i - 1]
    BY <1>6 DEF IsKept
  <2>2. ASSUME NEW i \in 0..n
        PROVE  g[i] = IF i = 0 THEN <<>>
                      ELSE IF s[i] \in S THEN Append(g[i - 1], s[i]) ELSE g[i - 1]
    <3>1. CASE i = n
      <4>1. n - 1 \in 0..n - 1
        BY <1>5
      <4>2. g[n - 1] = f[n - 1]
        BY <1>7, <4>1
      <4>3. g[n] = IF s[n] \in S THEN Append(f[n - 1], s[n]) ELSE f[n - 1]
        BY <1>5
      <4>4. QED
        BY <1>4, <3>1, <4>2, <4>3
    <3>2. CASE i # n
      <4>1. i \in 0..n - 1 /\ (i # 0 => i - 1 \in 0..n - 1)
        BY <1>5, <3>2
      <4>2. g[i] = f[i] /\ (i # 0 => g[i - 1] = f[i - 1])
        BY <1>7, <4>1
      <4>3. QED
        BY <2>1, <4>1, <4>2
    <3>3. QED
      BY <3>1, <3>2
  <2>3. QED
    BY <2>2
<1>9. IsKept(g, n, s, S)
  BY <1>8 DEF IsKept
<1>10. QED
  BY <1>9

\* What is kept of a sequence: its members that are in the set, each as often as it
\* was there.
KeptFrom(k, n, s, S) ==
  /\ k \in Seq({s[i] : i \in 1..n})
  /\ Len(k) <= n
  /\ {k[j] : j \in 1..Len(k)} = {s[i] : i \in 1..n} \cap S
  /\ (\A i, j \in 1..n : s[i] = s[j] => i = j) =>
       (\A i, j \in 1..Len(k) : k[i] = k[j] => i = j)

\* A sequence with one more member at its end.
LEMMA Appended ==
  ASSUME NEW T, NEW k \in Seq(T), NEW e \in T
  PROVE  /\ Append(k, e) \in Seq(T)
         /\ Len(Append(k, e)) = Len(k) + 1
         /\ Append(k, e)[Len(k) + 1] = e
         /\ \A j \in 1..Len(k) : Append(k, e)[j] = k[j]
OBVIOUS

LEMMA AppendKept ==
  ASSUME NEW T, NEW s \in Seq(T), NEW S, NEW n \in 1..Len(s), NEW k, KeptFrom(k, n - 1, s, S)
  PROVE  KeptFrom(IF s[n] \in S THEN Append(k, s[n]) ELSE k, n, s, S)
<1> DEFINE U == {s[i] : i \in 1..n - 1}
           V == {s[i] : i \in 1..n}
<1>1. n \in Nat /\ n - 1 \in Nat /\ V = U \cup {s[n]}
  OBVIOUS
<1>2. k \in Seq(U) /\ U \subseteq V /\ s[n] \in V /\ Len(k) \in Nat
  BY <1>1 DEF KeptFrom
<1>3. k \in Seq(V)
  BY <1>2
<1>4. {k[j] : j \in 1..Len(k)} = U \cap S
  BY DEF KeptFrom
<1>5. CASE s[n] \notin S
  <2>1. V \cap S = U \cap S
    BY <1>1, <1>5
  <2>2. (\A i, j \in 1..n : s[i] = s[j] => i = j) => (\A i, j \in 1..n - 1 : s[i] = s[j] => i = j)
    BY <1>1
  <2>3. Len(k) <= n
    BY <1>1, <1>2 DEF KeptFrom
  <2>4. {k[j] : j \in 1..Len(k)} = V \cap S
    BY <1>4, <2>1
  <2>5. (\A i, j \in 1..n : s[i] = s[j] => i = j) =>
          (\A i, j \in 1..Len(k) : k[i] = k[j] => i = j)
    BY <2>2 DEF KeptFrom
  <2>6. KeptFrom(k, n, s, S)
    BY <1>3, <2>3, <2>4, <2>5 DEF KeptFrom
  <2>7. QED
    BY <1>5, <2>6
<1>6. CASE s[n] \in S
  <2> DEFINE a == Append(k, s[n])
  <2>1. /\ a \in Seq(V) /\ Len(a) = Len(k) + 1 /\ a[Len(k) + 1] = s[n]
        /\ \A j \in 1..Len(k) : a[j] = k[j]
    <3> HIDE DEF V
    <3>1. s[n] \in V /\ k \in Seq(V)
      BY <1>2, <1>3
    <3>2. QED
      BY <3>1, Appended
  <2> HIDE DEF a
  <2>2. Len(a) <= n
    BY <1>1, <1>2, <2>1 DEF KeptFrom
  <2>3. {a[j] : j \in 1..Len(a)} = {k[j] : j \in 1..Len(k)} \cup {s[n]}
    <3>1. 1..Len(a) = 1..Len(k) \cup {Len(k) + 1}
      BY <1>2, <2>1
    <3>2. QED
      BY <2>1, <3>1
  <2>4. {a[j] : j \in 1..Len(a)} = V \cap S
    BY <1>1, <1>4, <1>6, <2>3
  <2>5. ASSUME \A i, j \in 1..n : s[i] = s[j] => i = j
        PROVE  \A i, j \in 1..Len(a) : a[i] = a[j] => i = j
    <3>1. \A i, j \in 1..Len(k) : k[i] = k[j] => i = j
      BY <1>1, <2>5 DEF KeptFrom
    <3>2. s[n] \notin U
      BY <1>1, <2>5
    <3>3. \A j \in 1..Len(k) : k[j] # s[n]
      BY <1>4, <3>2
    <3>4. 1..Len(a) = 1..Len(k) \cup {Len(k) + 1}
      BY <1>2, <2>1
    <3>5. QED
      BY <2>1, <3>1, <3>3, <3>4
  <2>6. KeptFrom(a, n, s, S)
    BY <2>1, <2>2, <2>4, <2>5 DEF KeptFrom
  <2>7. QED
    BY <1>6, <2>6 DEF a
<1>7. QED
  BY <1>5, <1>6

LEMMA KeepMembers ==
  ASSUME NEW T, NEW s \in Seq(T), NEW S
  PROVE  KeptFrom(Keep(s, S), Len(s), s, S)
<1> DEFINE f == KeptUpTo(s, S)
           Bad == {n \in 0..Len(s) : ~KeptFrom(f[n], n, s, S)}
<1>1. Len(s) \in Nat
  OBVIOUS
<1>2. SUFFICES Bad = {}
  BY <1>1 DEF Keep
<1>3. SUFFICES ASSUME Bad # {} PROVE FALSE
  OBVIOUS
<1>3a. IsKept(f, Len(s), s, S)
  BY KeptExists
<1> HIDE DEF f
<1>4. \A i \in 0..Len(s) : f[i] = IF i = 0 THEN <<>>
                                   ELSE IF s[i] \in S THEN Append(f[i - 1], s[i]) ELSE f[i - 1]
  BY <1>3a DEF IsKept
<1>5. PICK n \in Bad : \A m \in Bad : ~(<<m, n>> \in OpToRel(<, Nat))
  <2>1. Bad \subseteq Nat
    BY <1>1
  <2> HIDE DEF Bad
  <2>2. QED
    BY <1>3, <2>1, WFMin, NatLessThanWellFounded
<1>6. n \in Nat /\ n \in 0..Len(s) /\ ~KeptFrom(f[n], n, s, S)
  BY <1>1
<1>7. n # 0
  <2>1. SUFFICES ASSUME n = 0 PROVE FALSE
    OBVIOUS
  <2>2. f[n] = <<>> /\ 1..0 = {} /\ Len(<<>>) = 0
    BY <1>4, <1>6, <2>1
  <2>3. {s[i] : i \in 1..n} = {} /\ {f[n][j] : j \in 1..Len(f[n])} = {}
    BY <2>1, <2>2
  <2>4. KeptFrom(f[n], n, s, S)
    BY <2>1, <2>2, <2>3 DEF KeptFrom
  <2>5. QED
    BY <1>6, <2>4
<1>8. n - 1 \in 0..Len(s) /\ n - 1 \in Nat /\ n \in 1..Len(s)
  BY <1>1, <1>6, <1>7
<1>9. n - 1 \notin Bad
  <2>1. <<n - 1, n>> \in OpToRel(<, Nat)
    BY <1>6, <1>8 DEF OpToRel
  <2>2. QED
    BY <1>5, <2>1
<1>10. KeptFrom(f[n - 1], n - 1, s, S)
  BY <1>8, <1>9
<1>11. f[n] = IF s[n] \in S THEN Append(f[n - 1], s[n]) ELSE f[n - 1]
  BY <1>4, <1>6, <1>7
<1>12. QED
  BY <1>6, <1>8, <1>10, <1>11, AppendKept

-----------------------------------------------------------------------------
(* The stack of toasts                                                     *)

ToastsInv == ToastsTypeOK /\ OneOwner /\ Stacked

Distinct(s) == \A i, j \in 1..Len(s) : s[i] = s[j] => i = j

LEMMA KeepDistinct ==
  ASSUME NEW s \in Seq(Handles), Distinct(s), NEW S
  PROVE  /\ Keep(s, S) \in Seq(Handles) /\ Distinct(Keep(s, S))
         /\ ToSet(Keep(s, S)) = ToSet(s) \cap S
<1> DEFINE k == Keep(s, S)
           members == {s[i] : i \in 1..Len(s)}
<1>1. KeptFrom(k, Len(s), s, S)
  BY KeepMembers
<1> HIDE DEF k
<1>2. k \in Seq(members) /\ members \subseteq Handles
  BY <1>1 DEF KeptFrom
<1>3. k \in Seq(Handles)
  BY <1>2
<1>4. Distinct(k)
  BY <1>1 DEF KeptFrom, Distinct
<1>5. ToSet(k) = {k[j] : j \in 1..Len(k)} /\ ToSet(s) = members
  BY <1>3 DEF ToSet
<1>6. ToSet(k) = ToSet(s) \cap S
  BY <1>1, <1>5 DEF KeptFrom
<1>7. QED
  BY <1>3, <1>4, <1>6 DEF k

LEMMA Members ==
  ASSUME NEW T, NEW s \in Seq(T)
  PROVE  ToSet(s) = {s[i] : i \in 1..Len(s)} /\ \A e : Contains(s, e) <=> e \in ToSet(s)
<1>1. DOMAIN s = 1..Len(s)
  OBVIOUS
<1>2. QED
  BY <1>1 DEF ToSet, Contains

\* The index at which a distinct sequence has a member.
Index(s, h) ==
  LET I == {j \in 1..Len(s) : s[j] = h}
  IN IF I # {} THEN CHOOSE x \in I : \A y \in I : x <= y ELSE 0

LEMMA IndexOf ==
  ASSUME NEW s \in Seq(Handles), Distinct(s), NEW i \in 1..Len(s)
  PROVE  Index(s, s[i]) = i
<1> DEFINE I == {j \in 1..Len(s) : s[j] = s[i]}
<1>1. I = {i}
  BY DEF Distinct
<1>2. (CHOOSE x \in {i} : \A y \in {i} : x <= y) = i
  OBVIOUS
<1>3. Index(s, s[i]) = IF I # {} THEN CHOOSE x \in I : \A y \in I : x <= y ELSE 0
  BY DEF Index
<1> HIDE DEF I
<1>4. QED
  BY <1>1, <1>2, <1>3

\* Toasts are only moved about.
LEMMA Repositioned ==
  ASSUME NEW all \in [Handles -> Toast], NEW s \in Seq(Handles), Distinct(s)
  PROVE  /\ RepositionToasts(all, s) \in [Handles -> Toast]
         /\ \A h \in Handles : /\ RepositionToasts(all, s)[h].window = all[h].window
                              /\ RepositionToasts(all, s)[h].deleted = all[h].deleted
         /\ \A i \in 1..Len(s) : RepositionToasts(all, s)[s[i]].place = Len(s) - i
<1> DEFINE new == RepositionToasts(all, s)
           place(h) == Len(s) - Index(s, h)
<1>1. ASSUME NEW i \in 1..Len(s) PROVE place(s[i]) = Len(s) - i /\ place(s[i]) \in Nat
  BY IndexOf
<1>2. ASSUME NEW h \in Handles
      PROVE  new[h] = IF Contains(s, h) THEN [all[h] EXCEPT !.place = place(h)] ELSE all[h]
  BY DEF RepositionToasts, SelectInSeq, Min, Index
<1>3. ASSUME NEW h \in Handles, Contains(s, h) PROVE place(h) \in Nat
  BY <1>1, <1>3 DEF Contains
<1> HIDE DEF place
<1>4. ASSUME NEW h \in Handles
      PROVE  new[h] \in Toast /\ new[h].window = all[h].window
             /\ new[h].deleted = all[h].deleted
  BY <1>2, <1>3 DEF Toast
<1>5. ASSUME NEW i \in 1..Len(s) PROVE new[s[i]].place = Len(s) - i
  <2>1. s[i] \in Handles /\ Contains(s, s[i])
    BY DEF Contains
  <2>2. new[s[i]] = [all[s[i]] EXCEPT !.place = place(s[i])]
    BY <1>2, <2>1
  <2>3. QED
    BY <1>1, <2>1, <2>2 DEF Toast
<1>6. new \in [Handles -> Toast]
  BY <1>4 DEF RepositionToasts
<1>7. QED
  BY <1>4, <1>5, <1>6

LEMMA NewToasts ==
  /\ \A n \in Nat : Gone(n) \in Toast /\ ~Gone(n).window /\ Gone(n).deleted = n
  /\ \A timer \in BOOLEAN : New(timer) \in Toast /\ New(timer).window /\ New(timer).deleted = 0
  /\ \A gone \in Discarded : gone = Gone(1)
<1>1. ASSUME NEW n \in Nat
      PROVE  Gone(n) \in Toast /\ ~Gone(n).window /\ Gone(n).deleted = n
  BY ToastsAssumption DEF Gone, Toast
<1>2. ASSUME NEW timer \in BOOLEAN
      PROVE  New(timer) \in Toast /\ New(timer).window /\ New(timer).deleted = 0
  <2>1. PICK t \in Toast, now \in BOOLEAN, refused \in BOOLEAN :
          /\ t.deleted = 0
          /\ New(timer) = [t EXCEPT !.window = now, !.autoClose = timer, !.refused = refused]
          /\ now = TRUE
    BY <1>1 DEF New
  <2>2. QED
    BY <2>1 DEF Toast
<1>3. NcDestroy(Gone(0), FALSE).deleted + 1 = 1
  <2>1. NcDestroy(Gone(0), FALSE) = Gone(Gone(0).deleted)
    BY DEF NcDestroy
  <2>2. Gone(0).deleted = 0
    BY <1>1
  <2>3. NcDestroy(Gone(0), FALSE).deleted = 0
    BY <2>1, <2>2
  <2>4. 0 + 1 = 1
    OBVIOUS
  <2>5. QED
    BY <2>3, <2>4, Zenon
<1>4. QED
  BY <1>1, <1>2, <1>3 DEF Discarded

Windows(all) == {h \in Handles : all[h].window}

LEMMA StackedDistinct ==
  ASSUME ToastsTypeOK, Stacked
  PROVE  active \in Seq(Handles) /\ Distinct(active) /\ ToSet(active) = Windows(toasts)
<1>1. ASSUME NEW i \in 1..Len(active), NEW j \in 1..Len(active), active[i] = active[j]
      PROVE  i = j
  <2>1. Len(active) - i = Len(active) - j /\ Len(active) \in Nat
    BY <1>1 DEF ToastsTypeOK, Stacked
  <2>2. QED
    BY <2>1
<1>2. QED
  BY <1>1 DEF ToastsTypeOK, Stacked, Distinct, Windows

\* A stack of all the windows, put in their places.
LEMMA Restacked ==
  ASSUME NEW all \in [Handles -> Toast],
         \A h \in Handles : all[h].deleted = IF all[h].window THEN 0 ELSE 1,
         NEW s \in Seq(Handles), Distinct(s), ToSet(s) = Windows(all),
         active' = s, toasts' = RepositionToasts(all, s)
  PROVE  ToastsInv'
<1>1. toasts' \in [Handles -> Toast]
  BY Repositioned
<1>2. \A h \in Handles : toasts'[h].window = all[h].window /\ toasts'[h].deleted = all[h].deleted
  BY Repositioned
<1>3. \A i \in DOMAIN active' : toasts'[active'[i]].place = Len(active') - i
  <2>1. DOMAIN s = 1..Len(s)
    OBVIOUS
  <2>2. \A i \in DOMAIN s : RepositionToasts(all, s)[s[i]].place = Len(s) - i
    BY <2>1, Repositioned
  <2>3. QED
    BY <2>2
<1>4. OneOwner'
  BY <1>2 DEF OneOwner
<1>5. ToSet(active') = {h \in Handles : toasts'[h].window}
  BY <1>2 DEF Windows
<1>6. QED
  BY <1>1, <1>3, <1>4, <1>5 DEF ToastsInv, ToastsTypeOK, Stacked

LEMMA ShowToastsKeeps ==
  ASSUME ToastsInv, NEW count \in Nat, ShowToasts(count)
  PROVE  ToastsInv'
<1> DEFINE free == {h \in Handles : ~toasts[h].window}
<1>1. PICK shown \in SeqOf(free, count) :
        /\ IsInjective(shown)
        /\ \E discarded \in SUBSET {h \in Handles \ ToSet(shown) : ~toasts[h].window} :
             \E timers \in [ToSet(shown) -> BOOLEAN], discards \in [discarded -> Discarded] :
               LET all == [h \in Handles |->
                             IF Contains(shown, h) THEN New(timers[h])
                             ELSE IF h \in discarded THEN discards[h]
                             ELSE toasts[h]]
               IN /\ active' = Valid(all, active \o shown)
                  /\ toasts' = RepositionToasts(all, active')
  BY DEF ShowToasts
<1>2a. PICK discarded \in SUBSET {h \in Handles \ ToSet(shown) : ~toasts[h].window} :
        \E timers \in [ToSet(shown) -> BOOLEAN], discards \in [discarded -> Discarded] :
          LET all == [h \in Handles |->
                        IF Contains(shown, h) THEN New(timers[h])
                        ELSE IF h \in discarded THEN discards[h]
                        ELSE toasts[h]]
          IN /\ active' = Valid(all, active \o shown)
             /\ toasts' = RepositionToasts(all, active')
  BY <1>1
<1>2. PICK timers \in [ToSet(shown) -> BOOLEAN], discards \in [discarded -> Discarded] :
        LET all == [h \in Handles |->
                      IF Contains(shown, h) THEN New(timers[h])
                      ELSE IF h \in discarded THEN discards[h]
                      ELSE toasts[h]]
        IN /\ active' = Valid(all, active \o shown)
           /\ toasts' = RepositionToasts(all, active')
  BY <1>2a
<1> DEFINE all == [h \in Handles |->
                     IF Contains(shown, h) THEN New(timers[h])
                     ELSE IF h \in discarded THEN discards[h]
                     ELSE toasts[h]]
<1>3. shown \in Seq(free) /\ Distinct(shown)
  <2>1. PICK m \in 0..count : shown \in [1..m -> free]
    BY <1>1 DEF SeqOf
  <2>2. m \in Nat
    BY <2>1
  <2>3. shown \in Seq(free) /\ DOMAIN shown = 1..Len(shown)
    BY <2>1, <2>2
  <2>4. QED
    BY <1>1, <2>3 DEF IsInjective, Distinct
<1>4. /\ \A h : Contains(shown, h) <=> h \in ToSet(shown)
      /\ ToSet(shown) \subseteq free
  BY <1>3 DEF Contains, ToSet
<1>5. ASSUME NEW h \in Handles
      PROVE  /\ all[h] \in Toast
             /\ all[h].deleted = IF all[h].window THEN 0 ELSE 1
             /\ all[h].window <=> h \in ToSet(shown) \/ toasts[h].window
  <2>1. CASE h \in ToSet(shown)
    <3>1. all[h] = New(timers[h]) /\ timers[h] \in BOOLEAN
      BY <1>4, <2>1
    <3>2. QED
      BY <2>1, <3>1, NewToasts
  <2>2. CASE h \notin ToSet(shown) /\ h \in discarded
    <3>1. all[h] = Gone(1) /\ ~toasts[h].window
      BY <1>4, <2>2, NewToasts
    <3>2. Gone(1) \in Toast /\ ~Gone(1).window /\ Gone(1).deleted = 1
      BY NewToasts
    <3>3. QED
      BY <2>2, <3>1, <3>2
  <2>3. CASE h \notin ToSet(shown) /\ h \notin discarded
    <3>1. all[h] = toasts[h]
      BY <1>4, <2>3
    <3>2. QED
      BY <2>3, <3>1 DEF ToastsInv, ToastsTypeOK, OneOwner
  <2>4. QED
    BY <2>1, <2>2, <2>3
<1>6. all \in [Handles -> Toast]
  BY <1>5
<1> DEFINE s == active \o shown
<1>7. active \in Seq(Handles) /\ Distinct(active) /\ ToSet(active) = Windows(toasts)
  BY StackedDistinct DEF ToastsInv
<1>8. s \in Seq(Handles) /\ Distinct(s) /\ ToSet(s) = ToSet(active) \cup ToSet(shown)
  <2>1. shown \in Seq(Handles)
    BY <1>3
  <2>2. /\ s \in Seq(Handles) /\ Len(s) = Len(active) + Len(shown)
        /\ Len(active) \in Nat /\ Len(shown) \in Nat
        /\ \A i \in 1..Len(active) : s[i] = active[i]
        /\ \A i \in 1..Len(shown) : s[Len(active) + i] = shown[i]
    BY <1>7, <2>1
  <2> HIDE DEF s
  <2>3. \A i \in 1..Len(s) : \/ i \in 1..Len(active) /\ s[i] = active[i]
                             \/ i - Len(active) \in 1..Len(shown) /\ s[i] = shown[i - Len(active)]
    BY <2>2
  <2>4. \A i \in 1..Len(active), j \in 1..Len(shown) : active[i] # shown[j]
    BY <1>3, <1>7 DEF ToSet, Windows
  <2>5. Distinct(s)
    <3> SUFFICES ASSUME NEW i \in 1..Len(s), NEW j \in 1..Len(s), s[i] = s[j]
                 PROVE  i = j
      BY DEF Distinct
    <3>1. CASE i \in 1..Len(active) /\ j \in 1..Len(active)
      BY <1>7, <2>2, <3>1 DEF Distinct
    <3>2. CASE i - Len(active) \in 1..Len(shown) /\ j - Len(active) \in 1..Len(shown)
               /\ s[i] = shown[i - Len(active)] /\ s[j] = shown[j - Len(active)]
      <4>1. i - Len(active) = j - Len(active)
        BY <1>3, <3>2 DEF Distinct
      <4>2. QED
        BY <2>2, <4>1
    <3>3. QED
      BY <2>3, <2>4, <3>1, <3>2
  <2>6. ToSet(s) = {s[i] : i \in 1..Len(s)}
        /\ ToSet(active) = {active[i] : i \in 1..Len(active)}
        /\ ToSet(shown) = {shown[i] : i \in 1..Len(shown)}
    BY <1>3, <1>7, <2>2, Members
  <2>7. \A i \in 1..Len(active) : i \in 1..Len(s)
        /\ \A j \in 1..Len(shown) : Len(active) + j \in 1..Len(s)
    BY <2>2
  <2>8. ToSet(s) \subseteq ToSet(active) \cup ToSet(shown)
    BY <2>3, <2>6
  <2>9. ToSet(active) \subseteq ToSet(s)
    BY <2>2, <2>6
  <2>10. ToSet(shown) \subseteq ToSet(s)
    <3>1. \A j \in 1..Len(shown) : Len(active) + j \in 1..Len(s)
      BY <2>2
    <3>2. QED
      BY <2>2, <2>6, <3>1
  <2>11. QED
    BY <2>2, <2>5, <2>8, <2>9, <2>10
<1> HIDE DEF all, s
<1>9. ToSet(s) = Windows(all)
  BY <1>4, <1>5, <1>7, <1>8 DEF Windows
<1>10. active' = Keep(s, Windows(all)) /\ toasts' = RepositionToasts(all, active')
  BY <1>2 DEF Valid, Windows, all, s
<1>11. active' \in Seq(Handles) /\ Distinct(active') /\ ToSet(active') = Windows(all)
  <2>1. ToSet(s) \cap Windows(all) = Windows(all)
    BY <1>9
  <2>2. QED
    BY <1>8, <1>10, <2>1, KeepDistinct
<1>12. QED
  BY <1>5, <1>6, <1>10, <1>11, Restacked

LEMMA DestroyKeeps ==
  ASSUME ToastsInv, NEW h \in Handles, toasts[h].window, DestroyWindow(h)
  PROVE  ToastsInv'
<1> DEFINE all == [toasts EXCEPT ![h] = NcDestroy(@, TRUE)]
           taken == TakenOff(h)
<1>1. toasts \in [Handles -> Toast]
      /\ \A g \in Handles : toasts[g].deleted = IF toasts[g].window THEN 0 ELSE 1
  BY DEF ToastsInv, ToastsTypeOK, OneOwner
<1>2. active \in Seq(Handles) /\ Distinct(active) /\ ToSet(active) = Windows(toasts)
  BY StackedDistinct DEF ToastsInv
<1>3. taken \in Seq(Handles) /\ Distinct(taken) /\ ToSet(taken) = Windows(toasts) \ {h}
  <2>1. Windows(toasts) \cap (Handles \ {h}) = Windows(toasts) \ {h}
    BY DEF Windows
  <2>2. QED
    BY <1>2, <2>1, KeepDistinct DEF TakenOff
<1>4. active' \in Seq(Handles) /\ Distinct(active') /\ ToSet(active') = Windows(toasts) \ {h}
  <2>1. active' = Keep(taken, Windows(toasts))
    BY DEF DestroyWindow, Valid, Windows
  <2>2. (Windows(toasts) \ {h}) \cap Windows(toasts) = Windows(toasts) \ {h}
    OBVIOUS
  <2> HIDE DEF taken
  <2>3. QED
    BY <1>3, <2>1, <2>2, KeepDistinct
<1>5. NcDestroy(toasts[h], TRUE) = Gone(1)
  BY <1>1 DEF NcDestroy
<1>6. Gone(1) \in Toast /\ ~Gone(1).window /\ Gone(1).deleted = 1
  BY NewToasts
<1>7. /\ all \in [Handles -> Toast] /\ all[h] = Gone(1)
      /\ \A g \in Handles \ {h} : all[g] = toasts[g]
  BY <1>1, <1>5, <1>6
<1> HIDE DEF all
<1>8. \A g \in Handles : all[g].deleted = IF all[g].window THEN 0 ELSE 1
  BY <1>1, <1>6, <1>7
<1>9. ToSet(active') = Windows(all)
  BY <1>4, <1>6, <1>7 DEF Windows
<1>10. toasts' = RepositionToasts(all, active')
  <2> DEFINE moved == RepositionToasts(toasts, active')
             there == RepositionToasts(all, active')
  <2>1. toasts' = [moved EXCEPT ![h] = NcDestroy(@, TRUE)]
    BY DEF DestroyWindow
  <2>2. ~Contains(active', h)
    BY <1>4, Members
  <2>3. moved[h] = toasts[h] /\ there[h] = all[h]
    BY <2>2 DEF RepositionToasts
  <2>4. ASSUME NEW g \in Handles \ {h} PROVE moved[g] = there[g]
    BY <1>7 DEF RepositionToasts
  <2>5. DOMAIN moved = Handles /\ DOMAIN there = Handles
        /\ moved = [g \in Handles |-> moved[g]] /\ there = [g \in Handles |-> there[g]]
    BY DEF RepositionToasts
  <2> HIDE DEF moved, there
  <2>6. ASSUME NEW g \in Handles PROVE toasts'[g] = there[g]
    BY <1>5, <1>7, <2>1, <2>3, <2>4, <2>5
  <2>7. toasts' = [g \in Handles |-> toasts'[g]]
    BY <2>1, <2>5
  <2>8. toasts' = there
    BY <2>5, <2>6, <2>7
  <2>9. QED
    BY <2>8 DEF there
<1>11. QED
  BY <1>4, <1>7, <1>8, <1>9, <1>10, Restacked

\* A timer or a fade that leaves the window, its place and its object alone.
LEMMA Touched ==
  ASSUME ToastsInv, NEW h \in Handles, NEW t \in Toast,
         t.window = toasts[h].window, t.deleted = toasts[h].deleted, t.place = toasts[h].place,
         toasts' = [toasts EXCEPT ![h] = t], UNCHANGED active
  PROVE  ToastsInv'
<1>1. toasts' \in [Handles -> Toast]
  BY DEF ToastsInv, ToastsTypeOK
<1>2. ASSUME NEW g \in Handles
      PROVE  /\ toasts'[g].window = toasts[g].window
             /\ toasts'[g].deleted = toasts[g].deleted
             /\ toasts'[g].place = toasts[g].place
  BY DEF ToastsInv, ToastsTypeOK
<1>3. OneOwner'
  BY <1>2 DEF ToastsInv, OneOwner
<1>4. \A i \in DOMAIN active : active[i] \in Handles
  BY DEF ToastsInv, ToastsTypeOK
<1>5. Stacked'
  BY <1>2, <1>4 DEF ToastsInv, Stacked
<1>6. QED
  BY <1>1, <1>3, <1>5 DEF ToastsInv, ToastsTypeOK

LEMMA ClosesKeeps ==
  ASSUME ToastsInv, NEW h \in Handles, Closes(h)
  PROVE  ToastsInv'
<1>1. PICK timer \in BOOLEAN : toasts' = [toasts EXCEPT ![h] = Close(@, timer)]
  BY DEF Closes
<1>2. toasts[h] \in Toast /\ toasts \in [Handles -> Toast]
  BY DEF ToastsInv, ToastsTypeOK
<1>3. PICK refused \in BOOLEAN :
        Close(toasts[h], timer) =
          IF toasts[h].closing THEN toasts[h]
          ELSE [toasts[h] EXCEPT !.closing = TRUE, !.autoClose = FALSE,
                                 !.fadeOut = timer, !.refused = refused]
  <2>1. (toasts[h].refused \/ ~timer) \in BOOLEAN
    OBVIOUS
  <2>2. QED
    BY <2>1 DEF Close
<1>4. /\ Close(toasts[h], timer) \in Toast
      /\ Close(toasts[h], timer).window = toasts[h].window
      /\ Close(toasts[h], timer).deleted = toasts[h].deleted
      /\ Close(toasts[h], timer).place = toasts[h].place
  BY <1>2, <1>3 DEF Toast
<1>5. QED
  BY <1>1, <1>4, Touched DEF Closes

LEMMA FadeOutKeeps ==
  ASSUME ToastsInv, NEW h \in Handles, FadeOut(h)
  PROVE  ToastsInv'
<1>1. CASE toasts[h].alpha <= FadeStep
  BY <1>1, DestroyKeeps DEF FadeOut
<1>2. CASE ~(toasts[h].alpha <= FadeStep)
  <2> DEFINE t == [toasts[h] EXCEPT !.alpha = @ - FadeStep]
  <2>1. toasts[h] \in Toast
    BY DEF ToastsInv, ToastsTypeOK
  <2>2. toasts[h].alpha - FadeStep \in 1..Opaque
    BY <1>2, <2>1, ToastsAssumption DEF Toast
  <2>3. /\ t \in Toast /\ t.window = toasts[h].window
        /\ t.deleted = toasts[h].deleted /\ t.place = toasts[h].place
    BY <2>1, <2>2 DEF Toast
  <2>4. toasts' = [toasts EXCEPT ![h] = t] /\ UNCHANGED active
    BY <1>2 DEF FadeOut
  <2> HIDE DEF t
  <2>5. QED
    BY <2>3, <2>4, Touched
<1>3. QED
  BY <1>1, <1>2

\* A check raises finitely many alerts.
LEMMA RaisedFinite ==
  ASSUME TypeOK, RefreshData
  PROVE  Cardinality(Raised) \in Nat
<1>1. CASE RefreshServices
  <2>1. Raised = {}
    BY <1>1 DEF RefreshServices, Raised, vars, monitorVars
  <2>2. QED
    BY <2>1, FS_EmptySet
<1>2. CASE RefreshProcesses
  <2>1. PICK procs \in Snapshots : CheckProcesses(procs)
    BY <1>2 DEF RefreshProcesses
  <2>2. IsFiniteSet(AllDue(procs))
    BY DueFinite DEF TypeOK
  <2>3. Raised \subseteq AllDue(procs)
    <3>1. ASSUME NEW key \in Keys, key \notin AllDue(procs) PROVE alerts'[key] = alerts[key]
      BY <2>1, <3>1 DEF CheckProcesses, AllDue
    <3>2. QED
      BY <3>1 DEF Raised
  <2>4. QED
    BY <2>2, <2>3, FS_Subset, FS_CardinalityType
<1>3. QED
  BY <1>1, <1>2 DEF RefreshData

LEMMA ToastsStep == TypeOK /\ ToastsInv /\ [ToastsNext]_allVars => ToastsInv'
<1> SUFFICES ASSUME TypeOK, ToastsInv, [ToastsNext]_allVars PROVE ToastsInv'
  OBVIOUS
<1>1. CASE Refresh
  BY <1>1, RaisedFinite, ShowToastsKeeps DEF Refresh
<1>2. CASE OnTestRules
  <2>1. PICK count \in DOMAIN rules : ShowToasts(count)
    BY <1>2 DEF OnTestRules
  <2>2. count \in Nat
    BY RulesTyped DEF TypeOK
  <2>3. QED
    BY <2>1, <2>2, ShowToastsKeeps
<1>3. ASSUME NEW h \in Handles, ToastTimer(h) \/ Click(h) PROVE ToastsInv'
  BY <1>3, ClosesKeeps, FadeOutKeeps DEF ToastTimer, AutoClose, Click
<1>4. CASE UNCHANGED stack
  BY <1>4 DEF stack, ToastsInv, ToastsTypeOK, OneOwner, Stacked
<1>5. QED
  BY <1>1, <1>2, <1>3, <1>4 DEF ToastsNext, allVars

LEMMA ToastsInitInv == ToastsInit => ToastsInv
<1> SUFFICES ASSUME ToastsInit PROVE ToastsInv
  OBVIOUS
<1>1. Gone(1) \in Toast /\ ~Gone(1).window /\ Gone(1).deleted = 1
  BY NewToasts
<1>2. toasts = [h \in Handles |-> Gone(1)] /\ active = <<>>
  BY DEF ToastsInit
<1>3. ToastsTypeOK
  BY <1>1, <1>2 DEF ToastsTypeOK
<1>4. OneOwner
  BY <1>1, <1>2 DEF OneOwner
<1>5. Stacked
  <2>1. DOMAIN active = {} /\ ToSet(active) = {}
    BY <1>2 DEF ToSet
  <2>2. QED
    BY <1>1, <1>2, <2>1 DEF Stacked
<1>6. QED
  BY <1>3, <1>4, <1>5 DEF ToastsInv

\* Where toasts are shown, their types, their owners and their stack are kept
\* together: who owns what depends on which windows are on the list.
THEOREM ToastsInvariance == ToastsSpec => []ToastsInv
<1>1. MonitorToastsInit => ToastsInv
  BY ToastsInitInv DEF MonitorToastsInit
<1>2. ToastsSpec => []TypeOK
  BY ToastsLeaveMonitor, TypeCorrect, PTL
<1>3. QED
  BY <1>1, <1>2, ToastsStep, PTL DEF ToastsSpec

\* A toast fades without ever passing 0, and the list holds handles of the system.
THEOREM ToastsTypeCorrect == ToastsSpec => []ToastsTypeOK
<1>1. ToastsInv => ToastsTypeOK
  BY DEF ToastsInv
<1>2. QED
  BY <1>1, ToastsInvariance, PTL

\* The object of a toast is deleted once and with its window, in whatever order
\* toasts are shown, fail to be created, are clicked, fade and give back handles.
THEOREM OwnedOnce == ToastsSpec => []OneOwner
<1>1. ToastsInv => OneOwner
  BY DEF ToastsInv
<1>2. QED
  BY <1>1, ToastsInvariance, PTL

\* However many toasts come and go, the windows are those on the list and leave no
\* place out.
THEOREM StackedWithoutGaps == ToastsSpec => []Stacked
<1>1. ToastsInv => Stacked
  BY DEF ToastsInv
<1>2. QED
  BY <1>1, ToastsInvariance, PTL

-----------------------------------------------------------------------------
(* The timers of the toasts                                                *)

Timed(toast) ==
  toast.window =>
    /\ toast.autoClose \/ toast.fadeOut \/ toast.refused
    /\ toast.closing => ~toast.autoClose
    /\ toast.fadeOut \/ toast.alpha < Opaque => toast.closing
    /\ toast.alpha > 0

LEMMA TimedAll == RightTimerRuns <=> \A h \in Handles : Timed(toasts[h])
BY DEF RightTimerRuns, Timed

\* The place of a toast is no matter of its timers.
LEMMA PlaceUntimed ==
  ASSUME NEW t \in Toast, NEW place, Timed(t)
  PROVE  Timed([t EXCEPT !.place = place])
BY DEF Toast, Timed

LEMMA RepositionedTimed ==
  ASSUME NEW all \in [Handles -> Toast], \A h \in Handles : Timed(all[h]), NEW s
  PROVE  \A h \in Handles : Timed(RepositionToasts(all, s)[h])
<1> SUFFICES ASSUME NEW h \in Handles PROVE Timed(RepositionToasts(all, s)[h])
  OBVIOUS
<1>1. PICK place :
        RepositionToasts(all, s)[h] =
          IF Contains(s, h) THEN [all[h] EXCEPT !.place = place] ELSE all[h]
  BY DEF RepositionToasts
<1>2. all[h] \in Toast /\ Timed(all[h])
  OBVIOUS
<1>3. QED
  BY <1>1, <1>2, PlaceUntimed

\* A toast without a window, and a new one.
LEMMA NewTimed ==
  /\ \A n \in Nat : Timed(Gone(n))
  /\ \A timer \in BOOLEAN : Timed(New(timer))
<1>1. ASSUME NEW n \in Nat PROVE Timed(Gone(n))
  BY DEF Gone, Timed
<1>2. ASSUME NEW timer \in BOOLEAN PROVE Timed(New(timer))
  <2>1. New(timer) = [Gone(0) EXCEPT !.window = TRUE, !.autoClose = timer, !.refused = ~timer]
    BY DEF New
  <2>2. New(timer).autoClose = timer /\ New(timer).refused = ~timer
        /\ New(timer).closing = FALSE /\ New(timer).fadeOut = FALSE
        /\ ~(New(timer).alpha < Opaque) /\ New(timer).alpha > 0
    BY <2>1, ToastsAssumption DEF Gone
  <2>3. QED
    BY <2>2, Zenon DEF Timed
<1>3. QED
  BY <1>1, <1>2

LEMMA ShowToastsTimed ==
  ASSUME ToastsInv, RightTimerRuns, NEW count \in Nat, ShowToasts(count)
  PROVE  RightTimerRuns'
<1>1. PICK shown \in SeqOf({h \in Handles : ~toasts[h].window}, count) :
        \E discarded \in SUBSET {h \in Handles \ ToSet(shown) : ~toasts[h].window} :
          \E timers \in [ToSet(shown) -> BOOLEAN], discards \in [discarded -> Discarded] :
            LET all == [h \in Handles |->
                          IF Contains(shown, h) THEN New(timers[h])
                          ELSE IF h \in discarded THEN discards[h]
                          ELSE toasts[h]]
            IN /\ active' = Valid(all, active \o shown)
               /\ toasts' = RepositionToasts(all, active')
  BY Zenon DEF ShowToasts
<1>2. PICK discarded \in SUBSET {h \in Handles \ ToSet(shown) : ~toasts[h].window} :
        \E timers \in [ToSet(shown) -> BOOLEAN], discards \in [discarded -> Discarded] :
          LET all == [h \in Handles |->
                        IF Contains(shown, h) THEN New(timers[h])
                        ELSE IF h \in discarded THEN discards[h]
                        ELSE toasts[h]]
          IN /\ active' = Valid(all, active \o shown)
             /\ toasts' = RepositionToasts(all, active')
  BY <1>1, Zenon
<1>3. PICK timers \in [ToSet(shown) -> BOOLEAN], discards \in [discarded -> Discarded] :
        toasts' =
          RepositionToasts([h \in Handles |->
                              IF Contains(shown, h) THEN New(timers[h])
                              ELSE IF h \in discarded THEN discards[h]
                              ELSE toasts[h]], active')
  BY <1>2
<1> DEFINE all == [h \in Handles |->
                     IF Contains(shown, h) THEN New(timers[h])
                     ELSE IF h \in discarded THEN discards[h]
                     ELSE toasts[h]]
<1>4. ASSUME NEW h \in Handles PROVE all[h] \in Toast /\ Timed(all[h])
  <2>1. CASE Contains(shown, h)
    <3>1. all[h] = New(timers[h]) /\ timers[h] \in BOOLEAN
      BY <2>1 DEF Contains, ToSet
    <3>2. QED
      BY <3>1, NewToasts, NewTimed
  <2>2. CASE ~Contains(shown, h) /\ h \in discarded
    <3>1. all[h] = Gone(1)
      BY <2>2, NewToasts
    <3>2. QED
      BY <3>1, NewToasts, NewTimed
  <2>3. CASE ~Contains(shown, h) /\ h \notin discarded
    BY <2>3, TimedAll DEF ToastsInv, ToastsTypeOK
  <2>4. QED
    BY <2>1, <2>2, <2>3
<1>5. all \in [Handles -> Toast]
  BY <1>4
<1>6. toasts' = RepositionToasts(all, active')
  BY <1>3
<1> HIDE DEF all
<1>7. QED
  BY <1>4, <1>5, <1>6, RepositionedTimed DEF RightTimerRuns, Timed

LEMMA DestroyTimed ==
  ASSUME ToastsInv, RightTimerRuns, NEW h \in Handles, DestroyWindow(h)
  PROVE  RightTimerRuns'
<1> DEFINE moved == RepositionToasts(toasts, active')
<1>1. \A g \in Handles : Timed(moved[g])
  BY RepositionedTimed, TimedAll DEF ToastsInv, ToastsTypeOK
<1>2. DOMAIN moved = Handles
  BY DEF RepositionToasts
<1> HIDE DEF moved
<1>3. toasts' = [moved EXCEPT ![h] = Gone(moved[h].deleted + 1)]
  BY DEF DestroyWindow, NcDestroy, moved
<1>4. Timed(Gone(moved[h].deleted + 1))
  BY DEF Gone, Timed
<1>5. \A g \in Handles : Timed(toasts'[g])
  BY <1>1, <1>2, <1>3, <1>4
<1>6. QED
  BY <1>5 DEF RightTimerRuns, Timed

\* What happens to the toast of one window.
LEMMA TouchedTimed ==
  ASSUME ToastsInv, RightTimerRuns, NEW h \in Handles, NEW t, Timed(t),
         toasts' = [toasts EXCEPT ![h] = t]
  PROVE  RightTimerRuns'
<1>1. \A g \in Handles : Timed(toasts'[g])
  BY TimedAll DEF ToastsInv, ToastsTypeOK
<1>2. QED
  BY <1>1 DEF RightTimerRuns, Timed

LEMMA ClosesTimed ==
  ASSUME ToastsInv, RightTimerRuns, NEW h \in Handles, Closes(h)
  PROVE  RightTimerRuns'
<1>1. PICK timer \in BOOLEAN : toasts' = [toasts EXCEPT ![h] = Close(@, timer)]
  BY DEF Closes
<1>2. toasts[h] \in Toast /\ Timed(toasts[h]) /\ toasts \in [Handles -> Toast]
  BY TimedAll DEF ToastsInv, ToastsTypeOK
<1>3. CASE toasts[h].closing
  <2>1. Close(toasts[h], timer) = toasts[h]
    BY <1>3 DEF Close
  <2>2. QED
    BY <1>1, <1>2, <2>1, TouchedTimed
<1>4. CASE ~toasts[h].closing
  <2> DEFINE t == Close(toasts[h], timer)
  <2>1. PICK refused :
          /\ t = [toasts[h] EXCEPT !.closing = TRUE, !.autoClose = FALSE,
                                   !.fadeOut = timer, !.refused = refused]
          /\ refused = (toasts[h].refused \/ ~timer)
    BY <1>4, Zenon DEF Close
  <2> HIDE DEF t
  <2>2. t.closing = TRUE /\ t.autoClose = FALSE /\ t.fadeOut = timer /\ t.refused = refused
    BY <1>2, <2>1 DEF Toast
  <2>a. t.alpha > 0
    BY <1>2, <2>1, ToastsAssumption DEF Toast
  <2>3. Timed(t)
    BY <2>1, <2>2, <2>a DEF Timed
  <2>4. QED
    BY <1>1, <2>3, TouchedTimed DEF t
<1>5. QED
  BY <1>3, <1>4

LEMMA FadeOutTimed ==
  ASSUME ToastsInv, RightTimerRuns, NEW h \in Handles, FadeOut(h)
  PROVE  RightTimerRuns'
<1>1. CASE toasts[h].alpha <= FadeStep
  BY <1>1, DestroyTimed DEF FadeOut
<1>2. CASE ~(toasts[h].alpha <= FadeStep)
  <2> DEFINE t == [toasts[h] EXCEPT !.alpha = @ - FadeStep]
  <2>1. toasts[h] \in Toast /\ Timed(toasts[h]) /\ toasts[h].window /\ toasts[h].fadeOut
    BY TimedAll DEF ToastsInv, ToastsTypeOK, FadeOut
  <2>2. /\ t.window = toasts[h].window /\ t.closing = toasts[h].closing
        /\ t.autoClose = toasts[h].autoClose /\ t.fadeOut = toasts[h].fadeOut
        /\ t.refused = toasts[h].refused
    BY <2>1 DEF Toast
  <2>3. toasts' = [toasts EXCEPT ![h] = t]
    BY <1>2 DEF FadeOut
  <2>a. t.alpha > 0
    BY <1>2, <2>1, ToastsAssumption DEF Toast
  <2> HIDE DEF t
  <2>4. Timed(t)
    <3>1. toasts[h].closing
      BY <2>1 DEF Timed
    <3>2. QED
      BY <2>1, <2>2, <2>a, <3>1 DEF Timed
  <2>5. QED
    BY <2>3, <2>4, TouchedTimed
<1>3. QED
  BY <1>1, <1>2

LEMMA TimersStep ==
  TypeOK /\ ToastsInv /\ RightTimerRuns /\ [ToastsNext]_allVars => RightTimerRuns'
<1> SUFFICES ASSUME TypeOK, ToastsInv, RightTimerRuns, [ToastsNext]_allVars
             PROVE  RightTimerRuns'
  OBVIOUS
<1>1. CASE Refresh
  BY <1>1, RaisedFinite, ShowToastsTimed DEF Refresh
<1>2. CASE OnTestRules
  <2>1. PICK count \in DOMAIN rules : ShowToasts(count)
    BY <1>2 DEF OnTestRules
  <2>2. count \in Nat
    BY RulesTyped DEF TypeOK
  <2>3. QED
    BY <2>1, <2>2, ShowToastsTimed
<1>3. ASSUME NEW h \in Handles, ToastTimer(h) \/ Click(h) PROVE RightTimerRuns'
  BY <1>3, ClosesTimed, FadeOutTimed DEF ToastTimer, AutoClose, Click
<1>4. CASE UNCHANGED stack
  BY <1>4 DEF stack, RightTimerRuns
<1>5. QED
  BY <1>1, <1>2, <1>3, <1>4 DEF ToastsNext, allVars

\* Every toast on the screen has the timer that takes it to its end running, unless
\* Windows refused it one.
THEOREM TimersRun == ToastsSpec => []RightTimerRuns
<1>1. MonitorToastsInit => RightTimerRuns
  BY NewToasts DEF MonitorToastsInit, ToastsInit, RightTimerRuns
<1>2. ToastsSpec => []TypeOK
  BY ToastsLeaveMonitor, TypeCorrect, PTL
<1>3. QED
  BY <1>1, <1>2, ToastsInvariance, TimersStep, PTL DEF ToastsSpec

\* Cooldowns are kept with toasts on the screen as well.
THEOREM CooldownsKeptWithToasts == ToastsSpec => []CooldownKept
BY ToastsLeaveMonitor, CooldownsKept, PTL
=============================================================================
