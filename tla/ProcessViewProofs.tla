-------------------------- MODULE ProcessViewProofs --------------------------
(***************************************************************************)
(* Proofs about ProcessView and the ProcessSnapshot it refreshes from, for *)
(* every set of PIDs, number of processes, amount of CPU time and set of   *)
(* filters.                                                                *)
(***************************************************************************)
EXTENDS ProcessView, FiniteSetTheorems, TLAPS

-----------------------------------------------------------------------------
(* The invariant of the snapshot                                           *)

\* A process holds one PID, and nobody knows of one that has not started yet.
HolderInv ==
  /\ \A p \in Pids : holder[p] # None => holder[p] <= started
  /\ \A p \in Pids : holder[p] = None => work[p] = 0
  /\ \A p, q \in Pids : holder[p] # None /\ holder[p] = holder[q] => p = q
  /\ \A n \in Starts : n > started => seen[n] = 0

\* The table and the items are of the same processes, each under one PID.
TableInv ==
  /\ table = None => items = NoItems
  /\ table # None => \A p \in Pids : items[p] = None <=> table[p] = None
  /\ \A p, q \in Pids :
       items[p] # None /\ items[q] # None /\ items[p].start = items[q].start => p = q

\* What an item of the snapshot says of a process that still runs.
ItemsInv ==
  \A p \in Pids : items[p] # None =>
    /\ items[p].start <= started
    /\ \A q \in Pids : holder[q] = items[p].start => q = p
    /\ items[p].start = holder[p] =>
         /\ items[p].details \in {None, Fallback, holder[p]}
         /\ table[p].time <= work[p]

\* What the cache says of a process that still runs.
CacheInv ==
  \A p \in Pids : cache[p] # None =>
    /\ cache[p].start <= started
    /\ cache[p].start = holder[p] => cache[p].details \in {Fallback, holder[p]}

\* What a running process had used at the table before is what the times of that table
\* say of its PID.
SeenInv ==
  \A p \in Pids : holder[p] # None =>
    /\ seen[holder[p]] <= work[p]
    /\ seen[holder[p]] # 0 => previous[p] = seen[holder[p]]

SnapshotInv ==
  /\ SnapshotTypeOK /\ HolderInv /\ TableInv /\ ItemsInv /\ CacheInv /\ SeenInv
  /\ ChargedOnce

-----------------------------------------------------------------------------
(* The snapshot                                                            *)

\* None is none of the values it stands in for.
LEMMA NoneDistinct ==
  /\ None \notin Items /\ None \notin Times
  /\ None \notin [start : Starts, details : Details]
  /\ None \notin [Pids -> Times \cup {None}]
  /\ None \notin Nat /\ Fallback \notin Nat /\ None # Fallback
<1>1. Starts \subseteq Nat /\ 0..MaxWork \subseteq Nat
  BY SnapshotAssumption DEF Starts
<1>2. Items \subseteq [start : Nat, details : Nat \cup {Fallback, None}]
  BY <1>1 DEF Items, Details
<1>3. [start : Starts, details : Details] \subseteq
        [start : Nat, details : Nat \cup {Fallback, None}]
  BY <1>1 DEF Details
<1>4. Times \subseteq [time : Nat, charge : Nat]
  BY <1>1 DEF Times
<1>5. [Pids -> Times \cup {None}] \subseteq
        [Pids -> [time : Nat, charge : Nat] \cup {None}]
  BY <1>4
<1>6. QED
  BY <1>2, <1>3, <1>4, <1>5, SnapshotAssumption

\* A start time, or its lack, tells a process from any other.
LEMMA StartTimeFacts ==
  ASSUME NEW n \in Starts
  PROVE  /\ StartTime(n) = None <=> n \in Untimed
         /\ \A m \in Starts : StartTime(m) = StartTime(n) => m = n
<1>1. \A m \in Starts : m # None
  BY NoneDistinct, SnapshotAssumption DEF Starts
<1>2. \A m \in Starts : StartTime(m) = None <=> m \in Untimed
  BY <1>1 DEF StartTime
<1>3. ASSUME NEW m \in Starts, StartTime(m) = StartTime(n) PROVE m = n
  <2>1. CASE n \in Untimed
    BY <1>2, <1>3, <2>1, SnapshotAssumption
  <2>2. CASE n \notin Untimed
    BY <1>2, <1>3, <2>2 DEF StartTime
  <2>3. QED
    BY <2>1, <2>2
<1>4. QED
  BY <1>2, <1>3

SnapshotNext ==
  \/ \E p \in Pids : Start(p) \/ Work(p) \/ Exit(p) \/ EnrichProcessDetails(p)
  \/ QueryTable
  \/ Finish

\* Every step of the window is a step of the machine or of GetSnapshot or leaves both
\* alone.
LEMMA ViewIsSnapshotStep == [Next]_vars => [SnapshotNext]_<<kernelVars, snapshotVars>>
<1> SUFFICES ASSUME [Next]_vars
             PROVE  SnapshotNext \/ UNCHANGED <<kernelVars, snapshotVars>>
  OBVIOUS
<1>1. CASE \/ \E p \in Pids : Start(p) /\ UNCHANGED viewVars
           \/ \E p \in Pids : Work(p) /\ UNCHANGED viewVars
           \/ \E p \in Pids : Exit(p) /\ UNCHANGED viewVars
           \/ BeginRefresh
           \/ \E p \in Pids : Enrich(p)
           \/ FinishRefresh
  BY <1>1 DEF SnapshotNext, BeginRefresh, Enrich, FinishRefresh
<1>2. CASE \/ FailedRefresh
           \/ \E R \in SUBSET (1..rows) : SelectRows(R)
           \/ \E p \in nodes : SelectNode(p)
           \/ \E f \in Filters : ChangeCondition(f) \/ TypeSearch(f)
           \/ SearchTimer
           \/ OpenColumnSelectorDialog
           \/ ToggleTree
           \/ OnTabChanged
  BY <1>2 DEF FailedRefresh, SelectRows, SelectNode, ChangeCondition, TypeSearch,
              SearchTimer, OpenColumnSelectorDialog, ToggleTree, OnTabChanged, Still
<1>3. CASE UNCHANGED vars
  BY <1>3 DEF vars
<1>4. QED
  BY <1>1, <1>2, <1>3 DEF Next

LEMMA SnapshotInitInv == SnapshotInit => SnapshotInv
<1> SUFFICES ASSUME SnapshotInit PROVE SnapshotInv
  OBVIOUS
<1>1. \A p \in Pids : items[p] = None /\ cache[p] = None /\ holder[p] = None /\ work[p] = 0
  BY DEF SnapshotInit, NoItems
<1>2. SnapshotTypeOK
  BY SnapshotAssumption DEF SnapshotInit, SnapshotTypeOK, NoItems
<1>3. HolderInv
  BY <1>1 DEF SnapshotInit, HolderInv
<1>4. TableInv /\ ItemsInv /\ CacheInv /\ SeenInv /\ ChargedOnce
  BY <1>1 DEF TableInv, ItemsInv, CacheInv, SeenInv, ChargedOnce, SnapshotInit
<1>5. QED
  BY <1>2, <1>3, <1>4 DEF SnapshotInv

\* A process starts: its start time is new to everybody.
LEMMA StartStep ==
  ASSUME SnapshotInv, NEW p \in Pids, Start(p)
  PROVE  SnapshotInv'
<1> DEFINE n == started + 1
<1>1. /\ holder' = [holder EXCEPT ![p] = n] /\ started' = n
      /\ holder[p] = None /\ started < MaxStart
      /\ UNCHANGED <<work, previous, cache, table, items, seen>>
  BY DEF Start, snapshotVars
<1>2. /\ n \in Starts /\ started \in Nat /\ Starts \subseteq Nat
      /\ holder \in [Pids -> Starts \cup {None}]
      /\ \A q \in Pids : holder'[q] = IF q = p THEN n ELSE holder[q]
  BY <1>1, SnapshotAssumption DEF SnapshotInv, SnapshotTypeOK, Starts
<1> HIDE DEF n
<1>3. n = started + 1 /\ n > started
  BY <1>2 DEF n
<1>4. SnapshotTypeOK'
  <2>1. holder' \in [Pids -> Starts \cup {None}]
    BY <1>1, <1>2
  <2>2. started' \in 0..MaxStart
    BY <1>1, <1>2 DEF Starts
  <2>3. QED
    BY <1>1, <2>1, <2>2 DEF SnapshotInv, SnapshotTypeOK
<1>5. HolderInv'
  <2>1. \A q \in Pids : holder[q] # n
    BY <1>2, <1>3, NoneDistinct DEF SnapshotInv, HolderInv
  <2>2. \A q \in Pids : holder'[q] # None => holder'[q] <= started'
    BY <1>1, <1>2, <1>3, NoneDistinct DEF SnapshotInv, HolderInv
  <2>3. \A q \in Pids : holder'[q] = None => work'[q] = 0
    BY <1>1, <1>2, NoneDistinct DEF SnapshotInv, HolderInv
  <2>4. \A q, r \in Pids : holder'[q] # None /\ holder'[q] = holder'[r] => q = r
    BY <1>2, <2>1 DEF SnapshotInv, HolderInv
  <2>5. \A m \in Starts : m > started' => seen'[m] = 0
    BY <1>1, <1>2, <1>3 DEF SnapshotInv, HolderInv
  <2>6. QED
    BY <2>2, <2>3, <2>4, <2>5 DEF HolderInv
<1>6. TableInv'
  BY <1>1 DEF SnapshotInv, TableInv, NoItems
<1>7. ItemsInv'
  <2> SUFFICES ASSUME NEW q \in Pids, items[q] # None
               PROVE  /\ items[q].start <= n
                      /\ \A r \in Pids : holder'[r] = items[q].start => r = q
                      /\ items[q].start = holder'[q] =>
                           /\ items[q].details \in {None, Fallback, holder'[q]}
                           /\ table[q].time <= work[q]
    BY <1>1 DEF ItemsInv
  <2>1. items[q].start \in Nat /\ items[q].start <= started
    BY <1>2 DEF SnapshotInv, SnapshotTypeOK, Items, ItemsInv
  <2>2. items[q].start # n /\ items[q].start <= n
    BY <1>2, <1>3, <2>1
  <2>3. QED
    BY <1>2, <2>2 DEF SnapshotInv, ItemsInv
<1>8. CacheInv'
  <2> SUFFICES ASSUME NEW q \in Pids, cache[q] # None
               PROVE  /\ cache[q].start <= n
                      /\ cache[q].start = holder'[q] =>
                           cache[q].details \in {Fallback, holder'[q]}
    BY <1>1 DEF CacheInv
  <2>1. cache[q].start \in Nat /\ cache[q].start <= started
    BY <1>2 DEF SnapshotInv, SnapshotTypeOK, CacheInv
  <2>2. cache[q].start # n /\ cache[q].start <= n
    BY <1>2, <1>3, <2>1
  <2>3. QED
    BY <1>2, <2>2 DEF SnapshotInv, CacheInv
<1>9. SeenInv'
  <2>1. seen[n] = 0 /\ work[p] \in Nat
    BY <1>2, <1>3, SnapshotAssumption DEF SnapshotInv, HolderInv, SnapshotTypeOK
  <2>2. QED
    BY <1>1, <1>2, <2>1 DEF SnapshotInv, SeenInv
<1>10. ChargedOnce'
  BY <1>1 DEF SnapshotInv, ChargedOnce
<1>11. QED
  BY <1>4, <1>5, <1>6, <1>7, <1>8, <1>9, <1>10 DEF SnapshotInv

LEMMA WorkStep ==
  ASSUME SnapshotInv, NEW p \in Pids, Work(p)
  PROVE  SnapshotInv'
<1>1. /\ work' = [work EXCEPT ![p] = @ + 1]
      /\ holder[p] # None /\ work[p] < MaxWork
      /\ UNCHANGED <<holder, started, previous, cache, table, items, seen>>
  BY DEF Work, snapshotVars
<1>2. /\ work \in [Pids -> 0..MaxWork] /\ work' \in [Pids -> 0..MaxWork]
      /\ \A q \in Pids : work[q] <= work'[q] /\ (q # p => work'[q] = work[q])
  BY <1>1, SnapshotAssumption DEF SnapshotInv, SnapshotTypeOK
<1>3. SnapshotTypeOK'
  BY <1>1, <1>2 DEF SnapshotInv, SnapshotTypeOK
<1>4. HolderInv'
  BY <1>1, <1>2 DEF SnapshotInv, HolderInv
<1>5. TableInv' /\ CacheInv' /\ ChargedOnce'
  BY <1>1 DEF SnapshotInv, TableInv, CacheInv, ChargedOnce, NoItems
<1>6. ItemsInv'
  <2> SUFFICES ASSUME NEW q \in Pids, items[q] # None, items[q].start = holder[q]
               PROVE  table[q].time <= work'[q]
    BY <1>1 DEF SnapshotInv, ItemsInv
  <2>1. table # None /\ table[q] # None
    BY DEF SnapshotInv, TableInv, NoItems
  <2>2. table[q] \in Times
    BY <2>1 DEF SnapshotInv, SnapshotTypeOK
  <2>3. table[q].time \in Nat /\ table[q].time <= work[q]
    BY <2>2, SnapshotAssumption DEF Times, SnapshotInv, ItemsInv
  <2>4. QED
    BY <1>2, <2>3, SnapshotAssumption
<1>7. SeenInv'
  <2> SUFFICES ASSUME NEW q \in Pids, holder[q] # None
               PROVE  seen[holder[q]] <= work'[q]
    BY <1>1 DEF SnapshotInv, SeenInv
  <2>1. seen[holder[q]] \in 0..MaxWork /\ seen[holder[q]] <= work[q]
    BY DEF SnapshotInv, SnapshotTypeOK, SeenInv
  <2>2. QED
    BY <1>2, <2>1, SnapshotAssumption
<1>8. QED
  BY <1>3, <1>4, <1>5, <1>6, <1>7 DEF SnapshotInv

LEMMA ExitStep ==
  ASSUME SnapshotInv, NEW p \in Pids, Exit(p)
  PROVE  SnapshotInv'
<1>1. /\ holder' = [holder EXCEPT ![p] = None] /\ work' = [work EXCEPT ![p] = 0]
      /\ UNCHANGED <<started, previous, cache, table, items, seen>>
  BY DEF Exit, snapshotVars
<1>2. /\ holder \in [Pids -> Starts \cup {None}] /\ work \in [Pids -> 0..MaxWork]
      /\ holder' \in [Pids -> Starts \cup {None}] /\ work' \in [Pids -> 0..MaxWork]
      /\ holder'[p] = None /\ work'[p] = 0
      /\ \A q \in Pids : q # p => holder'[q] = holder[q] /\ work'[q] = work[q]
  BY <1>1, SnapshotAssumption DEF SnapshotInv, SnapshotTypeOK
<1>3. SnapshotTypeOK'
  BY <1>1, <1>2 DEF SnapshotInv, SnapshotTypeOK
<1>4. HolderInv'
  BY <1>1, <1>2 DEF SnapshotInv, HolderInv
<1>5. TableInv' /\ ChargedOnce'
  BY <1>1 DEF SnapshotInv, TableInv, ChargedOnce, NoItems
<1>6. \A q \in Pids : /\ items[q] # None => items[q].start # None
                      /\ cache[q] # None => cache[q].start # None
  BY NoneDistinct, SnapshotAssumption DEF SnapshotInv, SnapshotTypeOK, Items, Starts
<1>7. ItemsInv'
  BY <1>1, <1>2, <1>6 DEF SnapshotInv, ItemsInv
<1>8. CacheInv'
  BY <1>1, <1>2, <1>6 DEF SnapshotInv, CacheInv
<1>9. SeenInv'
  BY <1>1, <1>2 DEF SnapshotInv, SeenInv
<1>10. QED
  BY <1>3, <1>4, <1>5, <1>7, <1>8, <1>9 DEF SnapshotInv

\* NtQuerySystemInformation: what is charged is what has come on top of what was seen.
LEMMA QueryStep ==
  ASSUME SnapshotInv, QueryTable
  PROVE  SnapshotInv'
<1>1. /\ table' = [p \in Pids |-> IF holder[p] = None THEN None
                                  ELSE [time |-> work[p], charge |-> Charge(p, work[p])]]
      /\ items' = [p \in Pids |-> IF holder[p] = None THEN None
                                  ELSE [start |-> holder[p], details |-> None]]
      /\ UNCHANGED <<holder, started, work, previous, cache, seen>>
  BY DEF QueryTable, kernelVars
<1>2. /\ holder \in [Pids -> Starts \cup {None}] /\ work \in [Pids -> 0..MaxWork]
      /\ previous \in [Pids -> 0..MaxWork \cup {None}] /\ seen \in [Starts -> 0..MaxWork]
  BY DEF SnapshotInv, SnapshotTypeOK
<1>3. ASSUME NEW p \in Pids, holder[p] # None
      PROVE  /\ Charge(p, work[p]) \in 0..MaxWork
             /\ Charge(p, work[p]) <= work[p] - seen[holder[p]]
  <2>1. work[p] \in 0..MaxWork /\ seen[holder[p]] \in 0..MaxWork
    BY <1>2, <1>3
  <2>2. seen[holder[p]] <= work[p] /\ (seen[holder[p]] # 0 => previous[p] = seen[holder[p]])
    BY <1>3 DEF SnapshotInv, SeenInv
  <2>3. CASE previous[p] = None \/ work[p] <= previous[p]
    BY <2>1, <2>2, <2>3, SnapshotAssumption DEF Charge
  <2>4. CASE ~(previous[p] = None \/ work[p] <= previous[p])
    <3>1. previous[p] \in 0..MaxWork
      BY <1>2, <2>4
    <3>2. Charge(p, work[p]) = work[p] - previous[p]
      BY <2>4 DEF Charge
    <3>3. QED
      BY <2>1, <2>2, <2>4, <3>1, <3>2, SnapshotAssumption
  <2>5. QED
    BY <2>3, <2>4
<1>4. ASSUME NEW p \in Pids
      PROVE  /\ holder[p] = None => table'[p] = None /\ items'[p] = None
             /\ holder[p] # None =>
                  /\ table'[p] = [time |-> work[p], charge |-> Charge(p, work[p])]
                  /\ items'[p] = [start |-> holder[p], details |-> None]
                  /\ table'[p] \in Times /\ items'[p] \in Items
                  /\ table'[p] # None /\ items'[p] # None
  <2>1. CASE holder[p] = None
    BY <1>1, <2>1
  <2>2. CASE holder[p] # None
    <3>1. /\ table'[p] = [time |-> work[p], charge |-> Charge(p, work[p])]
          /\ items'[p] = [start |-> holder[p], details |-> None]
      BY <1>1, <2>2
    <3>2. table'[p] \in Times
      BY <1>2, <1>3, <2>2, <3>1 DEF Times
    <3>3. items'[p] \in Items
      BY <1>2, <2>2, <3>1 DEF Items
    <3>4. QED
      BY <2>2, <3>1, <3>2, <3>3, NoneDistinct
  <2>3. QED
    BY <2>1, <2>2
<1>5. table' \in [Pids -> Times \cup {None}] /\ items' \in [Pids -> Items \cup {None}]
  <2>1. \A p \in Pids : table'[p] \in Times \cup {None} /\ items'[p] \in Items \cup {None}
    BY <1>4
  <2>2. table' = [p \in Pids |-> table'[p]] /\ items' = [p \in Pids |-> items'[p]]
    BY <1>1
  <2>3. QED
    BY <2>1, <2>2
<1>6. table' # None
  BY <1>5, NoneDistinct
<1>7. SnapshotTypeOK'
  BY <1>1, <1>5 DEF SnapshotInv, SnapshotTypeOK
<1>8. HolderInv' /\ SeenInv'
  BY <1>1 DEF SnapshotInv, HolderInv, SeenInv
<1>9. CacheInv'
  BY <1>1 DEF SnapshotInv, CacheInv
<1>10. TableInv'
  <2>1. \A p \in Pids : items'[p] = None <=> table'[p] = None
    BY <1>4
  <2>2. ASSUME NEW p \in Pids, items'[p] # None
        PROVE  holder[p] # None /\ items'[p].start = holder[p]
    <3>1. holder[p] # None
      BY <1>4, <2>2
    <3>2. items'[p] = [start |-> holder[p], details |-> None]
      BY <1>4, <3>1
    <3>3. QED
      BY <3>1, <3>2
  <2>3. QED
    BY <1>6, <2>1, <2>2 DEF SnapshotInv, HolderInv, TableInv
<1>11. ItemsInv'
  <2> SUFFICES ASSUME NEW p \in Pids, items'[p] # None
               PROVE  /\ items'[p].start <= started
                      /\ \A q \in Pids : holder[q] = items'[p].start => q = p
                      /\ items'[p].details = None
                      /\ table'[p].time <= work[p]
    BY <1>1 DEF ItemsInv
  <2>1. /\ holder[p] # None /\ items'[p].start = holder[p]
        /\ items'[p].details = None /\ table'[p].time = work[p]
    <3>1. holder[p] # None
      BY <1>4
    <3>2. /\ table'[p] = [time |-> work[p], charge |-> Charge(p, work[p])]
          /\ items'[p] = [start |-> holder[p], details |-> None]
      BY <1>4, <3>1
    <3>3. QED
      BY <3>1, <3>2
  <2>2. QED
    BY <1>2, <2>1, SnapshotAssumption DEF SnapshotInv, HolderInv
<1>12. ChargedOnce'
  BY <1>1, <1>3, <1>4 DEF ChargedOnce
<1>13. QED
  BY <1>7, <1>8, <1>9, <1>10, <1>11, <1>12 DEF SnapshotInv

\* EnrichProcessDetails: the details are the cached ones of the same process, or those of
\* whoever holds the PID now.
LEMMA EnrichStep ==
  ASSUME SnapshotInv, NEW p \in Pids, EnrichProcessDetails(p)
  PROVE  SnapshotInv'
<1>1. PICK d \in IF Cached(p) THEN {cache[p].details} ELSE Asked(p) :
        /\ items' = [items EXCEPT ![p].details = d]
        /\ cache' = [cache EXCEPT ![p] = [start |-> items[p].start, details |-> d]]
  BY DEF EnrichProcessDetails
<1>2. /\ table # None /\ items[p] # None
      /\ UNCHANGED <<holder, started, work, previous, table, seen>>
  BY DEF EnrichProcessDetails, Bare, kernelVars
<1>3. /\ items \in [Pids -> Items \cup {None}] /\ items[p] \in Items
      /\ cache \in [Pids -> [start : Starts, details : Details] \cup {None}]
      /\ holder \in [Pids -> Starts \cup {None}]
  BY <1>2 DEF SnapshotInv, SnapshotTypeOK
<1>4. d \in Details
  BY <1>1, <1>3 DEF Cached, Asked, Details
<1>5. items[p].start = holder[p] => d \in {Fallback, holder[p]}
  <2>1. CASE Cached(p)
    <3>1. cache[p] # None /\ StartTime(cache[p].start) = StartTime(items[p].start)
      BY <2>1 DEF Cached
    <3>2. cache[p].start \in Starts /\ items[p].start \in Starts
      BY <1>3, <3>1 DEF Items
    <3>3. cache[p].start = items[p].start
      BY <3>1, <3>2, StartTimeFacts
    <3>4. d = cache[p].details
      BY <1>1, <2>1
    <3>5. QED
      BY <3>1, <3>3, <3>4 DEF SnapshotInv, CacheInv
  <2>2. CASE ~Cached(p)
    BY <1>1, <2>2 DEF Asked
  <2>3. QED
    BY <2>1, <2>2
<1>6. items'[p].start = items[p].start /\ items'[p].details = d /\ items'[p] \in Items
  BY <1>1, <1>3, <1>4 DEF Items
<1>7. \A q \in Pids : /\ q # p => items'[q] = items[q]
                      /\ items'[q] = None <=> items[q] = None
                      /\ items'[q] # None => items'[q].start = items[q].start
  BY <1>1, <1>2, <1>3, <1>6, NoneDistinct
<1>8. SnapshotTypeOK'
  <2>1. items' \in [Pids -> Items \cup {None}]
    BY <1>1, <1>3, <1>6
  <2>2. [start |-> items[p].start, details |-> d] \in [start : Starts, details : Details]
    BY <1>3, <1>4 DEF Items
  <2>3. cache' \in [Pids -> [start : Starts, details : Details] \cup {None}]
    BY <1>1, <1>3, <2>2
  <2>4. QED
    BY <1>2, <2>1, <2>3 DEF SnapshotInv, SnapshotTypeOK
<1>9. HolderInv' /\ SeenInv'
  BY <1>2 DEF SnapshotInv, HolderInv, SeenInv
<1>10. TableInv'
  BY <1>2, <1>7 DEF SnapshotInv, TableInv
<1>11. ItemsInv'
  BY <1>2, <1>5, <1>6, <1>7 DEF SnapshotInv, ItemsInv
<1>12. CacheInv'
  <2>1. items[p].start <= started
    BY <1>2 DEF SnapshotInv, ItemsInv
  <2>2. \A q \in Pids : cache'[q] = IF q = p THEN [start |-> items[p].start, details |-> d]
                                    ELSE cache[q]
    BY <1>1, <1>3
  <2>3. QED
    BY <1>2, <1>5, <2>1, <2>2 DEF SnapshotInv, CacheInv
<1>13. ChargedOnce'
  BY <1>2, <1>7 DEF SnapshotInv, ChargedOnce
<1>14. QED
  BY <1>8, <1>9, <1>10, <1>11, <1>12, <1>13 DEF SnapshotInv

\* The end of GetSnapshot: the times of the table become those to charge from.
LEMMA FinishStep ==
  ASSUME SnapshotInv, Finish
  PROVE  SnapshotInv'
<1>1. /\ table # None /\ Bare = {} /\ table' = None /\ items' = NoItems
      /\ previous' = CurrentTimes
      /\ cache' = [p \in Pids |-> IF items[p] = None THEN None ELSE cache[p]]
      /\ seen' = [n \in Starts |->
           IF \E p \in Pids : Lists(p, n) THEN table[CHOOSE p \in Pids : Lists(p, n)].time
           ELSE 0]
      /\ UNCHANGED <<holder, started, work>>
  BY DEF Finish, kernelVars
<1>2. /\ holder \in [Pids -> Starts \cup {None}] /\ work \in [Pids -> 0..MaxWork]
      /\ items \in [Pids -> Items \cup {None}] /\ table \in [Pids -> Times \cup {None}]
      /\ cache \in [Pids -> [start : Starts, details : Details] \cup {None}]
  BY <1>1 DEF SnapshotInv, SnapshotTypeOK
<1>3. ASSUME NEW p \in Pids, items[p] # None
      PROVE  table[p] \in Times /\ table[p].time \in 0..MaxWork
  BY <1>1, <1>2, <1>3 DEF SnapshotInv, TableInv, Times
<1>4. ASSUME NEW n \in Starts
      PROVE  /\ (\A p \in Pids : ~Lists(p, n)) => seen'[n] = 0
             /\ \A p \in Pids : Lists(p, n) => seen'[n] = table[p].time
  <2>1. \A p, q \in Pids : Lists(p, n) /\ Lists(q, n) => p = q
    BY DEF Lists, SnapshotInv, TableInv
  <2>2. QED
    BY <1>1, <2>1
<1>5. /\ \A p \in Pids : items'[p] = None
      /\ previous' \in [Pids -> 0..MaxWork \cup {None}]
      /\ \A p \in Pids : items[p] # None => previous'[p] = table[p].time
  BY <1>1, <1>3 DEF NoItems, CurrentTimes
<1>6. SnapshotTypeOK'
  <2>1. seen' \in [Starts -> 0..MaxWork]
    <3>1. \A n \in Starts : seen'[n] \in 0..MaxWork
      BY <1>3, <1>4, SnapshotAssumption DEF Lists
    <3>2. QED
      BY <1>1, <3>1
  <2>2. cache' \in [Pids -> [start : Starts, details : Details] \cup {None}]
    BY <1>1, <1>2
  <2>3. items' \in [Pids -> Items \cup {None}]
    BY <1>1 DEF NoItems
  <2>4. QED
    BY <1>1, <1>5, <2>1, <2>2, <2>3 DEF SnapshotInv, SnapshotTypeOK
<1>7. HolderInv'
  <2>1. \A n \in Starts : n > started => \A p \in Pids : ~Lists(p, n)
    <3> SUFFICES ASSUME NEW n \in Starts, n > started, NEW p \in Pids, Lists(p, n)
                 PROVE  FALSE
      OBVIOUS
    <3>1. n <= started
      BY DEF Lists, SnapshotInv, ItemsInv
    <3>2. n \in Nat /\ started \in Nat
      BY SnapshotAssumption DEF Starts, SnapshotInv, SnapshotTypeOK
    <3>3. QED
      BY <3>1, <3>2
  <2>2. QED
    BY <1>1, <1>4, <2>1 DEF SnapshotInv, HolderInv
<1>8. TableInv' /\ ItemsInv' /\ ChargedOnce'
  BY <1>1, <1>5 DEF TableInv, ItemsInv, ChargedOnce
<1>9. CacheInv'
  BY <1>1 DEF SnapshotInv, CacheInv
<1>10. SeenInv'
  <2> SUFFICES ASSUME NEW p \in Pids, holder[p] # None
               PROVE  /\ seen'[holder[p]] <= work[p]
                      /\ seen'[holder[p]] # 0 => previous'[p] = seen'[holder[p]]
    BY <1>1 DEF SeenInv
  <2>1. holder[p] \in Starts /\ work[p] \in 0..MaxWork
    BY <1>2
  <2>2. CASE Lists(p, holder[p])
    <3>1. items[p] # None /\ items[p].start = holder[p]
      BY <2>2 DEF Lists
    <3>2. seen'[holder[p]] = table[p].time /\ previous'[p] = table[p].time
      BY <1>4, <1>5, <2>1, <2>2, <3>1
    <3>3. table[p].time <= work[p]
      BY <3>1 DEF SnapshotInv, ItemsInv
    <3>4. QED
      BY <3>2, <3>3
  <2>3. CASE ~Lists(p, holder[p])
    <3>1. \A q \in Pids : ~Lists(q, holder[p])
      BY <2>3 DEF Lists, SnapshotInv, ItemsInv
    <3>2. seen'[holder[p]] = 0
      BY <1>4, <2>1, <3>1
    <3>3. QED
      BY <2>1, <3>2, SnapshotAssumption
  <2>4. QED
    BY <2>2, <2>3
<1>11. QED
  BY <1>6, <1>7, <1>8, <1>9, <1>10 DEF SnapshotInv

LEMMA SnapshotUnchanged ==
  ASSUME SnapshotInv, UNCHANGED <<kernelVars, snapshotVars>>
  PROVE  SnapshotInv'
<1>1. UNCHANGED <<holder, started, work, previous, cache, table, items, seen>>
  BY DEF kernelVars, snapshotVars
<1>2. SnapshotTypeOK' /\ HolderInv' /\ TableInv'
  BY <1>1 DEF SnapshotInv, SnapshotTypeOK, HolderInv, TableInv, NoItems
<1>3. ItemsInv' /\ CacheInv' /\ SeenInv' /\ ChargedOnce'
  BY <1>1 DEF SnapshotInv, ItemsInv, CacheInv, SeenInv, ChargedOnce
<1>4. QED
  BY <1>2, <1>3 DEF SnapshotInv

LEMMA SnapshotStep == SnapshotInv /\ [Next]_vars => SnapshotInv'
<1> SUFFICES ASSUME SnapshotInv, [Next]_vars PROVE SnapshotInv'
  OBVIOUS
<1>1. SnapshotNext \/ UNCHANGED <<kernelVars, snapshotVars>>
  BY ViewIsSnapshotStep
<1>2. QED
  BY <1>1, StartStep, WorkStep, ExitStep, QueryStep, EnrichStep, FinishStep,
     SnapshotUnchanged
    DEF SnapshotNext

\* No process is charged with the CPU time of an earlier one with its PID, nor twice
\* with its own: never more than it used since the table before, if maybe less
\* (GetSnapshot, previous_times_).
THEOREM NeverChargedTwice == Spec => []ChargedOnce
<1>1. Init => SnapshotInv
  BY SnapshotInitInv DEF Init
<1>2. SnapshotInv => ChargedOnce
  BY DEF SnapshotInv
<1>3. QED
  BY <1>1, <1>2, SnapshotStep, PTL DEF Spec

-----------------------------------------------------------------------------
(* The invariant of the view                                               *)

\* The list on display: an order of the PIDs that the condition and the search let
\* through, the latter once its timer has run.
FilteredInv ==
  /\ filtered \in Seq(Pids)
  /\ display = Passing(all, condition)
  /\ tab = "processes" /\ ~debounce => Range(filtered) = display \cap Passing(all, search)

\* A control that counts as current shows the items of the list.
ControlsInv ==
  /\ listCurrent => rows = Len(filtered)
  /\ TreeOwned

\* What was on screen when its process started is of an earlier one.
AllInv == DetailsOfLiving /\ \A p \in Pids : all[p] # None => all[p].start <= started

IInv == TypeOK /\ SnapshotInv /\ FilteredInv /\ ControlsInv /\ AllInv
-----------------------------------------------------------------------------
(* The view                                                                *)

\* An order of a set of PIDs lists each of them, once.
LEMMA OrdersAreOrders ==
  ASSUME NEW S, S \subseteq Pids, NEW order \in Orders(S)
  PROVE  /\ order \in Seq(Pids) /\ Range(order) = S /\ IsInjective(order)
         /\ DOMAIN order = 1..Len(order)
<1> DEFINE D == 1..Cardinality(S)
<1>1. IsFiniteSet(S)
  BY FS_Subset, SnapshotAssumption
<1>2. Cardinality(S) \in Nat
  BY <1>1, FS_CardinalityType
<1>3. order \in [D -> S] /\ \A i, j \in D : i # j => order[i] # order[j]
  BY DEF Orders, SetToSeqs
<1>4. order \in Injection(D, S)
  BY <1>3 DEF Injection, IsInjective
<1>5. IsFiniteSet(D) /\ Cardinality(D) = Cardinality(S)
  BY <1>2, FS_Interval
<1>6. order \in Surjection(D, S)
  BY <1>1, <1>4, <1>5, FS_Injection
<1>7. Range(order) = S
  BY <1>3, <1>6 DEF Range, Surjection
<1>8. order \in Seq(Pids)
  BY <1>2, <1>3
<1>9. DOMAIN order = 1..Len(order)
  BY <1>8
<1>10. QED
  BY <1>3, <1>7, <1>8, <1>9 DEF IsInjective

LEMMA IdentityFacts ==
  ASSUME NEW from \in [Pids -> Items \cup {None}], NEW p \in Pids, from[p] # None
  PROVE  /\ Process(from, p) \in Identities /\ Process(from, p) # None
         /\ Process(from, p).pid = p /\ Process(from, p).start = from[p].start
         /\ Identity(from, p) = IF from[p].start \in Untimed THEN None
                                ELSE Process(from, p)
<1>1. from[p].start \in Starts
  BY DEF Items
<1>2. Identities \subseteq [pid : Pids, start : Nat]
  BY SnapshotAssumption DEF Identities, Starts
<1>3. Process(from, p) \in Identities
  BY <1>1 DEF Process, Identities
<1>4. Process(from, p) # None
  BY <1>2, <1>3, ViewAssumption
<1>5. Process(from, p).pid = p /\ Process(from, p).start = from[p].start
  BY DEF Process
<1>6. Identity(from, p) = IF from[p].start \in Untimed THEN None ELSE Process(from, p)
  BY <1>1, StartTimeFacts DEF Identity
<1>7. QED
  BY <1>3, <1>4, <1>5, <1>6

\* Identities stand for the processes that have a start time.
LEMMA IdentifiedFacts ==
  ASSUME NEW from \in [Pids -> Items \cup {None}],
         NEW S, S \subseteq {p \in Pids : from[p] # None}
  PROVE  /\ Identified(from, S) = Lasting(Processes(from, S))
         /\ Processes(from, S) \subseteq Identities
<1>1. \A p \in S :
        /\ Process(from, p) \in Identities /\ Process(from, p) # None
        /\ Process(from, p).start = from[p].start
        /\ Identity(from, p) = IF from[p].start \in Untimed THEN None
                               ELSE Process(from, p)
  BY IdentityFacts
<1>2. ASSUME NEW x
      PROVE  x \in Identified(from, S) <=>
               \E p \in S : from[p].start \notin Untimed /\ x = Process(from, p)
  BY <1>1 DEF Identified
<1>3. ASSUME NEW x
      PROVE  x \in Lasting(Processes(from, S)) <=>
               \E p \in S : from[p].start \notin Untimed /\ x = Process(from, p)
  BY <1>1 DEF Lasting, Processes
<1>4. Identified(from, S) = Lasting(Processes(from, S))
  BY <1>2, <1>3
<1>5. QED
  BY <1>1, <1>4 DEF Processes

\* What is selected is remembered as identities of items that were on display.
LEMMA CaptureFacts ==
  ASSUME TypeOK, FilteredInv, ControlsInv
  PROVE  /\ CaptureRows(all, filtered) \subseteq Identities
         /\ treeCurrent => CaptureNode(all) \in Identities \cup {None}
         /\ \A i \in DOMAIN filtered : filtered[i] \in Pids /\ all[filtered[i]] # None
         /\ DOMAIN filtered = 1..Len(filtered)
<1>1. /\ all \in [Pids -> Items \cup {None}] /\ Range(filtered) \subseteq display
      /\ display \subseteq {p \in Pids : all[p] # None}
      /\ selected \subseteq 1..rows /\ rows \in Nat /\ node \in nodes \cup {None}
  BY DEF TypeOK
<1>2. DOMAIN filtered = 1..Len(filtered) /\ Len(filtered) \in Nat
  BY DEF FilteredInv
<1>3. \A i \in DOMAIN filtered : filtered[i] \in Pids /\ all[filtered[i]] # None
  BY <1>1 DEF Range
<1>4. {filtered[i] : i \in {j \in selected : j <= Len(filtered)}} \subseteq
        {p \in Pids : all[p] # None}
  BY <1>1, <1>2, <1>3
<1>5. CaptureRows(all, filtered) \subseteq Identities
  BY <1>1, <1>4, IdentifiedFacts DEF CaptureRows, Lasting
<1>6. ASSUME treeCurrent, node # None PROVE Identity(all, node) \in Identities \cup {None}
  <2>1. node \in Pids /\ all[node] # None
    BY <1>1, <1>6 DEF ControlsInv, TreeOwned
  <2>2. QED
    BY <1>1, <2>1, IdentityFacts
<1>7. QED
  BY <1>2, <1>3, <1>5, <1>6 DEF CaptureNode

\* The rows of a list, or the nodes of a tree, that shows an order of S afresh.
LEMMA ShowRowsFacts ==
  ASSUME NEW from, NEW wanted, NEW order \in Seq(Pids), ShowRows(from, order, wanted)
  PROVE  rows' \in Nat /\ selected' \subseteq 1..rows' /\ rows' = Len(order)
BY DEF ShowRows

LEMMA ShowNodesFacts ==
  ASSUME NEW from, NEW wanted, NEW S, S \subseteq Pids, ShowNodes(from, S, wanted)
  PROVE  nodes' \subseteq Pids \cup {Freed} /\ node' \in nodes' \cup {None} /\ nodes' = S
BY DEF ShowNodes

\* What the state is like once the list and the control on screen are brought up to date.
Displayed(passing) ==
  /\ filtered' \in Seq(Pids) /\ Range(filtered') = passing /\ IsInjective(filtered')
  /\ rows' \in Nat /\ selected' \subseteq 1..rows'
  /\ nodes' \subseteq Pids \cup {Freed} /\ node' \in nodes' \cup {None}
  /\ listCurrent' \in BOOLEAN /\ treeCurrent' \in BOOLEAN
  /\ savedList' \subseteq Identities /\ savedTree' \in Identities \cup {None}
  /\ ControlsInv'

LEMMA ApplyFacts ==
  ASSUME TypeOK, FilteredInv, ControlsInv,
         NEW from, NEW shown, NEW newMode \in {"tree", "list"}, NEW fresh,
         ApplyFilterAndDisplay(from, shown, newMode, fresh)
  PROVE  Displayed(shown \cap Passing(from, search))
<1> DEFINE passing == shown \cap Passing(from, search)
<1>1. passing \subseteq Pids
  BY DEF Passing
<1>2. filtered' \in Orders(passing)
  BY DEF ApplyFilterAndDisplay
<1>3. /\ filtered' \in Seq(Pids) /\ Range(filtered') = passing /\ IsInjective(filtered')
  BY <1>1, <1>2, OrdersAreOrders
<1>4. savedList' = IF listCurrent THEN CaptureRows(all, filtered) ELSE savedList
  BY DEF ApplyFilterAndDisplay
<1>5. savedTree' = IF treeCurrent THEN CaptureNode(all) ELSE savedTree
  BY DEF ApplyFilterAndDisplay
<1>6. savedList' \subseteq Identities /\ savedTree' \in Identities \cup {None}
  BY <1>4, <1>5, CaptureFacts DEF TypeOK
<1>7. MarkCurrent(newMode)
  BY DEF ApplyFilterAndDisplay
<1>8. CASE newMode = "tree"
  <2>1. ShowNodes(from, passing, savedTree') /\ UNCHANGED <<rows, selected>>
    BY <1>8 DEF ApplyFilterAndDisplay
  <2>2. /\ nodes' \subseteq Pids \cup {Freed} /\ node' \in nodes' \cup {None}
        /\ nodes' = passing
    BY <1>1, <2>1, ShowNodesFacts
  <2>3. rows' \in Nat /\ selected' \subseteq 1..rows'
    BY <2>1 DEF TypeOK
  <2>4. listCurrent' = FALSE /\ treeCurrent' = TRUE
    BY <1>7, <1>8 DEF MarkCurrent
  <2>5. QED
    BY <1>3, <1>6, <2>2, <2>3, <2>4 DEF Displayed, ControlsInv, TreeOwned
<1>9. CASE newMode = "list"
  <2>1. /\ ShowRows(from, filtered', savedList')
        /\ nodes' = IF fresh /\ nodes # {} THEN {Freed} ELSE nodes
        /\ node' = IF fresh /\ node # None THEN Freed ELSE node
    BY <1>9 DEF ApplyFilterAndDisplay
  <2>2. rows' \in Nat /\ selected' \subseteq 1..rows' /\ rows' = Len(filtered')
    BY <1>3, <2>1, ShowRowsFacts
  <2>3. nodes' \subseteq Pids \cup {Freed} /\ node' \in nodes' \cup {None}
    BY <2>1 DEF TypeOK
  <2>4. listCurrent' = TRUE /\ treeCurrent' = FALSE
    BY <1>7, <1>9 DEF MarkCurrent
  <2>5. QED
    BY <1>3, <1>6, <2>2, <2>3, <2>4 DEF Displayed, ControlsInv, TreeOwned
<1>10. QED
  BY <1>8, <1>9

LEMMA DisplayedSuffices ==
  ASSUME SnapshotTypeOK', all' \in [Pids -> Items \cup {None}],
         display' = Passing(all', condition'),
         Displayed(display' \cap Passing(all', search')),
         tab' \in {"processes", "services"}, mode' \in {"list", "tree"},
         condition' \in Filters, search' \in Filters, debounce' \in BOOLEAN
  PROVE  TypeOK' /\ FilteredInv' /\ ControlsInv'
<1>1. display' \subseteq {p \in Pids : all'[p] # None}
  BY DEF Passing
<1>2. Range(filtered') \subseteq display'
  BY DEF Displayed
<1>3. TypeOK'
  BY <1>1, <1>2 DEF Displayed, TypeOK
<1>4. FilteredInv'
  BY DEF Displayed, FilteredInv, Passing
<1>5. QED
  BY <1>3, <1>4 DEF Displayed

LEMMA ViewUnchanged ==
  ASSUME TypeOK, FilteredInv, ControlsInv, SnapshotTypeOK', UNCHANGED viewVars
  PROVE  TypeOK' /\ FilteredInv' /\ ControlsInv'
<1>1. UNCHANGED <<all, display, filtered, tab, mode, condition, search, debounce, rows,
                  selected, listCurrent, savedList, nodes, node, treeCurrent, savedTree>>
  BY DEF viewVars, filterVars, listVars, treeVars
<1>2. TypeOK'
  BY <1>1 DEF TypeOK
<1>3. FilteredInv' /\ ControlsInv'
  BY <1>1 DEF FilteredInv, ControlsInv, TreeOwned, Passing
<1>4. QED
  BY <1>2, <1>3

\* RefreshData: new items replace the old ones.
LEMMA ReplaceStep ==
  ASSUME TypeOK, FilteredInv, ControlsInv, SnapshotTypeOK',
         NEW new \in [Pids -> Items \cup {None}], Replace(new)
  PROVE  TypeOK' /\ FilteredInv' /\ ControlsInv'
<1>1. /\ all' = new /\ display' = Passing(new, condition)
      /\ ApplyFilterAndDisplay(new, display', mode, TRUE)
      /\ UNCHANGED <<tab, mode, condition, search, debounce>>
  BY DEF Replace, filterVars
<1>2. mode \in {"tree", "list"} /\ tab \in {"processes", "services"}
      /\ condition \in Filters /\ search \in Filters /\ debounce \in BOOLEAN
  BY DEF TypeOK
<1>3. Displayed(display' \cap Passing(new, search))
  BY <1>1, <1>2, ApplyFacts
<1>4. Displayed(display' \cap Passing(all', search'))
  BY <1>1, <1>3
<1>5. display' = Passing(all', condition')
  BY <1>1
<1>6. QED
  BY <1>1, <1>2, <1>4, <1>5, DisplayedSuffices

\* Where ApplyFilterAndDisplay is called on the items there are.
LEMMA ReapplyStep ==
  ASSUME TypeOK, FilteredInv, ControlsInv, SnapshotTypeOK',
         NEW newMode \in {"tree", "list"}, all' = all, mode' = newMode,
         display' = Passing(all, condition'),
         ApplyFilterAndDisplay(all, display', newMode, FALSE), search' = search,
         tab' \in {"processes", "services"}, condition' \in Filters, debounce' \in BOOLEAN
  PROVE  TypeOK' /\ FilteredInv' /\ ControlsInv'
<1>1. Displayed(display' \cap Passing(all, search))
  BY ApplyFacts
<1>2. Displayed(display' \cap Passing(all', search'))
  BY <1>1
<1>3. /\ all' \in [Pids -> Items \cup {None}] /\ search' \in Filters
      /\ display' = Passing(all', condition')
  BY DEF TypeOK
<1>4. QED
  BY <1>2, <1>3, DisplayedSuffices

\* UpdateListView called with no state.
LEMMA UpdateListStep ==
  ASSUME TypeOK, FilteredInv, ControlsInv, SnapshotTypeOK', OpenColumnSelectorDialog
  PROVE  TypeOK' /\ FilteredInv' /\ ControlsInv'
<1>1. /\ UNCHANGED <<all, display, tab, mode, condition, search, debounce, nodes, node,
                     treeCurrent, savedTree, savedList>>
      /\ filtered' \in Orders(Range(filtered)) /\ listCurrent' = TRUE
      /\ ShowRows(all, filtered',
                  IF listCurrent THEN CaptureRows(all, filtered) ELSE savedList)
  BY DEF OpenColumnSelectorDialog, Still, UpdateListView, filterVars, treeVars
<1>2. Range(filtered) \subseteq Pids
  BY DEF TypeOK
<1>3. /\ filtered' \in Seq(Pids) /\ Range(filtered') = Range(filtered)
      /\ IsInjective(filtered')
  BY <1>1, <1>2, OrdersAreOrders
<1>4. rows' \in Nat /\ selected' \subseteq 1..rows' /\ rows' = Len(filtered')
  BY <1>1, <1>3, ShowRowsFacts
<1>5. TypeOK'
  BY <1>1, <1>3, <1>4 DEF TypeOK
<1>6. FilteredInv' /\ ControlsInv'
  BY <1>1, <1>3, <1>4 DEF FilteredInv, ControlsInv, TreeOwned, Passing
<1>7. QED
  BY <1>5, <1>6

LEMMA ViewStep ==
  ASSUME TypeOK, SnapshotInv, FilteredInv, ControlsInv, SnapshotTypeOK', [Next]_vars
  PROVE  TypeOK' /\ FilteredInv' /\ ControlsInv'
<1>1. CASE \/ \E p \in Pids : Start(p) /\ UNCHANGED viewVars
           \/ \E p \in Pids : Work(p) /\ UNCHANGED viewVars
           \/ \E p \in Pids : Exit(p) /\ UNCHANGED viewVars
           \/ BeginRefresh
           \/ \E p \in Pids : Enrich(p)
           \/ UNCHANGED vars
  BY <1>1, ViewUnchanged DEF BeginRefresh, Enrich, vars
<1>2. CASE FinishRefresh
  <2>1. Replace(items) /\ items \in [Pids -> Items \cup {None}]
    BY <1>2 DEF FinishRefresh, SnapshotInv, SnapshotTypeOK
  <2>2. QED
    BY <2>1, ReplaceStep
<1>3. CASE FailedRefresh
  <2>1. Replace(NoItems) /\ NoItems \in [Pids -> Items \cup {None}]
    BY <1>3 DEF FailedRefresh, NoItems
  <2>2. QED
    BY <2>1, ReplaceStep
<1>4. ASSUME NEW R \in SUBSET (1..rows), SelectRows(R) PROVE TypeOK' /\ FilteredInv' /\ ControlsInv'
  <2>1. /\ UNCHANGED <<all, display, filtered, tab, mode, condition, search, debounce, rows,
                       listCurrent, savedList, nodes, node, treeCurrent, savedTree>>
        /\ selected' = R
    BY <1>4 DEF SelectRows, Still, filterVars, treeVars
  <2>2. QED
    BY <2>1 DEF TypeOK, FilteredInv, ControlsInv, TreeOwned, Passing
<1>5. ASSUME NEW p \in nodes, SelectNode(p) PROVE TypeOK' /\ FilteredInv' /\ ControlsInv'
  <2>1. /\ UNCHANGED <<all, display, filtered, tab, mode, condition, search, debounce, rows,
                       selected, listCurrent, savedList, nodes, treeCurrent, savedTree>>
        /\ node' = p
    BY <1>5 DEF SelectNode, Still, filterVars, listVars
  <2>2. QED
    BY <2>1 DEF TypeOK, FilteredInv, ControlsInv, TreeOwned, Passing
<1>6. ASSUME NEW f \in Filters, ChangeCondition(f)
      PROVE  TypeOK' /\ FilteredInv' /\ ControlsInv'
  <2>1. /\ all' = all /\ mode' = mode /\ tab' = tab /\ search' = search
        /\ debounce' = debounce /\ condition' = f /\ display' = Passing(all, condition')
        /\ ApplyFilterAndDisplay(all, display', mode, FALSE)
    BY <1>6 DEF ChangeCondition, Still
  <2>2. mode \in {"tree", "list"} /\ tab' \in {"processes", "services"}
        /\ condition' \in Filters /\ debounce' \in BOOLEAN
    BY <2>1 DEF TypeOK
  <2>3. QED
    BY <2>1, <2>2, ReapplyStep
<1>7. ASSUME NEW f \in Filters, TypeSearch(f)
      PROVE  TypeOK' /\ FilteredInv' /\ ControlsInv'
  <2>1. /\ UNCHANGED <<all, display, filtered, tab, mode, condition, rows, selected,
                       listCurrent, savedList, nodes, node, treeCurrent, savedTree>>
        /\ search' = f /\ debounce' = TRUE
    BY <1>7 DEF TypeSearch, Still, listVars, treeVars
  <2>2. QED
    BY <2>1 DEF TypeOK, FilteredInv, ControlsInv, TreeOwned, Passing
<1>8. CASE SearchTimer
  <2>1. /\ UNCHANGED <<all, display, tab, mode, condition, search>> /\ debounce' = FALSE
        /\ IF tab = "processes" THEN ApplyFilterAndDisplay(all, display, mode, FALSE)
           ELSE UNCHANGED <<filtered, listVars, treeVars>>
    BY <1>8 DEF SearchTimer, Still
  <2>2. CASE tab = "processes"
    <3>1. ApplyFilterAndDisplay(all, display', mode, FALSE)
      BY <2>1, <2>2
    <3>2. mode \in {"tree", "list"} /\ tab' \in {"processes", "services"}
          /\ condition' \in Filters /\ debounce' \in BOOLEAN
          /\ display' = Passing(all, condition')
      BY <2>1 DEF TypeOK, FilteredInv
    <3>3. QED
      BY <2>1, <3>1, <3>2, ReapplyStep
  <2>3. CASE tab # "processes"
    BY <2>1, <2>3 DEF TypeOK, FilteredInv, ControlsInv, TreeOwned, Passing, listVars, treeVars
  <2>4. QED
    BY <2>2, <2>3
<1>9. CASE OpenColumnSelectorDialog
  BY <1>9, UpdateListStep
<1>10. CASE ToggleTree
  <2>1. /\ UNCHANGED <<all, display, tab, condition, search, debounce>>
        /\ mode' = OtherMode /\ ApplyFilterAndDisplay(all, display', OtherMode, FALSE)
    BY <1>10 DEF ToggleTree, Still, filterVars
  <2>2. OtherMode \in {"tree", "list"} /\ tab' \in {"processes", "services"}
        /\ condition' \in Filters /\ debounce' \in BOOLEAN
        /\ display' = Passing(all, condition')
    BY <2>1 DEF TypeOK, FilteredInv, OtherMode
  <2>3. QED
    BY <2>1, <2>2, ReapplyStep
<1>11. CASE OnTabChanged
  <2>1. UNCHANGED <<all, display, mode, condition, search>> /\ debounce' = FALSE
    BY <1>11 DEF OnTabChanged, Still
  <2>2. CASE /\ tab = "services" /\ tab' = "processes"
             /\ ApplyFilterAndDisplay(all, display, mode, FALSE)
    <3>1. ApplyFilterAndDisplay(all, display', mode, FALSE)
      BY <2>1, <2>2
    <3>2. mode \in {"tree", "list"} /\ tab' \in {"processes", "services"}
          /\ condition' \in Filters /\ debounce' \in BOOLEAN
          /\ display' = Passing(all, condition')
      BY <2>1, <2>2 DEF TypeOK, FilteredInv
    <3>3. QED
      BY <2>1, <3>1, <3>2, ReapplyStep
  <2>3. CASE /\ tab = "processes" /\ tab' = "services"
             /\ UNCHANGED <<filtered, listVars, treeVars>>
    BY <2>1, <2>3 DEF TypeOK, FilteredInv, ControlsInv, TreeOwned, Passing, listVars, treeVars
  <2>4. QED
    BY <1>11, <2>2, <2>3 DEF OnTabChanged
<1>12. QED
  BY <1>1, <1>2, <1>3, <1>4, <1>5, <1>6, <1>7, <1>8, <1>9, <1>10, <1>11 DEF Next

\* A row keeps the details of the process it names.
LEMMA AllStep ==
  ASSUME TypeOK, SnapshotInv, AllInv, [Next]_vars
  PROVE  AllInv'
<1>1. ASSUME NEW p \in Pids, Start(p), UNCHANGED viewVars PROVE AllInv'
  <2>1. /\ holder' = [holder EXCEPT ![p] = started + 1] /\ started' = started + 1
        /\ all' = all
    BY <1>1 DEF Start, viewVars
  <2>2. /\ started \in Nat /\ holder \in [Pids -> Starts \cup {None}]
        /\ \A q \in Pids : all[q] # None => all[q].start \in Nat
    BY SnapshotAssumption DEF TypeOK, SnapshotTypeOK, Items, Starts
  <2>3. \A q \in Pids : all[q] # None => all[q].start # started + 1
    BY <2>2 DEF AllInv
  <2>4. \A q \in Pids : holder'[q] = IF q = p THEN started + 1 ELSE holder[q]
    BY <2>1, <2>2
  <2>5. DetailsOfLiving'
    BY <2>1, <2>3, <2>4 DEF AllInv, DetailsOfLiving
  <2>6. \A q \in Pids : all'[q] # None => all'[q].start <= started'
    BY <2>1, <2>2 DEF AllInv
  <2>7. QED
    BY <2>5, <2>6 DEF AllInv
<1>2. ASSUME NEW p \in Pids, Exit(p), UNCHANGED viewVars PROVE AllInv'
  <2>1. holder' = [holder EXCEPT ![p] = None] /\ started' = started /\ all' = all
    BY <1>2 DEF Exit, viewVars
  <2>2. \A q \in Pids : holder'[q] = IF q = p THEN None ELSE holder[q]
    BY <2>1 DEF TypeOK, SnapshotTypeOK
  <2>3. \A q \in Pids : all[q] # None => all[q].start # None
    BY NoneDistinct, SnapshotAssumption DEF TypeOK, Items, Starts
  <2>4. QED
    BY <2>1, <2>2, <2>3 DEF AllInv, DetailsOfLiving
<1>3. CASE FinishRefresh
  <2>1. all' = items /\ Bare = {} /\ UNCHANGED <<holder, started>>
    BY <1>3 DEF FinishRefresh, Finish, Replace, kernelVars
  <2>2. QED
    BY <2>1 DEF AllInv, DetailsOfLiving, SnapshotInv, ItemsInv, Bare
<1>4. CASE FailedRefresh
  BY <1>4 DEF FailedRefresh, Replace, NoItems, AllInv, DetailsOfLiving
<1>5. CASE UNCHANGED <<all, holder, started>>
  BY <1>5 DEF AllInv, DetailsOfLiving
<1>6. CASE \/ \E p \in Pids : Work(p) /\ UNCHANGED viewVars
           \/ BeginRefresh
           \/ \E p \in Pids : Enrich(p)
  BY <1>5, <1>6 DEF Work, BeginRefresh, Enrich, QueryTable, EnrichProcessDetails, viewVars,
                    kernelVars
<1>7. CASE \/ \E R \in SUBSET (1..rows) : SelectRows(R)
           \/ \E p \in nodes : SelectNode(p)
           \/ \E f \in Filters : ChangeCondition(f) \/ TypeSearch(f)
           \/ SearchTimer
           \/ OpenColumnSelectorDialog
           \/ ToggleTree
           \/ OnTabChanged
  <2>1. Still
    BY <1>7 DEF SelectRows, SelectNode, ChangeCondition, TypeSearch, SearchTimer,
                OpenColumnSelectorDialog, ToggleTree, OnTabChanged
  <2>2. QED
    BY <1>5, <2>1 DEF Still, kernelVars
<1>8. CASE UNCHANGED vars
  BY <1>5, <1>8 DEF vars, kernelVars, viewVars
<1>9. QED
  BY <1>1, <1>2, <1>3, <1>4, <1>6, <1>7, <1>8 DEF Next

LEMMA InvInit == Init => IInv
<1> SUFFICES ASSUME Init PROVE IInv
  OBVIOUS
<1>1. SnapshotInv
  BY SnapshotInitInv DEF Init
<1>2. \A p \in Pids : all[p] = None
  BY DEF Init, NoItems
<1>3. filtered \in Seq(Pids) /\ Range(filtered) = {} /\ IsInjective(filtered)
  BY DEF Init, Range, IsInjective
<1>4. FilteredInv
  BY <1>2, <1>3 DEF Init, FilteredInv, Passing
<1>5. ControlsInv /\ AllInv
  BY <1>2 DEF Init, ControlsInv, TreeOwned, AllInv, DetailsOfLiving
<1>6. TypeOK
  <2>1. all \in [Pids -> Items \cup {None}]
    BY DEF Init, NoItems
  <2>2. search \in Filters /\ condition \in Filters
    BY ViewAssumption DEF Init
  <2>3. display \subseteq {p \in Pids : all[p] # None} /\ Range(filtered) \subseteq display
    BY <1>3 DEF Init
  <2>4. rows \in Nat /\ selected \subseteq 1..rows /\ nodes \subseteq Pids \cup {Freed}
    BY DEF Init
  <2>5. node \in nodes \cup {None} /\ savedList \subseteq Identities
        /\ savedTree \in Identities \cup {None}
    BY DEF Init
  <2>6. /\ tab \in {"processes", "services"} /\ mode \in {"list", "tree"}
        /\ debounce \in BOOLEAN /\ listCurrent \in BOOLEAN /\ treeCurrent \in BOOLEAN
    BY DEF Init
  <2>7. SnapshotTypeOK /\ IsInjective(filtered)
    BY <1>1, <1>3 DEF SnapshotInv
  <2>8. QED
    BY <2>1, <2>2, <2>3, <2>4, <2>5, <2>6, <2>7 DEF TypeOK
<1>7. QED
  BY <1>1, <1>4, <1>5, <1>6 DEF IInv

LEMMA InvStep == IInv /\ [Next]_vars => IInv'
<1> SUFFICES ASSUME IInv, [Next]_vars PROVE IInv'
  OBVIOUS
<1>1. SnapshotInv' /\ SnapshotTypeOK'
  BY SnapshotStep DEF IInv, SnapshotInv
<1>2. TypeOK' /\ FilteredInv' /\ ControlsInv'
  BY <1>1, ViewStep DEF IInv
<1>3. AllInv'
  BY AllStep DEF IInv
<1>4. QED
  BY <1>1, <1>2, <1>3 DEF IInv

\* The inductive invariant: the table and its figures, what is filtered, the controls and
\* the whole of the list.
THEOREM Invariance == Spec => []IInv
BY InvInit, InvStep, PTL DEF Spec

\* The variables of the view keep their types.
THEOREM TypeCorrect == Spec => []TypeOK
<1>1. IInv => TypeOK
  BY DEF IInv
<1>2. QED
  BY <1>1, Invariance, PTL

\* A row of a running process carries that process's own user and path, or those of a
\* process that could not be opened, however PIDs and the cache were reused
\* (EnrichProcessDetails).
THEOREM NoForeignDetails == Spec => []DetailsOfLiving
<1>1. IInv => DetailsOfLiving
  BY DEF IInv, AllInv
<1>2. QED
  BY <1>1, Invariance, PTL

\* CaptureTreeViewState follows the pointers of a tree only while they are of items that
\* filtered_processes_ owns.
THEOREM NoFreedNodeRead == Spec => []TreeOwned
<1>1. IInv => TreeOwned
  BY DEF IInv, ControlsInv
<1>2. QED
  BY <1>1, Invariance, PTL

\* What is on screen is what the condition and the search let through
\* (ApplyFilterAndDisplay and its callers).
THEOREM FilterShown == Spec => []FilterApplied
<1>1. IInv => FilterApplied
  <2>1. \A f : Passing(all, f) \subseteq Pids
    BY DEF Passing
  <2>2. QED
    BY <2>1 DEF IInv, FilteredInv, FilterApplied
<1>2. QED
  BY <1>1, Invariance, PTL

-----------------------------------------------------------------------------
(* The selection                                                           *)

\* What is remembered of a selection: all of it but processes without a start time.
Remembers(rowsFound, nodeFound) ==
  /\ Lasting(Chosen) \subseteq rowsFound /\ rowsFound \subseteq Chosen
  /\ \/ nodeFound = ChosenNode
     \/ nodeFound = None /\ ChosenNode.start \in Untimed

RowsFound == IF listCurrent THEN CaptureRows(all, filtered) ELSE savedList
NodeFound == IF treeCurrent THEN CaptureNode(all) ELSE savedTree

\* CaptureRows and CaptureNode find what is selected in a control that counts as current.
LEMMA CapturedIsChosen ==
  ASSUME TypeOK, FilteredInv, ControlsInv
  PROVE  /\ Remembers(RowsFound, NodeFound)
         /\ NodeFound \in Identities \cup {None}
         /\ listCurrent => Chosen \subseteq Processes(all, Range(filtered))
<1>1. /\ all \in [Pids -> Items \cup {None}]
      /\ \A i \in DOMAIN filtered : filtered[i] \in Pids /\ all[filtered[i]] # None
      /\ DOMAIN filtered = 1..Len(filtered)
  BY CaptureFacts DEF TypeOK
<1>2. ASSUME listCurrent
      PROVE  /\ RowsFound = Lasting(Chosen)
             /\ Chosen \subseteq Processes(all, Range(filtered))
  <2> DEFINE S == {filtered[i] : i \in selected}
  <2>1. selected \subseteq 1..Len(filtered) /\ Len(filtered) \in Nat
    BY <1>2 DEF TypeOK, ControlsInv, FilteredInv
  <2>2. {j \in selected : j <= Len(filtered)} = selected
    <3>1. \A j \in selected : j <= Len(filtered)
      BY <2>1
    <3>2. QED
      BY <3>1, Zenon
  <2>3. S \subseteq {p \in Pids : all[p] # None} /\ S \subseteq Range(filtered)
    BY <1>1, <2>1 DEF Range
  <2>4. Chosen = Processes(all, S)
    BY <1>2 DEF Chosen
  <2>5. RowsFound = Identified(all, S)
    BY <1>2, <2>2 DEF RowsFound, CaptureRows
  <2>6. Identified(all, S) = Lasting(Processes(all, S))
    BY <1>1, <2>3, IdentifiedFacts
  <2>7. Processes(all, S) \subseteq Processes(all, Range(filtered))
    BY <2>3 DEF Processes
  <2>8. QED
    BY <2>4, <2>5, <2>6, <2>7
<1>3. ASSUME ~listCurrent PROVE RowsFound = Chosen
  BY <1>3 DEF RowsFound, Chosen
<1>4. Lasting(Chosen) \subseteq RowsFound /\ RowsFound \subseteq Chosen
  BY <1>2, <1>3 DEF Lasting
<1>5. ASSUME treeCurrent, node # None
      PROVE  \/ NodeFound = ChosenNode
             \/ NodeFound = None /\ ChosenNode.start \in Untimed
  <2>1. node \in Pids /\ all[node] # None
    BY <1>1, <1>5 DEF ControlsInv, TreeOwned, TypeOK, Range
  <2>2. NodeFound = Identity(all, node) /\ ChosenNode = Process(all, node)
    BY <1>5 DEF NodeFound, CaptureNode, ChosenNode
  <2>3. QED
    BY <1>1, <2>1, <2>2, IdentityFacts
<1>6. ASSUME ~(treeCurrent /\ node # None) PROVE NodeFound = ChosenNode
  BY <1>6 DEF NodeFound, CaptureNode, ChosenNode
<1>7. NodeFound \in Identities \cup {None}
  BY CaptureFacts DEF NodeFound, TypeOK
<1>8. QED
  BY <1>2, <1>4, <1>5, <1>6, <1>7 DEF Remembers

\* The rows UpdateListView selects are those of what was selected.
LEMMA RowsOfWanted ==
  ASSUME NEW from, NEW wanted, NEW order \in Seq(Pids), ShowRows(from, order, wanted),
         \A i \in DOMAIN order : Identity(from, order[i]) # None =>
           Identity(from, order[i]) = Process(from, order[i])
  PROVE  Processes(from, {order[i] : i \in selected'})
           = wanted \cap Identified(from, Range(order))
<1>1. \A i \in DOMAIN order :
        i \in selected' <=> Identity(from, order[i]) # None
                              /\ Identity(from, order[i]) \in wanted
  BY DEF ShowRows, Identified
<1>2. selected' \subseteq DOMAIN order
  BY DEF ShowRows
<1>3. ASSUME NEW x
      PROVE  x \in Processes(from, {order[i] : i \in selected'}) <=>
               \E i \in DOMAIN order :
                 Identity(from, order[i]) # None /\ x = Identity(from, order[i])
                   /\ x \in wanted
  BY <1>1, <1>2 DEF Processes
<1>4. ASSUME NEW x
      PROVE  x \in wanted \cap Identified(from, Range(order)) <=>
               \E i \in DOMAIN order :
                 Identity(from, order[i]) # None /\ x = Identity(from, order[i])
                   /\ x \in wanted
  BY DEF Identified, Range
<1>5. QED
  BY <1>3, <1>4

\* The node UpdateTreeView selects is the one that was selected, if it is still there
\* and has a start time.
LEMMA NodeOfWanted ==
  ASSUME NEW from \in [Pids -> Items \cup {None}], NEW wanted \in Identities \cup {None},
         NEW S, S \subseteq {p \in Pids : from[p] # None}, ShowNodes(from, S, wanted)
  PROVE  \/ node' # None /\ Process(from, node') = wanted
         \/ node' = None /\ wanted = None
         \/ node' = None /\ wanted \notin Processes(from, S)
         \/ node' = None /\ wanted.start \in Untimed
<1>1. \A p \in S :
        /\ Process(from, p) # None
        /\ Process(from, p).pid = p /\ Process(from, p).start = from[p].start
        /\ Identity(from, p) = IF from[p].start \in Untimed THEN None
                               ELSE Process(from, p)
  BY IdentityFacts
<1>2. CASE wanted # None /\ wanted.pid \in S /\ Identity(from, wanted.pid) = wanted
  <2>1. node' = wanted.pid
    BY <1>2 DEF ShowNodes
  <2>2. Process(from, node') = wanted
    BY <1>1, <1>2, <2>1
  <2>3. node' # None
    BY <2>1, <1>2, ViewAssumption
  <2>4. QED
    BY <2>2, <2>3
<1>3. CASE ~(wanted # None /\ wanted.pid \in S /\ Identity(from, wanted.pid) = wanted)
  <2>1. node' = None
    BY <1>3 DEF ShowNodes
  <2>2. ASSUME NEW p \in S, wanted = Process(from, p) PROVE wanted.start \in Untimed
    <3>1. wanted # None /\ wanted.pid = p /\ wanted.start = from[p].start
      BY <1>1, <2>2
    <3>2. Identity(from, p) # wanted
      BY <1>3, <3>1
    <3>3. QED
      BY <1>1, <2>2, <3>1, <3>2
  <2>3. wanted \in Processes(from, S) => wanted.start \in Untimed
    BY <2>2 DEF Processes
  <2>4. QED
    BY <2>1, <2>3
<1>4. QED
  BY <1>2, <1>3

\* What SelectionStays says of a step.
Stays ==
  LET listed == Processes(all', Range(filtered'))
      stay   == IF listCurrent' THEN Chosen \cap listed ELSE Chosen
  IN  /\ Lasting(stay) \subseteq Chosen' /\ Chosen' \subseteq stay
      /\ \/ ChosenNode' = ChosenNode
         \/ /\ ChosenNode' = None
            /\ \/ treeCurrent' /\ ChosenNode \notin listed
               \/ ChosenNode.start \in Untimed

\* What an up-to-date list selects of what was remembered is what stays.
LEMMA RowsStay ==
  ASSUME all' \in [Pids -> Items \cup {None}],
         filtered' \in Seq(Pids), Range(filtered') \subseteq {p \in Pids : all'[p] # None},
         NEW found, Lasting(Chosen) \subseteq found, found \subseteq Chosen,
         ShowRows(all', filtered', found), listCurrent'
  PROVE  LET stay == Chosen \cap Processes(all', Range(filtered'))
         IN  Lasting(stay) \subseteq Chosen' /\ Chosen' \subseteq stay
<1> DEFINE listed == Processes(all', Range(filtered'))
<1>1. \A i \in DOMAIN filtered' : filtered'[i] \in Range(filtered')
  BY DEF Range
<1>2. \A i \in DOMAIN filtered' : Identity(all', filtered'[i]) # None =>
        Identity(all', filtered'[i]) = Process(all', filtered'[i])
  BY <1>1, IdentityFacts
<1>3. Processes(all', {filtered'[i] : i \in selected'})
        = found \cap Identified(all', Range(filtered'))
  BY <1>2, RowsOfWanted
<1>4. Chosen' = Processes(all', {filtered'[i] : i \in selected'})
  BY DEF Chosen, Processes, Process
<1>5. Identified(all', Range(filtered')) = Lasting(listed)
  BY IdentifiedFacts
<1>6. Chosen' = found \cap Lasting(listed)
  BY <1>3, <1>4, <1>5
<1> HIDE DEF listed
<1>7. Lasting(Chosen \cap listed) \subseteq Chosen' /\ Chosen' \subseteq Chosen \cap listed
  BY <1>6 DEF Lasting
<1>8. QED
  BY <1>7 DEF listed

LEMMA ApplyStays ==
  ASSUME TypeOK, FilteredInv, ControlsInv,
         NEW newMode \in {"tree", "list"}, NEW fresh, NEW shown,
         all' \in [Pids -> Items \cup {None}],
         ApplyFilterAndDisplay(all', shown, newMode, fresh)
  PROVE  Stays
<1> DEFINE passing == shown \cap Passing(all', search)
           listed == Processes(all', Range(filtered'))
<1>1. savedList' = RowsFound /\ savedTree' = NodeFound
  BY DEF ApplyFilterAndDisplay, RowsFound, NodeFound
<1>2. Remembers(savedList', savedTree') /\ savedTree' \in Identities \cup {None}
  BY <1>1, CapturedIsChosen
<1>3. /\ Lasting(Chosen) \subseteq savedList' /\ savedList' \subseteq Chosen
      /\ \/ savedTree' = ChosenNode
         \/ savedTree' = None /\ ChosenNode.start \in Untimed
  BY <1>2 DEF Remembers
<1>4. filtered' \in Seq(Pids) /\ Range(filtered') = passing
  BY ApplyFacts DEF Displayed
<1>5. passing \subseteq {p \in Pids : all'[p] # None}
  BY DEF Passing
<1>6. CASE newMode = "tree"
  <2>1. /\ ShowNodes(all', passing, savedTree')
        /\ listCurrent' = FALSE /\ treeCurrent' = TRUE
    BY <1>6 DEF ApplyFilterAndDisplay, MarkCurrent
  <2>2. \/ node' # None /\ Process(all', node') = savedTree'
        \/ node' = None /\ savedTree' = None
        \/ node' = None /\ savedTree' \notin listed
        \/ node' = None /\ savedTree'.start \in Untimed
    BY <1>2, <1>4, <1>5, <2>1, NodeOfWanted
  <2>3. Chosen' = savedList'
    BY <2>1 DEF Chosen
  <2>4. ChosenNode' = IF node' = None THEN None ELSE Process(all', node')
    BY <2>1 DEF ChosenNode, Process
  <2>5. \/ ChosenNode' = ChosenNode
        \/ ChosenNode' = None /\ (ChosenNode \notin listed \/ ChosenNode.start \in Untimed)
    <3>1. CASE savedTree' = ChosenNode
      BY <2>2, <2>4, <3>1
    <3>2. CASE savedTree' = None /\ ChosenNode.start \in Untimed
      BY <2>2, <2>4, <3>2
    <3>3. QED
      BY <1>3, <3>1, <3>2
  <2>6. QED
    BY <1>3, <2>1, <2>3, <2>5 DEF Stays
<1>7. CASE newMode = "list"
  <2>1. /\ ShowRows(all', filtered', savedList')
        /\ listCurrent' = TRUE /\ treeCurrent' = FALSE
    BY <1>7 DEF ApplyFilterAndDisplay, MarkCurrent
  <2>2. /\ Lasting(Chosen \cap listed) \subseteq Chosen'
        /\ Chosen' \subseteq Chosen \cap listed
    BY <1>3, <1>4, <1>5, <2>1, RowsStay
  <2>3. ChosenNode' = savedTree'
    BY <2>1 DEF ChosenNode
  <2>4. QED
    BY <1>3, <2>1, <2>2, <2>3 DEF Stays
<1>8. QED
  BY <1>6, <1>7

LEMMA UnmovedStays ==
  ASSUME TypeOK, FilteredInv, ControlsInv,
         UNCHANGED <<all, filtered, selected, listCurrent, savedList, node, treeCurrent,
                     savedTree>>
  PROVE  Stays
<1>1. Chosen' = Chosen /\ ChosenNode' = ChosenNode
  BY DEF Chosen, ChosenNode, Processes, Process
<1>2. Processes(all', Range(filtered')) = Processes(all, Range(filtered))
  OBVIOUS
<1>3. listCurrent => Chosen = Chosen \cap Processes(all, Range(filtered))
  BY CapturedIsChosen
<1>4. Lasting(Chosen) \subseteq Chosen
  BY DEF Lasting
<1>5. QED
  BY <1>1, <1>2, <1>3, <1>4 DEF Stays

LEMMA StaysStep ==
  ASSUME IInv, IInv', [Next]_vars, ~UserSelects
  PROVE  Stays
<1>1. /\ TypeOK /\ FilteredInv /\ ControlsInv /\ SnapshotInv /\ mode \in {"tree", "list"}
      /\ all' \in [Pids -> Items \cup {None}]
  BY DEF IInv, TypeOK
<1>2. CASE \/ \E p \in Pids : Start(p) /\ UNCHANGED viewVars
           \/ \E p \in Pids : Work(p) /\ UNCHANGED viewVars
           \/ \E p \in Pids : Exit(p) /\ UNCHANGED viewVars
           \/ BeginRefresh
           \/ \E p \in Pids : Enrich(p)
           \/ UNCHANGED vars
  <2>1. UNCHANGED viewVars
    BY <1>2 DEF BeginRefresh, Enrich, vars
  <2>2. QED
    BY <1>1, <2>1, UnmovedStays DEF viewVars, listVars, treeVars
<1>3. CASE FinishRefresh \/ FailedRefresh
  <2>1. PICK new \in {items, NoItems} : Replace(new)
    BY <1>3 DEF FinishRefresh, FailedRefresh
  <2>2. all' = new /\ ApplyFilterAndDisplay(new, display', mode, TRUE)
    BY <2>1 DEF Replace
  <2>3. ApplyFilterAndDisplay(all', display', mode, TRUE)
    BY <2>2
  <2>4. QED
    BY <1>1, <2>3, ApplyStays
<1>4. CASE (\E f \in Filters : ChangeCondition(f)) \/ ToggleTree
  <2>1. PICK newMode \in {"tree", "list"} :
          all' = all /\ ApplyFilterAndDisplay(all, display', newMode, FALSE)
    <3>1. CASE ToggleTree
      <4>1. OtherMode \in {"tree", "list"} /\ all' = all /\ display' = display
            /\ mode' = OtherMode /\ ApplyFilterAndDisplay(all, display, mode', FALSE)
        BY <3>1 DEF ToggleTree, Still, OtherMode
      <4>2. QED
        BY <4>1
    <3>2. CASE \E f \in Filters : ChangeCondition(f)
      BY <1>1, <3>2 DEF ChangeCondition, Still
    <3>3. QED
      BY <1>4, <3>1, <3>2
  <2>2. ApplyFilterAndDisplay(all', display', newMode, FALSE)
    BY <2>1
  <2>3. QED
    BY <1>1, <2>2, ApplyStays
<1>5. CASE SearchTimer \/ OnTabChanged
  <2>1. all' = all /\ display' = display
    BY <1>5 DEF SearchTimer, OnTabChanged, Still
  <2>2. \/ ApplyFilterAndDisplay(all, display, mode, FALSE)
        \/ UNCHANGED <<filtered, listVars, treeVars>>
    BY <1>5 DEF SearchTimer, OnTabChanged
  <2>3. CASE ApplyFilterAndDisplay(all, display, mode, FALSE)
    <3>1. ApplyFilterAndDisplay(all', display, mode, FALSE)
      BY <2>1, <2>3
    <3>2. QED
      BY <1>1, <3>1, ApplyStays
  <2>4. CASE UNCHANGED <<filtered, listVars, treeVars>>
    BY <1>1, <2>1, <2>4, UnmovedStays DEF listVars, treeVars
  <2>5. QED
    BY <2>2, <2>3, <2>4
<1>6. CASE \E f \in Filters : TypeSearch(f)
  <2>1. UNCHANGED <<all, filtered, listVars, treeVars>>
    BY <1>6 DEF TypeSearch, Still
  <2>2. QED
    BY <1>1, <2>1, UnmovedStays DEF listVars, treeVars
<1>7. CASE OpenColumnSelectorDialog
  <2>1. /\ all' = all /\ UNCHANGED <<node, treeCurrent, savedTree>>
        /\ filtered' \in Orders(Range(filtered)) /\ listCurrent' = TRUE
        /\ ShowRows(all, filtered', RowsFound)
    BY <1>7 DEF OpenColumnSelectorDialog, Still, UpdateListView, treeVars, RowsFound
  <2>2. Range(filtered) \subseteq {p \in Pids : all[p] # None}
    BY DEF IInv, TypeOK
  <2>3. filtered' \in Seq(Pids) /\ Range(filtered') = Range(filtered)
    BY <2>1, <2>2, OrdersAreOrders
  <2>4. Lasting(Chosen) \subseteq RowsFound /\ RowsFound \subseteq Chosen
    BY <1>1, CapturedIsChosen DEF Remembers
  <2>5. Range(filtered') \subseteq {p \in Pids : all'[p] # None}
    BY <2>1, <2>2, <2>3
  <2>6. ShowRows(all', filtered', RowsFound)
    BY <2>1
  <2>7. LET stay == Chosen \cap Processes(all', Range(filtered'))
        IN  Lasting(stay) \subseteq Chosen' /\ Chosen' \subseteq stay
    BY <1>1, <2>1, <2>3, <2>4, <2>5, <2>6, RowsStay
  <2>8. ChosenNode' = ChosenNode
    BY <2>1 DEF ChosenNode, Process
  <2>9. QED
    BY <2>1, <2>7, <2>8 DEF Stays
<1>8. QED
  BY <1>2, <1>3, <1>4, <1>5, <1>6, <1>7 DEF Next, UserSelects

\* Only the user moves the selection: what a refresh, a sort, a search or a change of the
\* mode leaves selected is what was selected and is still listed, less the process without
\* a start time (CaptureListViewState, UpdateListView, CaptureTreeViewState,
\* UpdateTreeView).
THEOREM OnlyUserSelects == Spec => SelectionStays
<1>1. IInv /\ IInv' /\ [Next]_vars =>
        [~UserSelects =>
           LET listed == Processes(all', Range(filtered'))
               stay   == IF listCurrent' THEN Chosen \cap listed ELSE Chosen
           IN  /\ Lasting(stay) \subseteq Chosen' /\ Chosen' \subseteq stay
               /\ \/ ChosenNode' = ChosenNode
                  \/ /\ ChosenNode' = None
                     /\ \/ treeCurrent' /\ ChosenNode \notin listed
                        \/ ChosenNode.start \in Untimed]_vars
  BY StaysStep DEF Stays
<1>2. QED
  BY <1>1, Invariance, PTL DEF Spec, SelectionStays
=============================================================================
