-------------------------- MODULE ProcessSnapshot --------------------------
(***************************************************************************)
(* ProcessSnapshotService::GetSnapshot and EnrichProcessDetails            *)
(* (process_snapshot_service.cc).  The kernel hands over its process table *)
(* at one instant; user, path and the like are then asked for one process  *)
(* at a time, by PID, while processes end and their PIDs are reused.  What *)
(* was found is cached by PID and start time, and CPU time is charged as   *)
(* the difference from the table before, by PID alone.                     *)
(* A process is the number of its start, and its start time is as good as  *)
(* that number, for the kernel never gives one twice; but the System Idle  *)
(* Process has none.  That the details of PIDs 0 and 4 are fixed, and that *)
(* those never end, is left out.                                           *)
(***************************************************************************)
EXTENDS Naturals, FiniteSets

CONSTANTS
  Pids,      \* process identifiers that are reused
  Fallback,  \* the details of a process that cannot be opened
  None,      \* no process, no entry, no details yet, no start time
  Untimed,   \* the process the kernel gives no start time for, if any
  MaxStart,  \* bound: processes ever started
  MaxWork    \* bound: CPU time a process uses

ASSUME SnapshotAssumption ==
  /\ IsFiniteSet(Pids)
  /\ MaxStart \in Nat /\ MaxWork \in Nat
  /\ {Fallback, None} \cap Nat = {} /\ Fallback # None
  /\ None \notin [start : Nat, details : Nat \cup {Fallback, None}]
  /\ None \notin [time : Nat, charge : Nat]
  /\ None \notin [Pids -> [time : Nat, charge : Nat] \cup {None}]
  /\ \A m, n \in Untimed : m = n

VARIABLES
  holder,    \* the process that holds each PID
  started,   \* the last start time given
  work,      \* the CPU time its process has used
  previous,  \* previous_times_: by PID, the CPU time at the table before
  cache,     \* static_cache_: by PID, a start time and details
  table,     \* the snapshot under way, None if none is: by PID, the CPU time
             \* (current_times) and what of it is charged to the item (cpu_percent)
  items,     \* the items of that snapshot, by PID; details None until asked for
  seen       \* history: the CPU time of each process at the table before

kernelVars   == <<holder, started, work>>
snapshotVars == <<previous, cache, table, items, seen>>

Starts  == 1..MaxStart
Details == Starts \cup {Fallback}
Items   == [start : Starts, details : Details \cup {None}]
Times   == [time : 0..MaxWork, charge : 0..MaxWork]

SnapshotTypeOK ==
  /\ holder \in [Pids -> Starts \cup {None}]
  /\ started \in 0..MaxStart
  /\ work \in [Pids -> 0..MaxWork]
  /\ previous \in [Pids -> 0..MaxWork \cup {None}]
  /\ cache \in [Pids -> [start : Starts, details : Details] \cup {None}]
  /\ table \in [Pids -> Times \cup {None}] \cup {None}
  /\ items \in [Pids -> Items \cup {None}]
  /\ seen \in [Starts -> 0..MaxWork]

NoItems == [p \in Pids |-> None]

SnapshotInit ==
  /\ holder = [p \in Pids |-> None]
  /\ started = 0
  /\ work = [p \in Pids |-> 0]
  /\ previous = [p \in Pids |-> None]
  /\ cache = [p \in Pids |-> None]
  /\ table = None
  /\ items = NoItems
  /\ seen = [n \in Starts |-> 0]

-----------------------------------------------------------------------------
(* The processes of the machine                                            *)

Start(p) ==
  /\ holder[p] = None /\ started < MaxStart
  /\ started' = started + 1
  /\ holder' = [holder EXCEPT ![p] = started']
  /\ UNCHANGED <<work, snapshotVars>>

Work(p) ==
  /\ holder[p] # None /\ work[p] < MaxWork
  /\ work' = [work EXCEPT ![p] = @ + 1]
  /\ UNCHANGED <<holder, started, snapshotVars>>

Exit(p) ==
  /\ holder[p] # None
  /\ holder' = [holder EXCEPT ![p] = None]
  /\ work' = [work EXCEPT ![p] = 0]
  /\ UNCHANGED <<started, snapshotVars>>

-----------------------------------------------------------------------------
(* GetSnapshot                                                             *)

\* The CPU time charged to PID p: what has come on top of the table before.
Charge(p, now) ==
  IF previous[p] = None \/ now <= previous[p] THEN 0 ELSE now - previous[p]

\* NtQuerySystemInformation copies the table of the kernel.
QueryTable ==
  /\ table = None
  /\ table' = [p \in Pids |->
       IF holder[p] = None THEN None
       ELSE [time |-> work[p], charge |-> Charge(p, work[p])]]
  /\ items' = [p \in Pids |->
       IF holder[p] = None THEN None ELSE [start |-> holder[p], details |-> None]]
  /\ UNCHANGED <<kernelVars, previous, cache, seen>>

\* Entries the loop has not enriched yet.
Bare == {p \in Pids : items[p] # None /\ items[p].details = None}

\* What an item's start_time says of its process.
StartTime(n) == IF n \in Untimed THEN None ELSE n

\* The start times are not compared.
CachedByPid(p) == cache[p] # None

\* What is cached for the PID counts only for the process it was asked of.
Cached(p) ==
  cache[p] # None /\ StartTime(cache[p].start) = StartTime(items[p].start)

\* What OpenProcess leads to: the details of whoever holds the PID now, or the
\* defaults when nobody does or access is denied.
Asked(p) == {Fallback} \cup (IF holder[p] = None THEN {} ELSE {holder[p]})

EnrichProcessDetails(p) ==
  /\ table # None /\ p \in Bare
  /\ \E d \in IF Cached(p) THEN {cache[p].details} ELSE Asked(p) :
       /\ items' = [items EXCEPT ![p].details = d]
       /\ cache' = [cache EXCEPT ![p] = [start |-> items[p].start, details |-> d]]
  /\ UNCHANGED <<kernelVars, previous, table, seen>>

\* The new times are inserted and do not replace those of the same PID.
InsertedTimes ==
  [p \in Pids |-> IF items[p] = None THEN None
                 ELSE IF previous[p] # None THEN previous[p] ELSE table[p].time]

\* current_times, which replaces previous_times_.
CurrentTimes == [p \in Pids |-> IF items[p] = None THEN None ELSE table[p].time]

Lists(p, n) == items[p] # None /\ items[p].start = n

\* The end of GetSnapshot: the cache of PIDs that are gone is dropped and the
\* table becomes the one before.
Finish ==
  /\ table # None /\ Bare = {}
  /\ previous' = CurrentTimes
  /\ cache' = [p \in Pids |-> IF items[p] = None THEN None ELSE cache[p]]
  /\ seen' = [n \in Starts |->
       IF \E p \in Pids : Lists(p, n) THEN table[CHOOSE p \in Pids : Lists(p, n)].time
       ELSE 0]
  /\ table' = None
  /\ items' = NoItems
  /\ UNCHANGED kernelVars
=============================================================================
