------------------------- MODULE ServiceConfigCache -------------------------
(***************************************************************************)
(* The configuration cache of ServiceManagerService                        *)
(* (service_manager_service.cc), shared by two threads:                    *)
(*   - the service-refresh worker runs GetServicesSnapshot, which answers  *)
(*     most services from the cache and queries the Service Control        *)
(*     Manager (SCM) outside the lock for the others;                      *)
(*   - the UI thread runs ChangeStartupType, which changes the service in  *)
(*     the SCM first and invalidates the cache afterwards, under the lock. *)
(* A configuration is abstracted to the number of changes the service's    *)
(* configuration has seen, so that an older configuration is a smaller     *)
(* number; Default stands for the defaults a failed query leaves in it.    *)
(* Other programs change, delete and create services at any time.          *)
(***************************************************************************)
EXTENDS Integers, Sequences

CONSTANTS
  Services,    \* names of services
  Lifetime,    \* kConfigCacheLifetime, in ticks of the clock
  Default,     \* configuration of a service that could not be queried
  None,        \* no cache entry, no change in progress, service not listed
  MaxChanges,  \* bound: changes of one service's configuration
  MaxClock     \* bound: ticks of the clock

ASSUME ConfigAssumption ==
  /\ Lifetime \in Nat \ {0}
  /\ MaxChanges \in Nat
  /\ MaxClock \in Nat
  /\ Default \notin Nat
  /\ None \notin Nat \cup {Default}
  /\ None \notin Services
  /\ None \notin [service : Services, version : Nat]
  /\ None \notin [version : Nat \cup {Default}, refreshedAt : Nat]

VARIABLES
  installed,     \* services known to the SCM
  changedAt,     \* changedAt[s][v]: when version v of the configuration of s appeared
  clock,         \* steady_clock
  configCache,   \* config_cache_
  configCacheRevision,  \* config_cache_revision_
  change,        \* the ChangeStartupType call between its SCM call and its invalidation
  ownVersion,    \* history: version left by the last completed ChangeStartupType
  cancellation,  \* *cancellation, the flag the snapshot polls
  pc,            \* where GetServicesSnapshot stands
  now,           \* its local now
  names,         \* its local active_service_names
  todo,          \* services its loop has not reached
  service,       \* the service being queried
  seenRevision,  \* its local cache_revision
  config,        \* its local config
  result         \* its local result; None for a service not (yet) listed

scmVars   == <<installed, changedAt, clock>>
cacheVars == <<configCache, configCacheRevision, change, ownVersion>>
loopVars  == <<now, names, todo>>
queryVars == <<service, seenRevision, config>>
configVars == <<scmVars, cacheVars, cancellation, pc, loopVars, queryVars, result>>

-----------------------------------------------------------------------------
Configs == Nat \cup {Default}
Entries == [version : Configs, refreshedAt : Nat]
Changes == [service : Services, version : Nat]

Version(s) == Len(changedAt[s])

CacheTypeOK ==
  /\ installed \in SUBSET Services
  /\ changedAt \in [Services -> Seq(Nat)]
  /\ clock \in Nat
  /\ configCache \in [Services -> Entries \cup {None}]
  /\ configCacheRevision \in Nat
  /\ change \in Changes \cup {None}
  /\ ownVersion \in [Services -> Nat]
  /\ cancellation \in BOOLEAN
  /\ pc \in {"idle", "scan", "query", "store", "returned"}
  /\ now \in Nat
  /\ names \in SUBSET Services
  /\ todo \in SUBSET names
  /\ service \in Services \cup {None}
  /\ pc \in {"query", "store"} => service \in todo
  /\ seenRevision \in Nat
  /\ config \in Configs
  /\ result \in [Services -> Configs \cup {None}]

CacheInit ==
  /\ installed \in SUBSET Services
  /\ changedAt = [s \in Services |-> <<>>]
  /\ clock = 0
  /\ configCache = [s \in Services |-> None]
  /\ configCacheRevision = 0
  /\ change = None
  /\ ownVersion = [s \in Services |-> 0]
  /\ cancellation = FALSE
  /\ pc = "idle"
  /\ now = 0
  /\ names = {}
  /\ todo = {}
  /\ service = None
  /\ seenRevision = 0
  /\ config = Default
  /\ result = [s \in Services |-> None]

-----------------------------------------------------------------------------
(* The SCM and the clock: what other programs may do to the services.      *)

\* A new version of the configuration of s appears.
Reconfigure(s) ==
  /\ Version(s) < MaxChanges
  /\ changedAt' = [changedAt EXCEPT ![s] = Append(@, clock)]

Tick ==
  /\ clock < MaxClock
  /\ clock' = clock + 1
  /\ UNCHANGED <<installed, changedAt, cacheVars, cancellation, pc, loopVars,
                 queryVars, result>>

ExternalChange(s) ==
  /\ s \in installed
  /\ Reconfigure(s)
  /\ UNCHANGED <<installed, clock, cacheVars, cancellation, pc, loopVars,
                 queryVars, result>>

Uninstall(s) ==
  /\ s \in installed
  /\ installed' = installed \ {s}
  /\ UNCHANGED <<changedAt, clock, cacheVars, cancellation, pc, loopVars,
                 queryVars, result>>

Install(s) ==
  /\ s \notin installed
  /\ installed' = installed \cup {s}
  /\ Reconfigure(s)
  /\ UNCHANGED <<clock, cacheVars, cancellation, pc, loopVars, queryVars, result>>

-----------------------------------------------------------------------------
(* ChangeStartupType, on the UI thread. A call that fails leaves no trace. *)

\* ChangeServiceConfigW succeeds; the lock is not taken yet.
ChangeServiceConfig(s) ==
  /\ change = None
  /\ s \in installed
  /\ Reconfigure(s)
  /\ change' = [service |-> s, version |-> Version(s) + 1]
  /\ UNCHANGED <<installed, clock, configCache, configCacheRevision, ownVersion,
                 cancellation, pc, loopVars, queryVars, result>>

\* Mutant of InvalidateConfig: the revision is not bumped.
InvalidateWithoutRevision ==
  /\ change # None
  /\ configCache' = [configCache EXCEPT ![change.service] = None]
  /\ ownVersion' = [ownVersion EXCEPT ![change.service] = change.version]
  /\ change' = None
  /\ UNCHANGED <<scmVars, configCacheRevision, cancellation, pc, loopVars,
                 queryVars, result>>

\* Under config_cache_mutex_: bump the revision, drop the entry.
InvalidateConfig ==
  /\ change # None
  /\ configCacheRevision' = configCacheRevision + 1
  /\ configCache' = [configCache EXCEPT ![change.service] = None]
  /\ ownVersion' = [ownVersion EXCEPT ![change.service] = change.version]
  /\ change' = None
  /\ UNCHANGED <<scmVars, cancellation, pc, loopVars, queryVars, result>>

-----------------------------------------------------------------------------
(* GetServicesSnapshot, on the worker thread.                              *)

NoResult == [s \in Services |-> None]

\* Locals of the loop's body and of the call, at the end of their scope.
NoQuery == service' = None /\ seenRevision' = 0 /\ config' = Default
NoLoop  == now' = 0 /\ names' = {} /\ todo' = {}

\* The call returns an empty list: it is cancelled before or while it
\* enumerates, or the SCM cannot be opened or enumerated.
SnapshotFails ==
  /\ pc = "idle"
  /\ pc' = "returned"
  /\ result' = NoResult
  /\ UNCHANGED <<scmVars, cacheVars, cancellation, loopVars, queryVars>>

\* The enumeration succeeds; now is read once for the whole call.
BeginSnapshot ==
  /\ pc = "idle"
  /\ ~cancellation
  /\ pc' = "scan"
  /\ now' = clock
  /\ names' = installed
  /\ todo' = installed
  /\ result' = NoResult
  /\ UNCHANGED <<scmVars, cacheVars, cancellation, queryVars>>

\* The item of s is complete and pushed to the result.
Push(s, c) ==
  /\ result' = [result EXCEPT ![s] = c]
  /\ todo' = todo \ {s}

\* Mutant of Fresh: an entry lives one tick too long.
FreshForTooLong(s) ==
  /\ configCache[s] # None
  /\ now - configCache[s].refreshedAt <= Lifetime

Fresh(s) ==
  /\ configCache[s] # None
  /\ now - configCache[s].refreshedAt < Lifetime

\* Mutant of Hit: the loop does not look at the flag before each service.
HitWithoutLook(s) ==
  /\ pc = "scan"
  /\ s \in todo
  /\ Fresh(s)
  /\ Push(s, configCache[s].version)
  /\ UNCHANGED <<scmVars, cacheVars, cancellation, pc, now, names, queryVars>>

\* One look at the cache under the lock: a live entry completes the item,
Hit(s) ==
  /\ pc = "scan"
  /\ ~cancellation
  /\ s \in todo
  /\ Fresh(s)
  /\ Push(s, configCache[s].version)
  /\ UNCHANGED <<scmVars, cacheVars, cancellation, pc, now, names, queryVars>>

\* a missing or expired one leaves the revision to compare with later.
Miss(s) ==
  /\ pc = "scan"
  /\ ~cancellation
  /\ s \in todo
  /\ ~Fresh(s)
  /\ pc' = "query"
  /\ service' = s
  /\ seenRevision' = configCacheRevision
  /\ UNCHANGED <<scmVars, cacheVars, cancellation, loopVars, config, result>>

\* Outside the lock: OpenServiceW and QueryServiceConfigW, which may fail.
Query ==
  /\ pc = "query"
  /\ pc' = "store"
  /\ \/ config' = Default
     \/ service \in installed /\ config' = Version(service)
  /\ UNCHANGED <<scmVars, cacheVars, cancellation, loopVars, service,
                 seenRevision, result>>

\* Mutant of Store: the answer enters the cache whatever happened since.
StoreUnconditionally ==
  /\ pc = "store"
  /\ pc' = "scan"
  /\ configCache' = [configCache EXCEPT
                      ![service] = [version |-> config, refreshedAt |-> now]]
  /\ Push(service, config)
  /\ NoQuery
  /\ UNCHANGED <<scmVars, configCacheRevision, change, ownVersion, cancellation,
                 now, names>>

\* Under the lock: the answer enters the cache unless the cache was
\* invalidated since Miss; the item takes it in any case.
Store ==
  /\ pc = "store"
  /\ pc' = "scan"
  /\ configCache' =
       IF seenRevision = configCacheRevision
         THEN [configCache EXCEPT
                 ![service] = [version |-> config, refreshedAt |-> now]]
         ELSE configCache
  /\ Push(service, config)
  /\ NoQuery
  /\ UNCHANGED <<scmVars, configCacheRevision, change, ownVersion, cancellation,
                 now, names>>

\* The loop sees the flag and leaves, without cleaning the cache.
CancelScan ==
  /\ pc = "scan"
  /\ cancellation
  /\ todo # {}
  /\ pc' = "returned"
  /\ UNCHANGED <<scmVars, cacheVars, cancellation, loopVars, queryVars, result>>

\* The loop ends; under the lock, entries of services not seen are erased.
FinishSnapshot ==
  /\ pc = "scan"
  /\ todo = {}
  /\ pc' = "returned"
  /\ configCache' = [s \in Services |-> IF s \in names THEN configCache[s] ELSE None]
  /\ UNCHANGED <<scmVars, configCacheRevision, change, ownVersion, cancellation,
                 loopVars, queryVars, result>>

\* The caller has taken the result.
Return ==
  /\ pc = "returned"
  /\ pc' = "idle"
  /\ NoLoop
  /\ result' = NoResult
  /\ UNCHANGED <<scmVars, cacheVars, cancellation, queryVars>>

\* The caller's owner gives the snapshot up.
Cancel ==
  /\ cancellation' = TRUE
  /\ UNCHANGED <<scmVars, cacheVars, pc, loopVars, queryVars, result>>

Environment ==
  \/ Tick
  \/ \E s \in Services : ExternalChange(s) \/ Uninstall(s) \/ Install(s)

ChangeStartupType == InvalidateConfig \/ \E s \in Services : ChangeServiceConfig(s)

GetServicesSnapshot ==
  \/ SnapshotFails \/ BeginSnapshot
  \/ \E s \in Services : Hit(s) \/ Miss(s)
  \/ Query \/ Store \/ CancelScan \/ FinishSnapshot

CacheNext ==
  \/ Environment
  \/ ChangeStartupType
  \/ GetServicesSnapshot
  \/ Return
  \/ Cancel

CacheSpec == CacheInit /\ [][CacheNext]_configVars

-----------------------------------------------------------------------------
(* Properties                                                              *)

\* Once ChangeStartupType has returned, no cache entry is older than the
\* change it made, although queries that started before it may still be on
\* their way to the cache (++config_cache_revision_ and the comparison in
\* GetServicesSnapshot).
CacheHoldsOwnChanges ==
  \A s \in Services :
    configCache[s] # None =>
      \/ configCache[s].version = Default
      \/ configCache[s].version >= ownVersion[s]

\* Other programs' changes bypass the invalidation: a snapshot taken at time
\* now may list a superseded configuration, but only one that was still
\* current within the last Lifetime (kConfigCacheLifetime).
NotSupersededBefore(s, v, t) == v < Version(s) => changedAt[s][v + 1] >= t

BoundedStaleness ==
  \A s \in Services :
    result[s] \in Nat => NotSupersededBefore(s, result[s], now - Lifetime + 1)
=============================================================================
