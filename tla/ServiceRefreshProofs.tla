------------------------ MODULE ServiceRefreshProofs ------------------------
(***************************************************************************)
(* Proofs about ServiceConfigCache and about ServiceRefresh, which uses    *)
(* it, for every set of services, lifetime, queue limit and bound.  Every  *)
(* step of the refresh is a step of the cache's protocol or leaves it      *)
(* alone, so that what holds of CacheSpec holds of Spec.                   *)
(***************************************************************************)
EXTENDS ServiceRefresh, TLAPS

(***************************************************************************)
(* The cache                                                               *)
(***************************************************************************)

\* A version that appears extends the history of its service.
LEMMA ReconfigureType ==
  ASSUME NEW s \in Services, changedAt \in [Services -> Seq(Nat)], clock \in Nat,
         Reconfigure(s)
  PROVE  changedAt' \in [Services -> Seq(Nat)]
<1>1. Append(changedAt[s], clock) \in Seq(Nat)
  OBVIOUS
<1>2. QED
  BY <1>1 DEF Reconfigure

\* Every step of the cache keeps its variables in their types.
LEMMA CacheTypeStep == CacheTypeOK /\ [CacheNext]_configVars => CacheTypeOK'
<1> SUFFICES ASSUME CacheTypeOK, [CacheNext]_configVars
             PROVE  CacheTypeOK'
  OBVIOUS
<1> USE ConfigAssumption
    DEF CacheTypeOK, Entries, Configs, Changes, Version
<1>1. CASE Tick
  BY <1>1 DEF Tick, cacheVars, loopVars, queryVars
<1>2. ASSUME NEW s \in Services, ExternalChange(s) \/ Uninstall(s) \/ Install(s)
      PROVE  CacheTypeOK'
  <2>1. changedAt' \in [Services -> Seq(Nat)]
    BY <1>2, ReconfigureType DEF ExternalChange, Uninstall, Install
  <2>2. UNCHANGED <<clock, configCache, configCacheRevision, change, ownVersion,
                    cancellation, pc, now, names, todo, service, seenRevision,
                    config, result>>
    BY <1>2 DEF ExternalChange, Uninstall, Install, cacheVars, loopVars, queryVars
  <2>3. installed' \in SUBSET Services
    BY <1>2 DEF ExternalChange, Uninstall, Install
  <2>4. QED
    BY <2>1, <2>2, <2>3
<1>3. ASSUME NEW s \in Services, ChangeServiceConfig(s)
      PROVE  CacheTypeOK'
  <2>1. changedAt' \in [Services -> Seq(Nat)]
    BY <1>3, ReconfigureType DEF ChangeServiceConfig
  <2>2. UNCHANGED <<installed, clock, configCache, configCacheRevision, ownVersion,
                    cancellation, pc, now, names, todo, service, seenRevision,
                    config, result>>
    BY <1>3 DEF ChangeServiceConfig, loopVars, queryVars
  <2>3. change' \in Changes
    <3>1. changedAt[s] \in Seq(Nat)
      OBVIOUS
    <3>2. change' = [service |-> s, version |-> Len(changedAt[s]) + 1]
      BY <1>3 DEF ChangeServiceConfig
    <3>3. QED
      BY <3>1, <3>2
  <2>4. QED
    BY <2>1, <2>2, <2>3
<1>4. CASE InvalidateConfig
  BY <1>4 DEF InvalidateConfig, scmVars, loopVars, queryVars
<1>5. CASE SnapshotFails \/ BeginSnapshot
  BY <1>5
    DEF SnapshotFails, BeginSnapshot, NoResult, scmVars, cacheVars, loopVars, queryVars
<1>6. ASSUME NEW s \in Services, Hit(s) \/ Miss(s)
      PROVE  CacheTypeOK'
  <2>1. CASE Hit(s)
    BY <2>1 DEF Hit, Fresh, Push, scmVars, cacheVars, queryVars
  <2>2. CASE Miss(s)
    BY <2>2 DEF Miss, scmVars, cacheVars, loopVars
  <2>3. QED
    BY <1>6, <2>1, <2>2
<1>7. CASE Query
  BY <1>7 DEF Query, scmVars, cacheVars, loopVars
<1>8. CASE Store
  BY <1>8 DEF Store, Push, NoQuery, scmVars
<1>9. CASE CancelScan \/ FinishSnapshot
  <2>1. configCache' \in [Services -> Entries \cup {None}]
    <3>1. configCache \in [Services -> Entries \cup {None}]
      BY Zenon DEF CacheTypeOK
    <3>2. CASE UNCHANGED configCache
      BY <3>1, <3>2, Zenon
    <3>3. CASE configCache' = [s \in Services |-> IF s \in names THEN configCache[s] ELSE None]
      BY <3>1, <3>3, Zenon
    <3>4. QED
      BY <1>9, <3>2, <3>3 DEF CancelScan, FinishSnapshot, cacheVars
  <2>2. QED
    BY <1>9, <2>1
      DEF CancelScan, FinishSnapshot, scmVars, cacheVars, loopVars, queryVars
<1>10. CASE Return
  <2>1. names' \in SUBSET Services /\ todo' \in SUBSET names' /\ now' \in Nat
    BY <1>10, Zenon DEF Return, NoLoop
  <2>2. QED
    BY <1>10, <2>1 DEF Return, NoResult, scmVars, cacheVars, queryVars
<1>11. CASE Cancel
  BY <1>11 DEF Cancel, scmVars, cacheVars, loopVars, queryVars
<1>12. CASE UNCHANGED configVars
  BY <1>12 DEF configVars, scmVars, cacheVars, loopVars, queryVars
<1>13. QED
  BY <1>1, <1>2, <1>3, <1>4, <1>5, <1>6, <1>7, <1>8, <1>9, <1>10, <1>11, <1>12
    DEF CacheNext, Environment, ChangeStartupType, GetServicesSnapshot

\* The initial values have their types.
LEMMA CacheInitType == CacheInit => CacheTypeOK
<1> SUFFICES ASSUME CacheInit PROVE CacheTypeOK
  OBVIOUS
<1>1. names \in SUBSET Services /\ todo \in SUBSET names /\ installed \in SUBSET Services
  BY Zenon DEF CacheInit
<1>2. changedAt \in [Services -> Seq(Nat)] /\ ownVersion \in [Services -> Nat]
  BY DEF CacheInit
<1>3. /\ configCache \in [Services -> Entries \cup {None}]
      /\ result \in [Services -> Configs \cup {None}]
  BY DEF CacheInit
<1>4. /\ clock \in Nat /\ configCacheRevision \in Nat /\ now \in Nat
      /\ seenRevision \in Nat /\ config \in Configs
      /\ change \in Changes \cup {None} /\ service \in Services \cup {None}
  BY DEF CacheInit, Configs
<1>5. /\ cancellation \in BOOLEAN
      /\ pc \in {"idle", "scan", "query", "store", "returned"}
      /\ pc \in {"query", "store"} => service \in todo
  BY DEF CacheInit
<1>6. QED
  BY <1>1, <1>2, <1>3, <1>4, <1>5, Zenon DEF CacheTypeOK

\* The variables of the cache keep their types.
THEOREM CacheTypeCorrect == CacheSpec => []CacheTypeOK
BY CacheInitType, CacheTypeStep, PTL DEF CacheSpec

-----------------------------------------------------------------------------
(* Own changes.  A query may be on its way when ChangeStartupType runs; it *)
(* is harmless because the revision it saw is no longer the current one.   *)

OwnChangesInv ==
  /\ CacheHoldsOwnChanges
  /\ \A s \in Services : ownVersion[s] <= Version(s)
  /\ change # None => change.version <= Version(change.service)
  /\ pc \in {"query", "store"} => seenRevision <= configCacheRevision
  /\ pc = "store" /\ config # Default /\ seenRevision = configCacheRevision
       => config >= ownVersion[service]

\* Versions only grow.
LEMMA VersionGrows ==
  ASSUME CacheTypeOK, [CacheNext]_configVars, NEW s \in Services
  PROVE  Version(s)' >= Version(s)
<1> USE DEF CacheTypeOK, Version
<1>1. ASSUME NEW x \in Services, Reconfigure(x)
      PROVE  Version(s)' >= Version(s)
  <2>1. /\ changedAt[s] \in Seq(Nat)
        /\ Len(Append(changedAt[s], clock)) = Len(changedAt[s]) + 1
        /\ Len(changedAt[s]) \in Nat
    OBVIOUS
  <2>2. changedAt'[s] = changedAt[s] \/ changedAt'[s] = Append(changedAt[s], clock)
    BY <1>1 DEF Reconfigure
  <2>3. QED
    BY <2>1, <2>2
<1>2. ASSUME UNCHANGED changedAt
      PROVE  Version(s)' >= Version(s)
  <2>1. Len(changedAt[s]) \in Nat
    OBVIOUS
  <2>2. QED
    BY <1>2, <2>1
<1>3. (\E x \in Services : Reconfigure(x)) \/ UNCHANGED changedAt
  BY DEF CacheNext, Environment, ChangeStartupType, GetServicesSnapshot, Tick,
         ExternalChange, Uninstall, Install, ChangeServiceConfig, InvalidateConfig,
         SnapshotFails, BeginSnapshot, Hit, Miss, Query, Store, CancelScan,
         FinishSnapshot, Return, Cancel, configVars, scmVars
<1>4. QED
  BY <1>1, <1>2, <1>3

LEMMA OwnChangesStep ==
  CacheTypeOK /\ CacheTypeOK' /\ OwnChangesInv /\ [CacheNext]_configVars
    => OwnChangesInv'
<1> SUFFICES ASSUME CacheTypeOK, CacheTypeOK', OwnChangesInv,
                    [CacheNext]_configVars
             PROVE  OwnChangesInv'
  OBVIOUS
<1> USE ConfigAssumption DEF OwnChangesInv, CacheHoldsOwnChanges
<1>1. \A s \in Services : /\ Version(s) \in Nat
                          /\ Version(s)' \in Nat
                          /\ Version(s)' >= Version(s)
  <2>1. changedAt \in [Services -> Seq(Nat)] /\ changedAt' \in [Services -> Seq(Nat)]
    BY DEF CacheTypeOK
  <2>2. \A s \in Services : Version(s)' >= Version(s)
    BY VersionGrows
  <2>3. QED
    BY <2>1, <2>2 DEF Version
<1>2. ASSUME UNCHANGED <<configCache, configCacheRevision, ownVersion, change>>,
             pc' \in {"query", "store"} =>
               UNCHANGED <<pc, service, seenRevision, config>>
      PROVE  OwnChangesInv'
  <2>1. \A s \in Services : ownVersion'[s] <= Version(s)'
    BY <1>1, <1>2 DEF CacheTypeOK
  <2>2. change' # None => change'.version <= Version(change.service)'
    BY <1>1, <1>2 DEF CacheTypeOK, Changes
  <2>3. QED
    BY <2>1, <2>2, <1>2
<1>3. CASE Environment \/ SnapshotFails \/ BeginSnapshot \/ CancelScan \/ Return
           \/ Cancel \/ UNCHANGED configVars
  BY <1>2, <1>3
    DEF Environment, Tick, ExternalChange, Uninstall, Install, SnapshotFails,
        BeginSnapshot, CancelScan, Return, Cancel, configVars, cacheVars, queryVars
<1>4. ASSUME NEW s \in Services, Hit(s)
      PROVE  OwnChangesInv'
  BY <1>2, <1>4 DEF Hit, cacheVars
<1>5. ASSUME NEW s \in Services, ChangeServiceConfig(s)
      PROVE  OwnChangesInv'
  <2>1. \A x \in Services : ownVersion'[x] <= Version(x)'
    <3>1. ownVersion' = ownVersion
      BY <1>5 DEF ChangeServiceConfig
    <3>2. ownVersion \in [Services -> Nat]
      BY DEF CacheTypeOK
    <3>3. \A x \in Services : ownVersion[x] <= Version(x)
      OBVIOUS
    <3> HIDE DEF OwnChangesInv, CacheHoldsOwnChanges
    <3>4. QED
      BY <1>1, <3>1, <3>2, <3>3
  <2>2. change'.version = Version(s)'
    BY <1>5 DEF ChangeServiceConfig, Reconfigure, CacheTypeOK, Version
  <2>3. QED
    BY <1>1, <1>5, <2>1, <2>2 DEF ChangeServiceConfig, queryVars
<1>6. CASE InvalidateConfig
  <2>1. change.service \in Services /\ change.version \in Nat
    BY <1>6 DEF InvalidateConfig, CacheTypeOK
  <2>2. \A x \in Services : ownVersion'[x] <= Version(x)'
    <3>1. ownVersion' = [ownVersion EXCEPT ![change.service] = change.version]
      BY <1>6 DEF InvalidateConfig
    <3>2. change.version <= Version(change.service)
      BY <1>6 DEF InvalidateConfig
    <3>3. ASSUME NEW x \in Services
          PROVE  ownVersion'[x] <= Version(x)
      <4>1. CASE x = change.service
        BY <3>1, <3>2
      <4>2. CASE x # change.service
        BY <3>1, <4>2 DEF CacheTypeOK
      <4>3. QED
        BY <4>1, <4>2
    <3>4. ASSUME NEW x \in Services
          PROVE  ownVersion'[x] \in Nat
      BY <2>1, <3>1 DEF CacheTypeOK
    <3>5. QED
      BY <1>1, <3>3, <3>4
  <2>3. CacheHoldsOwnChanges'
    BY <1>6 DEF InvalidateConfig, CacheTypeOK
  <2>4. pc' \in {"query", "store"} => seenRevision' < configCacheRevision'
    BY <1>6 DEF InvalidateConfig, queryVars, CacheTypeOK
  <2>5. QED
    BY <1>6, <2>2, <2>4 DEF InvalidateConfig, CacheTypeOK
<1>7. ASSUME NEW s \in Services, Miss(s)
      PROVE  OwnChangesInv'
  BY <1>7 DEF Miss, cacheVars, scmVars, CacheTypeOK, Version
<1>8. CASE Query
  <2>1. service \in Services
    BY <1>8 DEF Query, CacheTypeOK
  <2>2. config' # Default => config' >= ownVersion'[service']
    BY <1>8 DEF Query, cacheVars, CacheTypeOK
  <2>3. QED
    BY <1>8 DEF Query, cacheVars, scmVars, CacheTypeOK, Version
<1>9. CASE Store
  <2>1. service \in Services
    BY <1>9 DEF Store, CacheTypeOK
  <2>2. CacheHoldsOwnChanges'
    BY <1>9 DEF Store
  <2>3. QED
    BY <1>9 DEF Store, scmVars, Version
<1>10. CASE FinishSnapshot
  <2>1. CacheHoldsOwnChanges'
    BY <1>10 DEF FinishSnapshot, CacheTypeOK
  <2>2. QED
    BY <1>10 DEF FinishSnapshot, scmVars, Version
<1>11. QED
  BY <1>3, <1>4, <1>5, <1>6, <1>7, <1>8, <1>9, <1>10
    DEF CacheNext, ChangeStartupType, GetServicesSnapshot

\* No cache entry is older than a completed ChangeStartupType.
THEOREM OwnChangesKept == CacheSpec => []CacheHoldsOwnChanges
<1>1. CacheInit => OwnChangesInv
  BY DEF CacheInit, OwnChangesInv, CacheHoldsOwnChanges, Version
<1>2. QED
  BY <1>1, CacheTypeCorrect, OwnChangesStep, PTL DEF CacheSpec, OwnChangesInv

-----------------------------------------------------------------------------
(* Changes of other programs.  Cache entries and answers on their way are  *)
(* stamped with a time at which they were current; a version can only be   *)
(* superseded at the present time, which no stamp is ahead of.             *)

\* In the histories h, version v of s was not superseded before time t.
CurrentAt(h, s, v, t) ==
  /\ v <= Len(h[s])
  /\ v < Len(h[s]) => h[s][v + 1] >= t

StalenessInv ==
  /\ now <= clock
  /\ \A s \in Services :
       configCache[s] # None =>
         /\ configCache[s].refreshedAt <= clock
         /\ configCache[s].version # Default =>
              CurrentAt(changedAt, s, configCache[s].version,
                        configCache[s].refreshedAt)
  /\ pc = "store" /\ config # Default => CurrentAt(changedAt, service, config, now)
  /\ \A s \in Services :
       result[s] \in Nat => CurrentAt(changedAt, s, result[s], now - Lifetime + 1)

\* The earliest refresh a snapshot still trusts is before the snapshot.
LEMMA WindowStart ==
  ASSUME CacheTypeOK
  PROVE  now \in Int /\ now - Lifetime + 1 \in Int /\ now - Lifetime + 1 <= now
BY ConfigAssumption DEF CacheTypeOK

\* Not superseded before t is not superseded before anything earlier.
LEMMA CurrentEarlier ==
  ASSUME CacheTypeOK
  PROVE  \A s \in Services, v \in Nat, t, u \in Int :
           CurrentAt(changedAt, s, v, t) /\ u <= t => CurrentAt(changedAt, s, v, u)
<1> SUFFICES ASSUME NEW s \in Services, NEW v \in Nat, NEW t \in Int, NEW u \in Int,
                    CurrentAt(changedAt, s, v, t), u <= t, v < Len(changedAt[s])
             PROVE  changedAt[s][v + 1] >= u
  BY DEF CurrentAt
<1>1. changedAt[s] \in Seq(Nat) /\ Len(changedAt[s]) \in Nat
  BY DEF CacheTypeOK
<1>2. changedAt[s][v + 1] \in Nat
  BY <1>1
<1>3. QED
  BY <1>2 DEF CurrentAt

\* What was current at a past time stays so in every step.
LEMMA CurrentKept ==
  ASSUME CacheTypeOK, [CacheNext]_configVars
  PROVE  \A s \in Services, v \in Nat, t \in Int :
           t <= clock /\ CurrentAt(changedAt, s, v, t) => CurrentAt(changedAt', s, v, t)
<1>0. changedAt \in [Services -> Seq(Nat)] /\ clock \in Nat
  BY DEF CacheTypeOK
<1>1. ASSUME NEW x \in Services, Reconfigure(x), NEW s \in Services, NEW v \in Nat,
             NEW t \in Int, t <= clock, CurrentAt(changedAt, s, v, t)
      PROVE  CurrentAt(changedAt', s, v, t)
  <2>1. changedAt[s] \in Seq(Nat) /\ Len(changedAt[s]) \in Nat
    BY <1>0
  <2>2. CASE changedAt'[s] = Append(changedAt[s], clock)
    <3>1. /\ Len(changedAt'[s]) = Len(changedAt[s]) + 1
          /\ changedAt'[s][Len(changedAt[s]) + 1] = clock
          /\ \A i \in 1..Len(changedAt[s]) : changedAt'[s][i] = changedAt[s][i]
      BY <1>0, <2>1, <2>2
    <3>2. CASE v = Len(changedAt[s])
      BY <1>1, <3>1, <3>2 DEF CurrentAt
    <3>3. CASE v < Len(changedAt[s])
      <4>1. v + 1 \in 1..Len(changedAt[s])
        BY <2>1, <3>3
      <4>2. changedAt[s][v + 1] >= t
        BY <1>1, <3>3 DEF CurrentAt
      <4>3. changedAt'[s][v + 1] >= t
        BY <3>1, <4>1, <4>2
      <4>4. QED
        BY <2>1, <3>1, <3>3, <4>3 DEF CurrentAt
    <3>4. QED
      BY <1>1, <2>1, <3>2, <3>3 DEF CurrentAt
  <2>3. CASE changedAt'[s] = changedAt[s]
    BY <1>1, <2>3 DEF CurrentAt
  <2>4. changedAt' = [changedAt EXCEPT ![x] = Append(@, clock)]
    BY <1>1 DEF Reconfigure
  <2>5. QED
    BY <1>0, <2>2, <2>3, <2>4
<1>2. (\E x \in Services : Reconfigure(x)) \/ UNCHANGED changedAt
  BY DEF CacheNext, Environment, ChangeStartupType, GetServicesSnapshot, Tick,
         ExternalChange, Uninstall, Install, ChangeServiceConfig, InvalidateConfig,
         SnapshotFails, BeginSnapshot, Hit, Miss, Query, Store, CancelScan,
         FinishSnapshot, Return, Cancel, configVars, scmVars
<1>3. QED
  BY <1>1, <1>2 DEF CurrentAt

LEMMA StalenessStep ==
  CacheTypeOK /\ CacheTypeOK' /\ StalenessInv /\ [CacheNext]_configVars
    => StalenessInv'
<1> SUFFICES ASSUME CacheTypeOK, CacheTypeOK', StalenessInv, [CacheNext]_configVars
             PROVE  StalenessInv'
  OBVIOUS
<1>a. \A s \in Services, v \in Nat, t, u \in Int :
        CurrentAt(changedAt, s, v, t) /\ u <= t => CurrentAt(changedAt, s, v, u)
  BY CurrentEarlier
<1>b. \A s \in Services, v \in Nat, t \in Int :
        t <= clock /\ CurrentAt(changedAt, s, v, t) => CurrentAt(changedAt', s, v, t)
  BY CurrentKept
<1>c. now \in Int /\ now - Lifetime + 1 \in Int /\ now - Lifetime + 1 <= now
  BY WindowStart
<1>d. \A s \in Services, v \in Nat :
        CurrentAt(changedAt, s, v, now) => CurrentAt(changedAt, s, v, now - Lifetime + 1)
  BY <1>a, <1>c
<1> USE ConfigAssumption DEF StalenessInv, CacheTypeOK, Configs, Entries
<1>1. clock' >= clock
  BY DEF CacheNext, Environment, ChangeStartupType, GetServicesSnapshot, Tick,
         ExternalChange, Uninstall, Install, ChangeServiceConfig, InvalidateConfig,
         SnapshotFails, BeginSnapshot, Hit, Miss, Query, Store, CancelScan,
         FinishSnapshot, Return, Cancel, configVars, scmVars
\* A cache entry that stays where it is.
<1>2. ASSUME NEW s \in Services, configCache'[s] = configCache[s],
             configCache'[s] # None
      PROVE  /\ configCache'[s].refreshedAt <= clock'
             /\ configCache'[s].version # Default =>
                  CurrentAt(changedAt', s, configCache'[s].version,
                            configCache'[s].refreshedAt)
  <2>1. /\ configCache[s].refreshedAt \in Nat
        /\ configCache[s].version \in Configs
        /\ configCache[s].refreshedAt <= clock
    BY <1>2
  <2>2. ASSUME configCache[s].version # Default
        PROVE  CurrentAt(changedAt', s, configCache[s].version,
                         configCache[s].refreshedAt)
    <3> DEFINE v == configCache[s].version
               t == configCache[s].refreshedAt
    <3>1. v \in Nat /\ t \in Int /\ t <= clock
      BY <2>1, <2>2
    <3>2. CurrentAt(changedAt, s, v, t)
      BY <1>2, <2>2
    <3> HIDE DEF v, t
    <3>3. CurrentAt(changedAt', s, v, t)
      BY <3>1, <3>2, <1>b
    <3>4. QED
      BY <3>3 DEF v, t
  <2>3. QED
    BY <1>1, <1>2, <2>2
\* An item of the result that stays where it is.
<1>3. ASSUME NEW s \in Services, UNCHANGED now, result'[s] = result[s],
             result'[s] \in Nat
      PROVE  CurrentAt(changedAt', s, result'[s], now' - Lifetime + 1)
  <2>1. now - Lifetime + 1 \in Int /\ now - Lifetime + 1 <= clock
    OBVIOUS
  <2>2. QED
    BY <1>3, <2>1, <1>b
\* Steps that leave the snapshot and the cache alone, whatever they do to
\* the services and the clock.
<1>4. ASSUME UNCHANGED <<configCache, pc, now, service, config, result>>
      PROVE  StalenessInv'
  <2>1. pc' = "store" /\ config' # Default
          => CurrentAt(changedAt', service', config', now')
    <3> SUFFICES ASSUME pc = "store", config # Default
                 PROVE  CurrentAt(changedAt', service, config, now)
      BY <1>4
    <3>1. service \in Services /\ config \in Nat /\ now \in Int /\ now <= clock
      OBVIOUS
    <3>2. CurrentAt(changedAt, service, config, now)
      OBVIOUS
    <3>3. QED
      BY <3>1, <3>2, <1>b, Zenon
  <2>2. now' <= clock'
    BY <1>1, <1>4
  <2>3. QED
    BY <1>2, <1>3, <1>4, <2>1, <2>2
<1>5. CASE \/ Environment \/ Cancel \/ UNCHANGED configVars
           \/ \E s \in Services : ChangeServiceConfig(s)
  BY <1>4, <1>5
    DEF Environment, Tick, ExternalChange, Uninstall, Install, Cancel,
        ChangeServiceConfig, configVars, cacheVars, loopVars, queryVars
<1>6. CASE InvalidateConfig
  <2>1. UNCHANGED <<scmVars, pc, loopVars, queryVars, result>>
    BY <1>6 DEF InvalidateConfig
  <2>2. \A s \in Services : configCache'[s] # None => configCache'[s] = configCache[s]
    BY <1>6 DEF InvalidateConfig
  <2>3. QED
    BY <2>1, <2>2 DEF scmVars, loopVars, queryVars
<1>7. CASE SnapshotFails \/ BeginSnapshot \/ Return
  <2>1. UNCHANGED <<scmVars, configCache>> /\ pc' # "store" /\ now' <= clock'
    BY <1>7
      DEF SnapshotFails, BeginSnapshot, Return, NoLoop, cacheVars, scmVars, loopVars
  <2>2. \A s \in Services : result'[s] = None
    BY <1>7 DEF SnapshotFails, BeginSnapshot, Return, NoResult
  <2>3. QED
    BY <1>2, <2>1, <2>2
<1>8. ASSUME NEW s \in Services, Hit(s)
      PROVE  StalenessInv'
  <2>1. UNCHANGED <<scmVars, configCache, pc, now, service, config>>
    BY <1>8 DEF Hit, cacheVars, queryVars
  <2>2. /\ configCache[s] \in Entries
        /\ now - Lifetime + 1 <= configCache[s].refreshedAt
        /\ result' = [result EXCEPT ![s] = configCache[s].version]
    BY <1>8 DEF Hit, Fresh, Push
  <2>3. result'[s] \in Nat => CurrentAt(changedAt', s, result'[s], now' - Lifetime + 1)
    <3>1. CASE configCache[s].version = Default
      BY <2>2, <3>1
    <3>2. CASE configCache[s].version \in Nat
      <4> DEFINE v == configCache[s].version
                 t == configCache[s].refreshedAt
                 u == now - Lifetime + 1
      <4>1. v \in Nat /\ t \in Int /\ u \in Int /\ u <= t
        BY <2>2, <3>2
      <4>2. CurrentAt(changedAt, s, v, t)
        BY <1>8, <3>2 DEF Hit, Fresh
      <4> HIDE DEF v, t, u
      <4>3. CurrentAt(changedAt, s, v, u)
        BY <4>1, <4>2, <1>a
      <4>4. result'[s] = v /\ now' - Lifetime + 1 = u /\ changedAt' = changedAt
        BY <2>1, <2>2 DEF v, u, scmVars
      <4>5. QED
        BY <4>3, <4>4
    <3>3. QED
      BY <2>2, <3>1, <3>2
  <2>4. \A x \in Services \ {s} : result'[x] = result[x]
    BY <2>2
  <2>5. QED
    BY <2>1, <2>3, <2>4 DEF scmVars
<1>9. ASSUME NEW s \in Services, Miss(s)
      PROVE  StalenessInv'
  BY <1>9 DEF Miss, scmVars, cacheVars, loopVars
<1>10. CASE Query
  <2>1. UNCHANGED <<scmVars, configCache, now, service, result>>
    BY <1>10 DEF Query, cacheVars, loopVars
  <2>2. config' # Default => config' = Len(changedAt[service])
    BY <1>10 DEF Query, Version
  <2>3. QED
    BY <2>1, <2>2 DEF scmVars, CurrentAt
<1>11. CASE Store
  <2>1. UNCHANGED <<scmVars, now>> /\ pc' = "scan" /\ pc = "store"
    BY <1>11 DEF Store
  <2>2. service \in Services /\ result' = [result EXCEPT ![service] = config]
    BY <1>11 DEF Store, Push
  <2>3. config \in Nat => CurrentAt(changedAt, service, config, now - Lifetime + 1)
    <3>1. config \in Nat => CurrentAt(changedAt, service, config, now)
      BY <2>1
    <3>2. QED
      BY <1>d, <2>2, <3>1, Zenon
  <2>4. ASSUME NEW s \in Services, result'[s] \in Nat
        PROVE  CurrentAt(changedAt', s, result'[s], now' - Lifetime + 1)
    <3>1. UNCHANGED <<changedAt, now>>
      BY <2>1 DEF scmVars
    <3>2. CASE s = service
      <4>1. result'[s] = config
        BY <2>2, <3>2
      <4>2. QED
        BY <2>3, <2>4, <3>1, <3>2, <4>1, Zenon
    <3>3. CASE s # service
      <4>1. result'[s] = result[s]
        BY <2>2, <3>3
      <4>2. CurrentAt(changedAt, s, result[s], now - Lifetime + 1)
        BY <2>4, <4>1
      <4>3. QED
        BY <3>1, <4>1, <4>2, Zenon
    <3>4. QED
      BY <3>2, <3>3
  <2>5. ASSUME NEW s \in Services, configCache'[s] # configCache[s]
        PROVE  s = service /\ configCache'[s] = [version |-> config, refreshedAt |-> now]
    BY <1>11, <2>5 DEF Store
  <2>6. UNCHANGED <<clock, now, changedAt>>
    BY <2>1 DEF scmVars
  <2>7. ASSUME NEW s \in Services, configCache'[s] # None
        PROVE  /\ configCache'[s].refreshedAt <= clock'
               /\ configCache'[s].version # Default =>
                    CurrentAt(changedAt', s, configCache'[s].version,
                              configCache'[s].refreshedAt)
    <3>1. CASE configCache'[s] = configCache[s]
      BY <1>2, <2>7, <3>1
    <3>2. CASE configCache'[s] # configCache[s]
      BY <2>1, <2>5, <2>6, <3>2
    <3>3. QED
      BY <3>1, <3>2
  <2>8. QED
    BY <2>1, <2>4, <2>6, <2>7
<1>12. CASE CancelScan \/ FinishSnapshot
  <2>1. UNCHANGED <<scmVars, now, result>> /\ pc' = "returned"
    BY <1>12 DEF CancelScan, FinishSnapshot, loopVars
  <2>2. \A s \in Services : configCache'[s] # None => configCache'[s] = configCache[s]
    BY <1>12 DEF CancelScan, FinishSnapshot, cacheVars
  <2>3. QED
    BY <2>1, <2>2 DEF scmVars
<1>13. QED
  BY <1>5, <1>6, <1>7, <1>8, <1>9, <1>10, <1>11, <1>12
    DEF CacheNext, ChangeStartupType, GetServicesSnapshot

\* A snapshot lists no configuration superseded more than Lifetime ago.
THEOREM StalenessBounded == CacheSpec => []BoundedStaleness
<1>1. CacheInit => StalenessInv
  BY ConfigAssumption DEF CacheInit, StalenessInv
<1>2. StalenessInv => BoundedStaleness
  BY DEF StalenessInv, BoundedStaleness, NotSupersededBefore, CurrentAt, Version
<1>3. QED
  BY <1>1, <1>2, CacheTypeCorrect, StalenessStep, PTL DEF CacheSpec

(***************************************************************************)
(* The refresh                                                             *)
(***************************************************************************)

\* The actions of ServiceRefresh act on the cache as ServiceConfigCache does.
LEMMA RefreshIsCacheStep == [Next]_vars => [CacheNext]_configVars
BY DEF Next, Ui, Worker, ChangeInScm, ChangeInCache, RequestRefresh, NotifyRequest,
       HandleSnapshot, StopWorker, NotifyStop, JoinWorker, DrainMessages, TakeRequest,
       SpuriousWakeup, SnapshotStep, CheckCancellation, PostSnapshot, OtherPrograms,
       CacheNext, ChangeStartupType, vars

\* Hence it implements the protocol of the cache.
THEOREM RefreshImplementsCache == Spec => CacheSpec
BY RefreshIsCacheStep, PTL DEF Spec, CacheSpec, Init

LEMMA TypeStep == TypeOK /\ [Next]_vars => TypeOK'
<1> SUFFICES ASSUME TypeOK, [Next]_vars
             PROVE  TypeOK'
  OBVIOUS
<1>1. CacheTypeOK'
  BY RefreshIsCacheStep, CacheTypeStep DEF TypeOK
<1> USE <1>1 DEF TypeOK
<1>2. CASE ChangeInScm \/ ChangeInCache \/ NotifyRequest \/ NotifyStop \/ JoinWorker
           \/ SpuriousWakeup \/ SnapshotStep \/ CheckCancellation \/ OtherPrograms
           \/ UNCHANGED vars
  BY <1>2
    DEF ChangeInScm, ChangeInCache, NotifyRequest, NotifyStop, JoinWorker,
        SpuriousWakeup, SnapshotStep, CheckCancellation, OtherPrograms, WakeWorker,
        vars, uiVars, sharedVars
<1>3. CASE RequestRefresh
  <2>1. floor' \in Seq([Services -> Nat])
    BY <1>3 DEF RequestRefresh, CacheTypeOK
  <2>2. QED
    BY <1>3, <2>1 DEF RequestRefresh, uiVars
<1>4. CASE HandleSnapshot
  <2>1. Head(posted) \in Messages /\ Tail(posted) \in Seq(Messages)
    BY <1>4 DEF HandleSnapshot
  <2>2. QED
    BY <1>4, <2>1 DEF HandleSnapshot, Messages, uiVars, sharedVars
<1>5. CASE StopWorker
  BY <1>5 DEF StopWorker, uiVars
<1>6. CASE DrainMessages
  <2>1. <<>> \in Seq(Messages)
    OBVIOUS
  <2>2. posted' \in Seq(Messages)
    BY <1>6, <2>1 DEF DrainMessages
  <2>3. QED
    BY <1>6 DEF DrainMessages, uiVars, sharedVars
<1>7. CASE TakeRequest
  BY <1>7 DEF TakeRequest, uiVars
<1>8. CASE PostSnapshot
  <2>1. [generation |-> generation, services |-> result] \in Messages
    BY DEF Messages, Lists, CacheTypeOK
  <2>2. posted' \in Seq(Messages)
    BY <1>8, <2>1 DEF PostSnapshot
  <2>3. QED
    BY <1>8, <2>2 DEF PostSnapshot, uiVars, sharedVars
<1>9. QED
  BY <1>2, <1>3, <1>4, <1>5, <1>6, <1>7, <1>8 DEF Next, Ui, Worker

\* The variables of the refresh keep their types.
THEOREM TypeCorrect == Spec => []TypeOK
<1>1. Init => CacheTypeOK
  BY CacheInitType DEF Init
<1>2. ASSUME Init PROVE TypeOK
  <2>1. posted \in Seq(Messages) /\ floor \in Seq([Services -> Nat])
    BY <1>2 DEF Init
  <2>2. allServices \in Lists
    BY <1>2 DEF Init, Lists, NoResult
  <2>3. QED
    BY <1>1, <1>2, <2>1, <2>2 DEF Init, TypeOK
<1>3. QED
  BY <1>2, TypeStep, PTL DEF Spec

-----------------------------------------------------------------------------
(* The list on screen answers its request.  Whatever the worker holds for  *)
(* request g - an answer of the SCM, a result, a message - was current     *)
(* after the changes floor[g] records: the cache kept them, or the SCM was *)
(* asked after request g was taken.                                        *)

Busy == workerPc \in {"snapshot", "post"}

Answers(list, g) == \A s \in Services : list[s] \in Nat => list[s] >= floor[g][s]

FloorInv ==
  /\ Len(floor) = requestedGeneration
  /\ \A g \in 1..requestedGeneration : \A s \in Services : floor[g][s] <= ownVersion[s]
  /\ change # None => ownVersion[change.service] < change.version

WorkerInv ==
  /\ requested => requestedGeneration > 0
  /\ Busy => generation \in 1..requestedGeneration /\ Answers(result, generation)
  /\ Busy /\ pc = "store" /\ config \in Nat => config >= floor[generation][service]
  /\ ~Busy => pc = "idle" /\ \A s \in Services : result[s] = None

DisplayInv ==
  /\ \A i \in 1..Len(posted) :
       /\ posted[i].generation \in 1..requestedGeneration
       /\ Answers(posted[i].services, posted[i].generation)
  /\ appliedGeneration \in 0..requestedGeneration
  /\ appliedGeneration > 0 => Answers(allServices, appliedGeneration)

\* Only ChangeInScm, ChangeInCache and RequestRefresh touch these.
LEMMA FloorStep ==
  TypeOK /\ TypeOK' /\ OwnChangesInv /\ FloorInv /\ [Next]_vars => FloorInv'
<1> SUFFICES ASSUME TypeOK, TypeOK', OwnChangesInv, FloorInv, [Next]_vars
             PROVE  FloorInv'
  OBVIOUS
<1>a. /\ floor \in Seq([Services -> Nat]) /\ floor' \in Seq([Services -> Nat])
      /\ ownVersion \in [Services -> Nat] /\ ownVersion' \in [Services -> Nat]
      /\ requestedGeneration \in Nat
  BY DEF TypeOK, CacheTypeOK
<1>b. change # None => change.service \in Services /\ change.version \in Nat
  BY DEF TypeOK, CacheTypeOK, Changes
<1> HIDE DEF TypeOK
<1> USE <1>a, <1>b DEF FloorInv
<1>1. CASE ChangeInScm
  <2>1. PICK s \in Services : ChangeServiceConfig(s)
    BY <1>1 DEF ChangeInScm
  <2>2. /\ UNCHANGED <<floor, requestedGeneration, ownVersion>>
        /\ change' = [service |-> s, version |-> Version(s) + 1]
    BY <1>1, <2>1 DEF ChangeInScm, ChangeServiceConfig, sharedVars
  <2>3. ownVersion[s] <= Version(s) /\ Version(s) \in Nat
    BY DEF OwnChangesInv, Version
  <2>4. QED
    BY <2>2, <2>3
<1>2. CASE ChangeInCache
  <2>1. change.service \in Services /\ change.version \in Nat
    BY <1>2 DEF ChangeInCache, InvalidateConfig
  <2>2. /\ UNCHANGED <<floor, requestedGeneration>>
        /\ change' = None
        /\ ownVersion' = [ownVersion EXCEPT ![change.service] = change.version]
        /\ ownVersion[change.service] < change.version
    BY <1>2 DEF ChangeInCache, InvalidateConfig, sharedVars
  <2>3. \A s \in Services : ownVersion[s] <= ownVersion'[s]
    BY <2>1, <2>2
  <2>4. \A g \in 1..requestedGeneration : floor[g] \in [Services -> Nat]
    OBVIOUS
  <2>5. \A g \in 1..requestedGeneration : \A s \in Services : floor[g][s] <= ownVersion'[s]
    BY <2>2, <2>3, <2>4
  <2>6. QED
    BY <2>2, <2>5
<1>3. CASE RequestRefresh
  <2>1. /\ floor' = Append(floor, ownVersion)
        /\ requestedGeneration' = requestedGeneration + 1
        /\ UNCHANGED <<ownVersion, change>>
    BY <1>3 DEF RequestRefresh, configVars, cacheVars
  <2>2. /\ Len(floor') = Len(floor) + 1
        /\ floor'[Len(floor) + 1] = ownVersion
        /\ \A g \in 1..Len(floor) : floor'[g] = floor[g]
    BY <2>1
  <2>3. \A g \in 1..requestedGeneration' : \A s \in Services : floor'[g][s] <= ownVersion'[s]
    BY <2>1, <2>2
  <2>4. QED
    BY <2>1, <2>2, <2>3
<1>4. CASE UNCHANGED <<floor, requestedGeneration, ownVersion, change>>
  BY <1>4
<1>5. QED
  BY <1>1, <1>2, <1>3
    DEF Next, Ui, Worker, NotifyRequest, HandleSnapshot, StopWorker, NotifyStop,
        JoinWorker, DrainMessages, TakeRequest, SpuriousWakeup, SnapshotStep,
        CheckCancellation, PostSnapshot, OtherPrograms, GetServicesSnapshot,
        SnapshotFails, BeginSnapshot, Hit, Miss, Query, Store, CancelScan,
        FinishSnapshot, Return, Cancel, Environment, Tick, ExternalChange, Uninstall,
        Install, vars, configVars, cacheVars, sharedVars

\* A request already made keeps its floor.
LEMMA AnswersKept ==
  ASSUME TypeOK, FloorInv, [Next]_vars
  PROVE  /\ requestedGeneration' >= requestedGeneration
         /\ \A g \in 1..requestedGeneration : floor'[g] = floor[g]
<1> USE DEF FloorInv, TypeOK
<1>1. CASE RequestRefresh
  BY <1>1 DEF RequestRefresh
<1>2. CASE UNCHANGED <<floor, requestedGeneration>>
  BY <1>2
<1>3. QED
  BY <1>1
    DEF Next, Ui, Worker, ChangeInScm, ChangeInCache, NotifyRequest, HandleSnapshot,
        StopWorker, NotifyStop, JoinWorker, DrainMessages, TakeRequest, SpuriousWakeup,
        SnapshotStep, CheckCancellation, PostSnapshot, OtherPrograms, vars, sharedVars

\* Whatever is read from the SCM or from a live cache entry is at least as
\* recent as the own changes recorded for any request already made.
LEMMA AnswersStep ==
  ASSUME TypeOK, OwnChangesInv, FloorInv, [Next]_vars, NEW s \in Services,
         NEW g \in 1..requestedGeneration
  PROVE  /\ Version(s) >= floor'[g][s]
         /\ configCache[s] # None /\ configCache[s].version \in Nat
              => configCache[s].version >= floor'[g][s]
<1>1. floor'[g] = floor[g] /\ floor[g][s] <= ownVersion[s]
  BY AnswersKept DEF FloorInv
<1>2. floor[g] \in [Services -> Nat] /\ ownVersion \in [Services -> Nat]
  <2>1. floor \in Seq([Services -> Nat]) /\ ownVersion \in [Services -> Nat]
    BY DEF TypeOK, CacheTypeOK
  <2>2. g \in 1..Len(floor)
    BY DEF FloorInv
  <2>3. QED
    BY <2>1, <2>2
<1>3. Version(s) \in Nat /\ Version(s) >= ownVersion[s]
  BY DEF OwnChangesInv, Version
<1>4. configCache[s] # None /\ configCache[s].version \in Nat
        => configCache[s].version >= ownVersion[s]
  BY ConfigAssumption DEF OwnChangesInv, CacheHoldsOwnChanges
<1>5. QED
  BY <1>1, <1>2, <1>3, <1>4

LEMMA WorkerStep ==
  TypeOK /\ TypeOK' /\ OwnChangesInv /\ FloorInv /\ WorkerInv /\ [Next]_vars
    => WorkerInv'
<1> SUFFICES ASSUME TypeOK, TypeOK', OwnChangesInv, FloorInv, WorkerInv, [Next]_vars
             PROVE  WorkerInv'
  OBVIOUS
<1>a. /\ requestedGeneration \in Nat /\ requestedGeneration' \in Nat
      /\ requestedGeneration' >= requestedGeneration
      /\ \A g \in 1..requestedGeneration : floor'[g] = floor[g]
      /\ generation \in Nat
  BY AnswersKept DEF TypeOK
<1>b. /\ result \in [Services -> Configs \cup {None}]
      /\ pc \in {"query", "store"} => service \in Services
  BY DEF TypeOK, CacheTypeOK
<1>c. None \notin Nat /\ Default \notin Nat
  BY ConfigAssumption
<1> HIDE DEF TypeOK
<1> USE <1>a, <1>b, <1>c DEF WorkerInv, Busy, Answers
\* The worker and what it holds do not move.
<1>1. ASSUME UNCHANGED <<generation, result, pc, config, service>>, Busy' = Busy,
             requested' => requestedGeneration' > 0
      PROVE  WorkerInv'
  BY <1>1
<1>2. CASE \/ ChangeInScm \/ ChangeInCache \/ NotifyRequest \/ HandleSnapshot
           \/ StopWorker \/ NotifyStop \/ JoinWorker \/ DrainMessages
           \/ SpuriousWakeup \/ OtherPrograms \/ UNCHANGED vars
  <2>1. UNCHANGED <<generation, result, pc, config, service>>
    BY <1>2
      DEF ChangeInScm, ChangeServiceConfig, ChangeInCache, InvalidateConfig,
          NotifyRequest, HandleSnapshot, StopWorker, Cancel, NotifyStop, JoinWorker,
          DrainMessages, SpuriousWakeup, OtherPrograms, Environment, Tick,
          ExternalChange, Uninstall, Install, vars, configVars, queryVars
  <2>2. UNCHANGED <<requested, requestedGeneration>>
    BY <1>2
      DEF ChangeInScm, ChangeInCache, NotifyRequest, HandleSnapshot, StopWorker,
          NotifyStop, JoinWorker, DrainMessages, SpuriousWakeup, OtherPrograms, vars,
          sharedVars
  <2>3. Busy' = Busy
    BY <1>2
      DEF ChangeInScm, ChangeInCache, NotifyRequest, WakeWorker, HandleSnapshot,
          StopWorker, NotifyStop, JoinWorker, DrainMessages, SpuriousWakeup,
          OtherPrograms, vars
  <2>4. QED
    BY <2>1, <2>2, <2>3
<1>3. CASE RequestRefresh
  <2>1. UNCHANGED <<generation, workerPc, result, pc, config, service>>
    BY <1>3 DEF RequestRefresh, configVars, queryVars
  <2>2. requestedGeneration' > 0
    BY <1>3 DEF RequestRefresh
  <2>3. QED
    BY <1>1, <2>1, <2>2
<1>4. CASE TakeRequest
  <2>1. UNCHANGED <<pc, result, config, service, requestedGeneration>> /\ ~Busy
    BY <1>4 DEF TakeRequest, configVars, queryVars
  <2>2. /\ Busy' => generation' = requestedGeneration /\ requested
        /\ requested' => requested
    BY <1>4 DEF TakeRequest
  <2>3. QED
    BY <2>1, <2>2
<1>5. CASE CheckCancellation
  <2>1. /\ UNCHANGED <<generation, requested, requestedGeneration>>
        /\ Busy /\ pc = "returned"
    BY <1>5 DEF CheckCancellation, sharedVars
  <2>2. CASE cancellation
    BY <1>5, <2>2 DEF CheckCancellation, Return, NoResult
  <2>3. CASE ~cancellation
    BY <1>5, <2>3 DEF CheckCancellation, configVars
  <2>4. QED
    BY <2>2, <2>3
<1>6. CASE PostSnapshot
  BY <1>6 DEF PostSnapshot, Return, NoResult
<1>7. CASE SnapshotStep
  <2>1. /\ UNCHANGED <<generation, workerPc, requested, requestedGeneration>>
        /\ Busy /\ Busy' /\ generation \in 1..requestedGeneration
    BY <1>7 DEF SnapshotStep, sharedVars
  <2>2. CASE SnapshotFails \/ BeginSnapshot
    BY <2>1, <2>2 DEF SnapshotFails, BeginSnapshot, NoResult
  <2>3. ASSUME NEW s \in Services, Hit(s)
        PROVE  WorkerInv'
    <3>1. /\ result' = [result EXCEPT ![s] = configCache[s].version]
          /\ pc' = "scan" /\ configCache[s] # None
      BY <2>3 DEF Hit, Fresh, Push
    <3>2. configCache[s].version \in Nat
            => configCache[s].version >= floor'[generation][s]
      BY <2>1, <3>1, AnswersStep
    <3>3. QED
      BY <2>1, <3>1, <3>2
  <2>4. ASSUME NEW s \in Services, Miss(s)
        PROVE  WorkerInv'
    BY <2>1, <2>4 DEF Miss
  <2>5. CASE Query
    <3>1. /\ UNCHANGED <<service, result>> /\ pc = "query" /\ service \in Services
          /\ config' = Default \/ config' = Version(service)
      BY <2>5 DEF Query
    <3>2. Version(service) >= floor'[generation][service]
      BY <3>1, AnswersStep
    <3>3. QED
      BY <2>1, <3>1, <3>2
  <2>6. CASE Store
    <3>1. /\ result' = [result EXCEPT ![service] = config]
          /\ pc = "store" /\ pc' = "scan" /\ service \in Services
      BY <2>6 DEF Store, Push
    <3>2. QED
      BY <2>1, <3>1
  <2>7. CASE CancelScan \/ FinishSnapshot
    BY <2>1, <2>7 DEF CancelScan, FinishSnapshot
  <2>8. QED
    BY <1>7, <2>2, <2>3, <2>4, <2>5, <2>6, <2>7 DEF SnapshotStep, GetServicesSnapshot
<1>8. QED
  BY <1>2, <1>3, <1>4, <1>5, <1>6, <1>7 DEF Next, Ui, Worker

LEMMA DisplayStep ==
  TypeOK /\ TypeOK' /\ FloorInv /\ WorkerInv /\ DisplayInv /\ [Next]_vars
    => DisplayInv'
<1> SUFFICES ASSUME TypeOK, TypeOK', FloorInv, WorkerInv, DisplayInv, [Next]_vars
             PROVE  DisplayInv'
  OBVIOUS
<1>a. /\ requestedGeneration \in Nat /\ requestedGeneration' \in Nat
      /\ requestedGeneration' >= requestedGeneration
      /\ \A g \in 1..requestedGeneration : floor'[g] = floor[g]
      /\ appliedGeneration \in Nat
      /\ posted \in Seq(Messages)
  BY AnswersKept DEF TypeOK
<1> HIDE DEF TypeOK
<1> USE <1>a DEF DisplayInv, Answers
<1>1. ASSUME UNCHANGED <<appliedGeneration, allServices, posted>>
      PROVE  DisplayInv'
  BY <1>1
<1>2. CASE HandleSnapshot
  <2>1. /\ posted # <<>> /\ posted' = Tail(posted)
        /\ Len(Tail(posted)) = Len(posted) - 1 /\ Len(posted) \in Nat
        /\ \A i \in 1..Len(Tail(posted)) : Tail(posted)[i] = posted[i + 1]
        /\ Head(posted) = posted[1] /\ 1 \in 1..Len(posted)
    BY <1>2 DEF HandleSnapshot
  <2>2. \A i \in 1..Len(posted') :
          /\ posted'[i].generation \in 1..requestedGeneration'
          /\ \A s \in Services :
               posted'[i].services[s] \in Nat
                 => posted'[i].services[s] >= floor'[posted'[i].generation][s]
    <3> SUFFICES ASSUME NEW i \in 1..Len(posted')
                 PROVE  /\ posted'[i].generation \in 1..requestedGeneration'
                        /\ \A s \in Services :
                             posted'[i].services[s] \in Nat
                               => posted'[i].services[s]
                                    >= floor'[posted'[i].generation][s]
      OBVIOUS
    <3>1. posted'[i] = posted[i + 1] /\ i + 1 \in 1..Len(posted)
      BY <2>1
    <3>2. /\ posted[i + 1].generation \in 1..requestedGeneration
          /\ Answers(posted[i + 1].services, posted[i + 1].generation)
      BY <3>1
    <3>3. QED
      BY <3>1, <3>2
  <2>3. appliedGeneration' \in 0..requestedGeneration'
    BY <1>2, <2>1 DEF HandleSnapshot, uiVars, sharedVars
  <2>4. UNCHANGED floor
    BY <1>2 DEF HandleSnapshot, sharedVars
  <2>5. appliedGeneration' > 0 =>
          \A s \in Services :
            allServices'[s] \in Nat => allServices'[s] >= floor'[appliedGeneration'][s]
    <3>1. CASE UNCHANGED <<appliedGeneration, allServices>>
      BY <2>4, <3>1
    <3>2. CASE appliedGeneration' = posted[1].generation /\ allServices' = posted[1].services
      BY <2>1, <2>4, <3>2
    <3>3. QED
      BY <1>2, <2>1, <3>1, <3>2 DEF HandleSnapshot, uiVars
  <2>6. QED
    BY <2>2, <2>3, <2>5
<1>3. CASE DrainMessages
  BY <1>3 DEF DrainMessages, uiVars
<1>4. CASE PostSnapshot
  <2> DEFINE m == [generation |-> generation, services |-> result]
  <2>1. /\ m.generation \in 1..requestedGeneration
        /\ \A s \in Services : m.services[s] \in Nat =>
                                m.services[s] >= floor[m.generation][s]
    BY <1>4 DEF PostSnapshot, WorkerInv, Busy
  <2>2. m \in Messages
    BY DEF TypeOK, CacheTypeOK, Messages, Lists
  <2> HIDE DEF m
  <2>3. \/ UNCHANGED posted
        \/ posted' = Append(posted, m)
    BY <1>4 DEF PostSnapshot, m
  <2>4. \/ UNCHANGED posted
        \/ /\ Len(posted') = Len(posted) + 1
           /\ posted'[Len(posted) + 1] = m
           /\ \A i \in 1..Len(posted) : posted'[i] = posted[i]
    BY <2>2, <2>3
  <2>5. UNCHANGED <<appliedGeneration, allServices, requestedGeneration, floor>>
    BY <1>4 DEF PostSnapshot, uiVars, sharedVars
  <2>6. QED
    BY <2>1, <2>4, <2>5
<1>5. CASE \/ ChangeInScm \/ ChangeInCache \/ RequestRefresh \/ NotifyRequest
           \/ StopWorker \/ NotifyStop \/ JoinWorker
  <2>1. UNCHANGED <<appliedGeneration, allServices, posted>>
    BY <1>5
      DEF ChangeInScm, ChangeInCache, RequestRefresh, NotifyRequest, StopWorker,
          NotifyStop, JoinWorker, uiVars
  <2>2. QED
    BY <1>1, <2>1
<1>6. CASE \/ TakeRequest \/ SpuriousWakeup \/ SnapshotStep \/ CheckCancellation
           \/ OtherPrograms \/ UNCHANGED vars
  <2>1. UNCHANGED <<appliedGeneration, allServices, posted>>
    BY <1>6
      DEF TakeRequest, SpuriousWakeup, SnapshotStep, CheckCancellation, OtherPrograms,
          vars, uiVars
  <2>2. QED
    BY <1>1, <2>1
<1>7. QED
  BY <1>2, <1>3, <1>4, <1>5, <1>6 DEF Next, Ui, Worker

\* The list on screen never takes back a start type the user had changed
\* before asking for the refresh it answers.
THEOREM DisplayFresh == Spec => []FreshDisplay
<1>1. Init => OwnChangesInv /\ FloorInv /\ WorkerInv /\ DisplayInv
  BY DEF Init, CacheInit, OwnChangesInv, CacheHoldsOwnChanges, Version, FloorInv,
         WorkerInv, DisplayInv, Busy
<1>2. TypeOK => CacheTypeOK
  BY DEF TypeOK
<1>3. TypeOK /\ TypeOK' /\ OwnChangesInv /\ [Next]_vars => OwnChangesInv'
  BY RefreshIsCacheStep, OwnChangesStep DEF TypeOK
<1>4. DisplayInv => FreshDisplay
  BY DEF DisplayInv, FreshDisplay, Answers
<1>5. QED
  BY <1>1, <1>3, <1>4, TypeCorrect, FloorStep, WorkerStep, DisplayStep, PTL DEF Spec
-----------------------------------------------------------------------------
(* What the worker posts is complete, and nothing is left behind.          *)

\* What the loop of GetServicesSnapshot is through with is in its result; what it
\* returns is complete unless it was cancelled.
ScanInv ==
  /\ pc = "idle" => names = {}
  /\ pc \in {"scan", "query", "store"} => \A s \in names \ todo : result[s] # None
  /\ pc = "returned" => cancellation \/ \A s \in names : result[s] # None

LEMMA ScanStep == CacheTypeOK /\ ScanInv /\ [CacheNext]_configVars => ScanInv'
<1> SUFFICES ASSUME CacheTypeOK, ScanInv, [CacheNext]_configVars PROVE ScanInv'
  OBVIOUS
<1>a. /\ result \in [Services -> Configs \cup {None}] /\ names \subseteq Services
      /\ todo \subseteq names /\ config \in Configs
      /\ configCache \in [Services -> Entries \cup {None}]
      /\ None \notin Configs
  BY ConfigAssumption DEF CacheTypeOK, Configs
<1>b. pc \in {"query", "store"} => service \in Services
  BY DEF CacheTypeOK
<1> HIDE DEF CacheTypeOK
<1> USE <1>a, <1>b DEF ScanInv
<1>1. CASE Environment \/ ChangeStartupType \/ UNCHANGED configVars
  <2>1. UNCHANGED <<pc, names, todo, result, cancellation>>
    BY <1>1 DEF Environment, Tick, ExternalChange, Uninstall, Install, ChangeStartupType,
                InvalidateConfig, ChangeServiceConfig, configVars, loopVars
  <2>2. QED
    BY <2>1
<1>2. CASE SnapshotFails
  BY <1>2 DEF SnapshotFails, loopVars
<1>3. CASE BeginSnapshot
  BY <1>3 DEF BeginSnapshot
<1>4. ASSUME NEW s \in Services, Hit(s) PROVE ScanInv'
  <2>1. /\ pc = "scan" /\ UNCHANGED <<pc, names, cancellation>> /\ todo' = todo \ {s}
        /\ result' = [result EXCEPT ![s] = configCache[s].version] /\ configCache[s] # None
    BY <1>4 DEF Hit, Fresh, Push
  <2>2. configCache[s].version # None
    BY <2>1 DEF Entries
  <2>3. QED
    BY <2>1, <2>2
<1>5. ASSUME NEW s \in Services, Miss(s) PROVE ScanInv'
  BY <1>5 DEF Miss, loopVars
<1>6. CASE Query
  BY <1>6 DEF Query, loopVars
<1>7. CASE Store
  <2>1. /\ pc' = "scan" /\ pc = "store" /\ UNCHANGED <<names, cancellation>>
        /\ todo' = todo \ {service} /\ result' = [result EXCEPT ![service] = config]
    BY <1>7 DEF Store, Push
  <2>2. QED
    BY <2>1
<1>8. CASE CancelScan
  BY <1>8 DEF CancelScan, loopVars
<1>9. CASE FinishSnapshot
  BY <1>9 DEF FinishSnapshot, loopVars
<1>10. CASE Return
  BY <1>10 DEF Return, NoLoop
<1>11. CASE Cancel
  BY <1>11 DEF Cancel, loopVars
<1>12. QED
  BY <1>1, <1>2, <1>3, <1>4, <1>5, <1>6, <1>7, <1>8, <1>9, <1>10, <1>11
    DEF CacheNext, GetServicesSnapshot

\* A cancelled snapshot is not posted, and a joined worker posts no more.
AccountInv ==
  /\ workerPc = "post" => pc = "returned" /\ \A s \in names : result[s] # None
  /\ uiPc \in {"drain", "closed"} => workerPc = "done"
  /\ uiPc = "closed" => posted = <<>>

LEMMA AccountStep ==
  TypeOK /\ ScanInv /\ AccountInv /\ [Next]_vars => AccountInv'
<1> SUFFICES ASSUME TypeOK, ScanInv, AccountInv, [Next]_vars PROVE AccountInv'
  OBVIOUS
<1> USE DEF AccountInv
<1>1. CASE ChangeInScm \/ ChangeInCache \/ RequestRefresh \/ NotifyRequest
           \/ HandleSnapshot \/ StopWorker \/ NotifyStop \/ JoinWorker \/ DrainMessages
  <2>1. /\ UNCHANGED <<pc, names, result>>
        /\ workerPc' = workerPc \/ (workerPc = "asleep" /\ workerPc' = "lock")
    BY <1>1
      DEF ChangeInScm, ChangeServiceConfig, ChangeInCache, InvalidateConfig, RequestRefresh,
          NotifyRequest, WakeWorker, HandleSnapshot, StopWorker, Cancel, NotifyStop,
          JoinWorker, DrainMessages, configVars, loopVars
  <2>2. /\ uiPc' \in {"drain", "closed"} => workerPc = "done"
        /\ uiPc' = "closed" => posted' = <<>>
    BY <1>1
      DEF ChangeInScm, ChangeInCache, RequestRefresh, NotifyRequest, HandleSnapshot,
          StopWorker, NotifyStop, JoinWorker, DrainMessages
  <2>3. QED
    BY <2>1, <2>2
<1>2. CASE TakeRequest \/ SpuriousWakeup
  <2>1. /\ UNCHANGED <<uiPc, posted>> /\ workerPc \in {"lock", "asleep"}
        /\ workerPc' # "post"
    BY <1>2 DEF TakeRequest, SpuriousWakeup
  <2>2. QED
    BY <2>1
<1>3. CASE SnapshotStep
  <2>1. UNCHANGED <<uiPc, posted, workerPc>> /\ workerPc = "snapshot"
    BY <1>3 DEF SnapshotStep
  <2>2. QED
    BY <2>1
<1>4. CASE CheckCancellation
  BY <1>4 DEF CheckCancellation, ScanInv, configVars, loopVars
<1>5. CASE PostSnapshot
  BY <1>5 DEF PostSnapshot
<1>6. CASE OtherPrograms \/ UNCHANGED vars
  <2>1. UNCHANGED <<uiPc, posted, workerPc, pc, names, result>>
    BY <1>6 DEF OtherPrograms, Environment, Tick, ExternalChange, Uninstall, Install, vars,
                configVars, loopVars
  <2>2. QED
    BY <2>1
<1>7. QED
  BY <1>1, <1>2, <1>3, <1>4, <1>5, <1>6 DEF Next, Ui, Worker

\* Whatever the worker posts lists every service that was enumerated, and no message and
\* no thread outlives StopServiceRefreshWorker.
THEOREM NothingLeftBehind == Spec => []SnapshotsAccountedFor
<1>1. Init => ScanInv /\ AccountInv
  BY DEF Init, CacheInit, ScanInv, AccountInv
<1>2. TypeOK => CacheTypeOK
  BY DEF TypeOK
<1>3. TypeOK /\ ScanInv /\ [Next]_vars => ScanInv'
  BY <1>2, RefreshIsCacheStep, ScanStep
<1>4. AccountInv => SnapshotsAccountedFor
  BY DEF AccountInv, SnapshotsAccountedFor
<1>5. QED
  BY <1>1, <1>3, <1>4, TypeCorrect, AccountStep, PTL DEF Spec

-----------------------------------------------------------------------------
(* The tab keeps what ServiceView promises.                                *)

\* The window stops the worker once, and then only closes.
StoppingInv == stopping <=> uiPc \in {"stop", "join", "drain", "closed"}

LEMMA StoppingStep == StoppingInv /\ [Next]_vars => StoppingInv'
<1> SUFFICES ASSUME StoppingInv, [Next]_vars PROVE StoppingInv'
  OBVIOUS
<1>1. CASE Ui
  BY <1>1
    DEF Ui, ChangeInScm, ChangeInCache, RequestRefresh, NotifyRequest, HandleSnapshot,
        StopWorker, NotifyStop, JoinWorker, DrainMessages, sharedVars, StoppingInv
<1>2. CASE Worker \/ SpuriousWakeup \/ OtherPrograms \/ UNCHANGED vars
  BY <1>2
    DEF Worker, TakeRequest, SnapshotStep, CheckCancellation, PostSnapshot, SpuriousWakeup,
        OtherPrograms, vars, sharedVars, StoppingInv
<1>3. QED
  BY <1>1, <1>2 DEF Next

LEMMA ViewStep ==
  TypeOK /\ TypeOK' /\ FloorInv /\ DisplayInv /\ StoppingInv /\ [Next]_vars
    => [View!ViewNext]_View!viewVars
<1> SUFFICES ASSUME TypeOK, TypeOK', FloorInv, DisplayInv, StoppingInv, [Next]_vars
             PROVE  View!ViewNext \/ UNCHANGED View!viewVars
  OBVIOUS
<1>1. CASE ChangeInCache
  <2>1. /\ change \in Changes
        /\ ownVersion' = [ownVersion EXCEPT ![change.service] = change.version]
        /\ uiPc = "changing" /\ UNCHANGED <<floor, appliedGeneration, allServices, stopping>>
    BY <1>1 DEF ChangeInCache, InvalidateConfig, TypeOK, CacheTypeOK, uiVars, sharedVars
  <2>2. /\ change.service \in Services /\ change # None
        /\ ownVersion \in [Services -> Nat]
    BY <1>1, <2>1 DEF Changes, TypeOK, CacheTypeOK, ChangeInCache, InvalidateConfig
  <2>3. ownVersion'[change.service] > ownVersion[change.service]
    BY <2>1, <2>2 DEF FloorInv, Changes
  <2>4. \A t \in Services \ {change.service} : ownVersion'[t] = ownVersion[t]
    BY <2>1, <2>2
  <2>5. ~stopping
    BY <2>1 DEF StoppingInv
  <2>6. View!Change
    BY <2>1, <2>2, <2>3, <2>4, <2>5 DEF View!Change
  <2>7. QED
    BY <2>6 DEF View!ViewNext
<1>2. CASE RequestRefresh
  <2>1. View!Request
    BY <1>2 DEF RequestRefresh, View!Request, configVars, cacheVars, uiVars
  <2>2. QED
    BY <2>1 DEF View!ViewNext
<1>3. CASE HandleSnapshot
  <2>1. /\ UNCHANGED <<ownVersion, floor, stopping>> /\ uiPc = "ready" /\ posted # <<>>
        /\ posted \in Seq(Messages)
    BY <1>3 DEF HandleSnapshot, configVars, cacheVars, sharedVars, TypeOK
  <2>2. Head(posted) = posted[1] /\ 1 \in 1..Len(posted)
    BY <2>1
  <2>3. /\ Head(posted).generation \in 1..requestedGeneration
        /\ Answers(Head(posted).services, Head(posted).generation)
    BY <2>2 DEF DisplayInv
  <2>4. ~stopping
    BY <2>1 DEF StoppingInv
  <2>5. CASE Head(posted).generation > appliedGeneration
    <3>1. /\ appliedGeneration' = Head(posted).generation
          /\ allServices' = Head(posted).services
      BY <1>3, <2>5 DEF HandleSnapshot
    <3>2. appliedGeneration' \in (appliedGeneration + 1)..Len(floor)
      BY <2>3, <2>5, <3>1 DEF FloorInv, TypeOK
    <3>3. View!Apply
      BY <2>1, <2>3, <2>4, <3>1, <3>2 DEF View!Apply, Answers
    <3>4. QED
      BY <3>3 DEF View!ViewNext
  <2>6. CASE ~(Head(posted).generation > appliedGeneration)
    BY <1>3, <2>1, <2>6 DEF HandleSnapshot, uiVars, View!viewVars
  <2>7. QED
    BY <2>5, <2>6
<1>4. CASE StopWorker
  <2>1. ~stopping
    BY <1>4 DEF StopWorker, StoppingInv
  <2>2. View!Close
    BY <1>4, <2>1 DEF StopWorker, Cancel, cacheVars, uiVars, View!Close
  <2>3. QED
    BY <2>2 DEF View!ViewNext
<1>5. CASE UNCHANGED <<ownVersion, floor, appliedGeneration, allServices, stopping>>
  BY <1>5 DEF View!viewVars
<1>6. QED
  BY <1>1, <1>2, <1>3, <1>4, <1>5
    DEF Next, Ui, Worker, ChangeInScm, ChangeServiceConfig, NotifyRequest, NotifyStop,
        JoinWorker, DrainMessages, TakeRequest, SpuriousWakeup, SnapshotStep,
        CheckCancellation, PostSnapshot, OtherPrograms, GetServicesSnapshot,
        SnapshotFails, BeginSnapshot, Hit, Miss, Query, Store, CancelScan,
        FinishSnapshot, Return, Environment, Tick, ExternalChange, Uninstall,
        Install, vars, configVars, cacheVars, sharedVars, uiVars

\* The threads, the cache and the messages implement the view: every step of theirs is a
\* step of what the tab promises its user, or one the user does not see.
THEOREM ImplementsView == Spec => ViewSpec
<1>1. Init => OwnChangesInv /\ FloorInv /\ WorkerInv /\ DisplayInv
  BY DEF Init, CacheInit, OwnChangesInv, CacheHoldsOwnChanges, Version, FloorInv,
         WorkerInv, DisplayInv, Busy
<1>2. TypeOK /\ TypeOK' /\ OwnChangesInv /\ [Next]_vars => OwnChangesInv'
  BY RefreshIsCacheStep, OwnChangesStep DEF TypeOK
<1>3. Init => View!ViewInit
  BY ConfigAssumption DEF Init, CacheInit, NoResult, View!ViewInit
<1>4. Init => StoppingInv
  BY DEF Init, StoppingInv
<1>5. QED
  BY <1>1, <1>2, <1>3, <1>4, TypeCorrect, FloorStep, WorkerStep, DisplayStep, StoppingStep,
     ViewStep, PTL DEF Spec, ViewSpec, View!ViewSpec

-----------------------------------------------------------------------------
(* Nothing that was asked for is forgotten.                                *)

LEMMA WakeStep == SleepsOnlyWhenIdle /\ [Next]_vars => SleepsOnlyWhenIdle'
<1> SUFFICES ASSUME SleepsOnlyWhenIdle, [Next]_vars PROVE SleepsOnlyWhenIdle'
  OBVIOUS
<1> USE DEF SleepsOnlyWhenIdle
<1>1. CASE ChangeInScm \/ ChangeInCache \/ HandleSnapshot \/ JoinWorker \/ DrainMessages
  <2>1. /\ uiPc \notin {"notify", "stop"}
        /\ UNCHANGED <<workerPc, requested, stopping>>
    BY <1>1 DEF ChangeInScm, ChangeInCache, HandleSnapshot, JoinWorker, DrainMessages,
                sharedVars
  <2>2. QED
    BY <2>1
<1>2. CASE RequestRefresh
  BY <1>2 DEF RequestRefresh
<1>3. CASE NotifyRequest \/ NotifyStop
  <2>1. workerPc' # "asleep"
    BY <1>3 DEF NotifyRequest, NotifyStop, WakeWorker
  <2>2. QED
    BY <2>1
<1>4. CASE StopWorker
  BY <1>4 DEF StopWorker
<1>5. CASE TakeRequest
  BY <1>5 DEF TakeRequest
<1>6. CASE SpuriousWakeup \/ CheckCancellation \/ PostSnapshot
  <2>1. workerPc' # "asleep"
    BY <1>6 DEF SpuriousWakeup, CheckCancellation, PostSnapshot
  <2>2. QED
    BY <2>1
<1>7. CASE SnapshotStep \/ OtherPrograms \/ UNCHANGED vars
  <2>1. UNCHANGED <<workerPc, uiPc, requested, stopping>>
    BY <1>7 DEF SnapshotStep, OtherPrograms, vars, sharedVars
  <2>2. QED
    BY <2>1
<1>8. QED
  BY <1>1, <1>2, <1>3, <1>4, <1>5, <1>6, <1>7 DEF Next, Ui, Worker

\* The worker never sleeps while there is something for it to do, unless the
\* notification is still to be sent: no wake-up is lost.
THEOREM NoLostWakeup == Spec => []SleepsOnlyWhenIdle
<1>1. Init => SleepsOnlyWhenIdle
  BY DEF Init, SleepsOnlyWhenIdle
<1>2. QED
  BY <1>1, WakeStep, PTL DEF Spec

\* Only StopServiceRefreshWorker cancels a snapshot, with the flag it stops by.
CancelInv == cancellation = stopping

LEMMA CancelStep == CancelInv /\ [Next]_vars => CancelInv'
<1> SUFFICES ASSUME CancelInv, [Next]_vars PROVE CancelInv'
  OBVIOUS
<1>1. CASE StopWorker
  BY <1>1 DEF StopWorker, Cancel, CancelInv
<1>2. CASE Next /\ ~StopWorker
  <2>1. UNCHANGED <<cancellation, stopping>>
    BY <1>2
      DEF Next, Ui, Worker, ChangeInScm, ChangeServiceConfig, ChangeInCache,
          InvalidateConfig, RequestRefresh, NotifyRequest, HandleSnapshot, NotifyStop,
          JoinWorker, DrainMessages, TakeRequest, SpuriousWakeup, SnapshotStep,
          CheckCancellation, PostSnapshot, OtherPrograms, GetServicesSnapshot,
          SnapshotFails, BeginSnapshot, Hit, Miss, Query, Store, CancelScan,
          FinishSnapshot, Return, Environment, Tick, ExternalChange, Uninstall,
          Install, configVars, loopVars, sharedVars
  <2>2. QED
    BY <2>1 DEF CancelInv
<1>3. CASE UNCHANGED vars
  BY <1>3 DEF vars, configVars, loopVars, sharedVars, CancelInv
<1>4. QED
  BY <1>1, <1>2, <1>3

\* Where the request on its way goes in a step.
OnItsWay ==
  \/ Pending'
  \/ appliedGeneration' = requestedGeneration
  \/ stopping
  \/ workerPc = "post" /\ Len(posted) >= QueueLimit

LEMMA PendingStep ==
  TypeOK /\ DisplayInv /\ StoppingInv /\ CancelInv /\ [Next]_vars
    => (Pending => OnItsWay)
<1> SUFFICES ASSUME TypeOK, DisplayInv, StoppingInv, CancelInv, [Next]_vars, Pending
             PROVE  OnItsWay
  OBVIOUS
<1>a. /\ posted \in Seq(Messages) /\ appliedGeneration \in Nat
      /\ requestedGeneration \in Nat /\ generation \in Nat
      /\ result \in Lists
      /\ appliedGeneration <= requestedGeneration
      /\ Len(posted) \in Nat /\ DOMAIN posted = 1..Len(posted)
  BY DEF TypeOK, CacheTypeOK, Lists, DisplayInv
<1>1. CASE RequestRefresh
  BY <1>1 DEF RequestRefresh, OnItsWay, Pending
<1>2. CASE HandleSnapshot
  <2>1. /\ UNCHANGED <<requested, requestedGeneration, workerPc, generation>>
        /\ posted # <<>> /\ posted' = Tail(posted)
        /\ Head(posted).generation > appliedGeneration
             => appliedGeneration' = Head(posted).generation
        /\ ~(Head(posted).generation > appliedGeneration)
             => appliedGeneration' = appliedGeneration
    BY <1>2 DEF HandleSnapshot, sharedVars, uiVars
  <2>2. /\ Head(posted) = posted[1] /\ posted[1].generation \in Nat
        /\ DOMAIN posted' = 1..(Len(posted) - 1)
        /\ \A i \in 1..(Len(posted) - 1) : posted'[i] = posted[i + 1]
    <3>1. /\ Head(posted) = posted[1] /\ posted[1] \in Messages
          /\ Tail(posted) \in Seq(Messages) /\ Len(Tail(posted)) = Len(posted) - 1
          /\ \A i \in 1..(Len(posted) - 1) : Tail(posted)[i] = posted[i + 1]
      BY <1>a, <2>1
    <3>2. DOMAIN Tail(posted) = 1..(Len(posted) - 1)
      BY <3>1
    <3>3. posted[1].generation \in Nat
      BY <3>1 DEF Messages
    <3>4. QED
      BY <2>1, <3>1, <3>2, <3>3
  <2>3. CASE \/ requested
             \/ workerPc \in {"snapshot", "post"} /\ generation = requestedGeneration
    BY <2>1, <2>3 DEF OnItsWay, Pending
  <2>4. ASSUME NEW i \in DOMAIN posted, posted[i].generation = requestedGeneration
        PROVE  OnItsWay
    <3>1. CASE i = 1
      BY <1>a, <2>1, <2>2, <2>4, <3>1 DEF OnItsWay
    <3>2. CASE i # 1
      <4>1. i - 1 \in 1..(Len(posted) - 1) /\ posted'[i - 1] = posted[i]
        BY <1>a, <2>2, <3>2
      <4>2. Pending'
        BY <2>1, <2>2, <2>4, <4>1 DEF Pending
      <4>3. QED
        BY <4>2 DEF OnItsWay
    <3>3. QED
      BY <3>1, <3>2
  <2>5. QED
    BY <2>3, <2>4, Zenon DEF Pending
<1>3. CASE DrainMessages
  BY <1>3 DEF DrainMessages, StoppingInv, OnItsWay
<1>4. CASE TakeRequest
  <2>1. /\ UNCHANGED <<posted, requestedGeneration, stopping>> /\ workerPc = "lock"
        /\ requested /\ ~stopping =>
             workerPc' = "snapshot" /\ generation' = requestedGeneration
    BY <1>4 DEF TakeRequest, uiVars
  <2>2. CASE requested
    BY <2>1, <2>2 DEF OnItsWay, Pending
  <2>3. CASE \E i \in DOMAIN posted : posted[i].generation = requestedGeneration
    BY <2>1, <2>3 DEF OnItsWay, Pending
  <2>4. QED
    BY <2>1, <2>2, <2>3 DEF Pending
<1>5. CASE CheckCancellation
  <2>1. /\ UNCHANGED <<posted, requested, requestedGeneration, generation>>
        /\ cancellation \/ workerPc' = "post"
    BY <1>5 DEF CheckCancellation, sharedVars
  <2>2. QED
    BY <2>1 DEF CancelInv, OnItsWay, Pending
<1>6. CASE PostSnapshot
  <2> DEFINE m == [generation |-> generation, services |-> result]
  <2>1. m \in Messages /\ m.generation = generation
    BY <1>a DEF Messages
  <2> HIDE DEF m
  <2>2. /\ UNCHANGED <<requested, requestedGeneration>> /\ workerPc = "post"
        /\ posted' = IF Len(posted) < QueueLimit THEN Append(posted, m) ELSE posted
    BY <1>6 DEF PostSnapshot, sharedVars, m
  <2>3. CASE Len(posted) < QueueLimit
    <3>1. /\ DOMAIN posted' = 1..(Len(posted) + 1)
          /\ posted'[Len(posted) + 1] = m
          /\ \A i \in 1..Len(posted) : posted'[i] = posted[i]
      BY <1>a, <2>1, <2>2, <2>3
    <3>2. Pending'
      <4>1. CASE requested
        BY <2>2, <4>1 DEF Pending
      <4>2. CASE generation = requestedGeneration
        <5>1. Len(posted) + 1 \in DOMAIN posted'
          BY <1>a, <3>1
        <5>2. QED
          BY <2>1, <2>2, <3>1, <4>2, <5>1 DEF Pending
      <4>3. ASSUME NEW i \in DOMAIN posted, posted[i].generation = requestedGeneration
            PROVE  Pending'
        <5>1. i \in DOMAIN posted' /\ posted'[i] = posted[i]
          BY <1>a, <3>1
        <5>2. QED
          BY <2>2, <4>3, <5>1 DEF Pending
      <4>4. QED
        BY <4>1, <4>2, <4>3, Zenon DEF Pending
    <3>3. QED
      BY <3>2 DEF OnItsWay
  <2>4. QED
    BY <1>a, <2>2, <2>3, RefreshAssumption DEF OnItsWay
<1>7. CASE \/ ChangeInScm \/ ChangeInCache \/ NotifyRequest \/ StopWorker
           \/ NotifyStop \/ JoinWorker \/ SpuriousWakeup \/ SnapshotStep
           \/ OtherPrograms \/ UNCHANGED vars
  <2>1. /\ UNCHANGED <<posted, requested, requestedGeneration, generation>>
        /\ workerPc \in {"snapshot", "post"} => workerPc' = workerPc
    BY <1>7
      DEF ChangeInScm, ChangeInCache, NotifyRequest, WakeWorker, StopWorker, NotifyStop,
          JoinWorker, SpuriousWakeup, SnapshotStep, OtherPrograms, vars, sharedVars
  <2>2. QED
    BY <2>1 DEF OnItsWay, Pending
<1>8. QED
  BY <1>1, <1>2, <1>3, <1>4, <1>5, <1>6, <1>7 DEF Next, Ui, Worker

\* What was requested last stays on its way to the list, through flag, worker and
\* queue, until it is applied, the window closes or the queue is full.
THEOREM RequestsReachTheList == Spec => NoRequestForgotten
<1>1. Init => OwnChangesInv /\ FloorInv /\ WorkerInv /\ DisplayInv
  BY DEF Init, CacheInit, OwnChangesInv, CacheHoldsOwnChanges, Version, FloorInv,
         WorkerInv, DisplayInv, Busy
<1>2. Init => StoppingInv /\ CancelInv
  BY DEF Init, CacheInit, StoppingInv, CancelInv
<1>3. TypeOK /\ TypeOK' /\ OwnChangesInv /\ [Next]_vars => OwnChangesInv'
  BY RefreshIsCacheStep, OwnChangesStep DEF TypeOK
<1>4. QED
  BY <1>1, <1>2, <1>3, TypeCorrect, FloorStep, WorkerStep, DisplayStep, StoppingStep,
     CancelStep, PendingStep, PTL DEF Spec, NoRequestForgotten, OnItsWay

-----------------------------------------------------------------------------
(***************************************************************************)
(* The end comes soon                                                      *)
(***************************************************************************)

\* The steps the snapshot at hand still takes, by where it stands.
LEMMA WorkerRemainingCases ==
  /\ workerPc = "done" => WorkerRemaining = 0
  /\ workerPc = "lock" => WorkerRemaining = 1
  /\ workerPc \in {"asleep", "post"} => WorkerRemaining = 2
  /\ workerPc = "snapshot" =>
       /\ pc = "returned" => WorkerRemaining = 1
       /\ pc \in {"idle", "scan"} => WorkerRemaining = 2
       /\ pc = "store" => WorkerRemaining = 3
       /\ pc = "query" => WorkerRemaining = 4
BY DEF WorkerRemaining

LEMMA WorkerRemainingCasesNext ==
  /\ workerPc' = "done" => WorkerRemaining' = 0
  /\ workerPc' = "lock" => WorkerRemaining' = 1
  /\ workerPc' \in {"asleep", "post"} => WorkerRemaining' = 2
  /\ workerPc' = "snapshot" =>
       /\ pc' = "returned" => WorkerRemaining' = 1
       /\ pc' \in {"idle", "scan"} => WorkerRemaining' = 2
       /\ pc' = "store" => WorkerRemaining' = 3
       /\ pc' = "query" => WorkerRemaining' = 4
BY DEF WorkerRemaining

\* A snapshot that is given up goes forward to its end: it cannot begin, and no
\* service is looked up any more.
LEMMA GivenUpSnapshot ==
  ASSUME cancellation, GetServicesSnapshot
  PROVE  \/ pc \in {"idle", "scan"} /\ pc' = "returned"
         \/ pc = "query" /\ pc' = "store"
         \/ pc = "store" /\ pc' = "scan"
BY DEF GetServicesSnapshot, SnapshotFails, BeginSnapshot, Hit, Miss, Query, Store,
       CancelScan, FinishSnapshot

\* What a step of the worker does once the window closes.
LEMMA WorkerGoesOn ==
  ASSUME TypeOK, CancelInv, stopping, Worker
  PROVE  WorkerRemaining' < WorkerRemaining /\ uiPc' = uiPc
<1> USE WorkerRemainingCases, WorkerRemainingCasesNext
<1>1. CASE TakeRequest
  BY <1>1 DEF TakeRequest
<1>2. CASE SnapshotStep
  <2>1. /\ workerPc = "snapshot" /\ workerPc' = "snapshot" /\ uiPc' = uiPc
        /\ GetServicesSnapshot
    BY <1>2 DEF SnapshotStep
  <2>2. cancellation
    BY DEF CancelInv
  <2>3. QED
    BY <2>1, <2>2, GivenUpSnapshot
<1>3. CASE CheckCancellation
  <2>1. workerPc = "snapshot" /\ pc = "returned" /\ workerPc' = "done" /\ uiPc' = uiPc
    BY <1>3 DEF CheckCancellation, CancelInv
  <2>2. QED
    BY <2>1
<1>4. CASE PostSnapshot
  BY <1>4 DEF PostSnapshot
<1>5. QED
  BY <1>1, <1>2, <1>3, <1>4 DEF Worker

\* What a step of the UI thread does then.
LEMMA UiGoesOn ==
  ASSUME TypeOK, StoppingInv, stopping, Ui
  PROVE  WorkerRemaining' <= WorkerRemaining /\ UiRemaining' < UiRemaining
<1>1. uiPc \in {"stop", "join", "drain", "closed"}
  BY DEF StoppingInv
<1>2. NotifyStop \/ JoinWorker \/ DrainMessages
  BY <1>1 DEF Ui, ChangeInScm, ChangeInCache, RequestRefresh, NotifyRequest,
              HandleSnapshot, StopWorker
<1>3. pc' = pc /\ (workerPc' = workerPc \/ (workerPc = "asleep" /\ workerPc' = "lock"))
  <2>1. pc' = pc
    BY <1>2 DEF NotifyStop, JoinWorker, DrainMessages, configVars
  <2>2. workerPc' = workerPc \/ (workerPc = "asleep" /\ workerPc' = "lock")
    BY <1>2 DEF NotifyStop, JoinWorker, DrainMessages, WakeWorker
  <2>3. QED
    BY <2>1, <2>2
<1>4. WorkerRemaining' <= WorkerRemaining
  <2>1. /\ pc \in {"idle", "scan", "query", "store", "returned"}
        /\ workerPc \in {"lock", "asleep", "snapshot", "post", "done"}
    BY DEF TypeOK, CacheTypeOK
  <2>2. QED
    BY <1>3, <2>1, WorkerRemainingCases, WorkerRemainingCasesNext
<1>5. UiRemaining' < UiRemaining
  BY <1>2 DEF NotifyStop, JoinWorker, DrainMessages, UiRemaining
<1>6. QED
  BY <1>4, <1>5

\* The arithmetic of the two.
LEMMA Sums ==
  ASSUME NEW a \in 0..4, NEW b \in 0..4, NEW c \in 0..3, NEW d \in 0..3,
         b <= a, d <= c
  PROVE  /\ b + d <= a + c
         /\ b < a \/ d < c => b + d < a + c
         /\ a + c \in 0..7
OBVIOUS

LEMMA ShutdownStep ==
  TypeOK /\ TypeOK' /\ StoppingInv /\ CancelInv /\ [Next]_vars
    => (stopping => /\ Remaining' <= Remaining
                    /\ Ui \/ Worker => Remaining' < Remaining
                    /\ Remaining \in 0..7)
<1> SUFFICES ASSUME TypeOK, TypeOK', StoppingInv, CancelInv, [Next]_vars, stopping
             PROVE  /\ Remaining' <= Remaining
                    /\ Ui \/ Worker => Remaining' < Remaining
                    /\ Remaining \in 0..7
  OBVIOUS
<1>1. /\ pc \in {"idle", "scan", "query", "store", "returned"}
      /\ workerPc \in {"lock", "asleep", "snapshot", "post", "done"}
      /\ pc' \in {"idle", "scan", "query", "store", "returned"}
      /\ workerPc' \in {"lock", "asleep", "snapshot", "post", "done"}
  BY DEF TypeOK, CacheTypeOK
<1>2. WorkerRemaining \in 0..4 /\ WorkerRemaining' \in 0..4
  BY <1>1, WorkerRemainingCases, WorkerRemainingCasesNext
<1>3. UiRemaining \in 0..3 /\ UiRemaining' \in 0..3
  BY DEF UiRemaining
<1>4. /\ Remaining = WorkerRemaining + UiRemaining
      /\ Remaining' = WorkerRemaining' + UiRemaining'
  BY DEF Remaining
<1>5. CASE Worker
  <2>1. WorkerRemaining' < WorkerRemaining /\ uiPc' = uiPc
    BY <1>5, WorkerGoesOn, Zenon
  <2>2. UiRemaining' = UiRemaining
    BY <2>1 DEF UiRemaining
  <2>3. WorkerRemaining' <= WorkerRemaining /\ UiRemaining' <= UiRemaining
    BY <1>2, <1>3, <2>1, <2>2
  <2>4. QED
    BY <1>2, <1>3, <1>4, <2>1, <2>3, Sums, Zenon
<1>6. CASE Ui
  <2>1. WorkerRemaining' <= WorkerRemaining /\ UiRemaining' < UiRemaining
    BY <1>6, UiGoesOn, Zenon
  <2>2. UiRemaining' <= UiRemaining
    BY <1>3, <2>1
  <2>3. QED
    BY <1>2, <1>3, <1>4, <2>1, <2>2, Sums, Zenon
<1>7. CASE (SpuriousWakeup \/ OtherPrograms \/ UNCHANGED vars) /\ ~Ui /\ ~Worker
  <2>1. uiPc' = uiPc /\ pc' = pc
    BY <1>7 DEF SpuriousWakeup, OtherPrograms, Environment, Tick, ExternalChange,
                Uninstall, Install, vars, configVars
  <2>2. workerPc' = workerPc \/ (workerPc = "asleep" /\ workerPc' = "lock")
    BY <1>7 DEF SpuriousWakeup, OtherPrograms, vars
  <2>3. UiRemaining' = UiRemaining
    BY <2>1 DEF UiRemaining
  <2>4. WorkerRemaining' <= WorkerRemaining
    BY <1>1, <2>1, <2>2, WorkerRemainingCases, WorkerRemainingCasesNext
  <2>5. UiRemaining' <= UiRemaining
    BY <1>3, <2>3
  <2>6. QED
    BY <1>2, <1>3, <1>4, <1>7, <2>4, <2>5, Sums, Zenon
<1>8. QED
  BY <1>5, <1>6, <1>7, Zenon DEF Next

\* Closing the window takes seven steps at most: what is left of the snapshot at
\* hand, and what StopServiceRefreshWorker does after its lock.
THEOREM ShutdownSteps == Spec => ShutdownIsShort
<1>1. Init => StoppingInv /\ CancelInv
  BY DEF Init, CacheInit, StoppingInv, CancelInv
<1>2. QED
  BY <1>1, TypeCorrect, StoppingStep, CancelStep, ShutdownStep, PTL
    DEF Spec, ShutdownIsShort
=============================================================================
