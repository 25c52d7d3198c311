-------------------------- MODULE EngineManagerProofs --------------------------
(***************************************************************************)
(* For any number of algorithms, transactions and objects, and whatever    *)
(* failures Faults allows: no engine is taken from under a transaction,    *)
(* its last user takes it down, its library is open while it exists, and   *)
(* the two pools hand each thread and each queue to one owner.             *)
(***************************************************************************)
EXTENDS EngineManager, FiniteSetTheorems, TLAPS

\* The transactions recorded for an engine are finitely many.
LEMMA UsersFinite ==
    ASSUME NEW e
    PROVE  IsFiniteSet(Users(e)) /\ Cardinality(Users(e)) \in Nat
<1>1. Users(e) \subseteq Tids
  BY DEF Users
<1>2. IsFiniteSet(Users(e))
  BY <1>1, FS_Subset, ManagerAssumption
<1> QED
  BY <1>2, FS_CardinalityType

\* Losing transactions never raises an engine's number of users.
LEMMA FewerUsers ==
    ASSUME NEW e, Users(e)' \subseteq Users(e)
    PROVE  Cardinality(Users(e)') \in Nat /\ Cardinality(Users(e)') <= Cardinality(Users(e))
BY UsersFinite, FS_Subset, FS_CardinalityType

\* A finite set gains at most one member with one more element.
LEMMA OneMoreMember ==
    ASSUME NEW S, IsFiniteSet(S), NEW t
    PROVE  /\ IsFiniteSet(S \cup {t})
           /\ Cardinality(S) \in Nat /\ Cardinality(S \cup {t}) \in Nat
           /\ Cardinality(S \cup {t}) <= Cardinality(S) + 1
<1>0. Cardinality(S) \in Nat
  BY FS_CardinalityType
<1>1. CASE t \in S
  <2>1. S \cup {t} = S
    BY <1>1
  <2>2. Cardinality(S) <= Cardinality(S) + 1
    BY <1>0
  <2> QED
    BY <2>1, <2>2, <1>0, Zenon
<1>2. CASE t \notin S
  <2>1. IsFiniteSet(S \cup {t}) /\ Cardinality(S \cup {t}) = Cardinality(S) + 1
    BY <1>2, FS_AddElement
  <2> QED
    BY <2>1, <1>0
<1> QED
  BY <1>1, <1>2

\* A recorded transaction adds at most one user.
LEMMA OneMoreUser ==
    ASSUME NEW e, NEW t, Users(e)' \subseteq Users(e) \cup {t}
    PROVE  Cardinality(Users(e)') \in Nat /\ Cardinality(Users(e)') <= Cardinality(Users(e)) + 1
<1>1. IsFiniteSet(Users(e))
  BY UsersFinite
<1>2. /\ IsFiniteSet(Users(e) \cup {t})
      /\ Cardinality(Users(e)) \in Nat /\ Cardinality(Users(e) \cup {t}) \in Nat
      /\ Cardinality(Users(e) \cup {t}) <= Cardinality(Users(e)) + 1
  BY <1>1, OneMoreMember
<1>3. IsFiniteSet(Users(e)') /\ Cardinality(Users(e)') <= Cardinality(Users(e) \cup {t})
  BY <1>2, FS_Subset
<1>4. Cardinality(Users(e)') \in Nat
  BY <1>3, FS_CardinalityType
<1> QED
  BY <1>2, <1>3, <1>4

\* A stopped transaction removes exactly one user.
LEMMA OneFewerUser ==
    ASSUME NEW e, NEW t \in Users(e), Users(e)' = Users(e) \ {t}
    PROVE  /\ Cardinality(Users(e)) >= 1
           /\ Cardinality(Users(e)') = Cardinality(Users(e)) - 1
           /\ Cardinality(Users(e)') = 0 => Users(e) = {t}
<1>1. IsFiniteSet(Users(e)) /\ Cardinality(Users(e)) \in Nat
  BY UsersFinite
<1>2. /\ IsFiniteSet(Users(e) \ {t})
      /\ Cardinality(Users(e) \ {t}) = Cardinality(Users(e)) - 1
  BY <1>1, FS_RemoveElement
<1>3. Cardinality(Users(e) \ {t}) \in Nat
  BY <1>2, FS_CardinalityType
<1>4. Cardinality(Users(e) \ {t}) = 0 => Users(e) \ {t} = {}
  BY <1>2, FS_EmptySet
<1> QED
  BY <1>1, <1>2, <1>3, <1>4

\* A part with a thread is never the missing part.
LEMMA PartIsLive ==
    ASSUME NEW k, NEW t \in ThreadIds, NEW q
    PROVE  [key |-> k, thread |-> t, queue |-> q] # NoPart
<1>1. [key |-> k, thread |-> t, queue |-> q].thread = t
  OBVIOUS
<1>2. NoPart.thread = NoObj
  BY DEF NoPart
<1>3. t # NoObj
  BY ManagerAssumption
<1> QED
  BY <1>1, <1>2, <1>3

\* What a live engine is made of.
LEMMA LivePart ==
    ASSUME TypeOK, NEW e \in Live
    PROVE  /\ e \in EngineIds
           /\ part[e] \in [key : Keys, thread : ThreadIds, queue : QueueIds]
           /\ part[e].key \in Keys /\ part[e].thread \in ThreadIds /\ part[e].queue \in QueueIds
<1>1. e \in EngineIds /\ part[e] # NoPart
  BY DEF Live
<1>2. part[e] \in [key : Keys, thread : ThreadIds, queue : QueueIds]
  BY <1>1 DEF TypeOK
<1>3. part[e].key \in Keys /\ part[e].thread \in ThreadIds /\ part[e].queue \in QueueIds
  BY <1>2, SMT
<1> QED
  BY <1>1, <1>2, <1>3

\* The initial state has no engine and nobody recorded.
LEMMA InitRecord == Init => RecordInv
<1> SUFFICES ASSUME Init PROVE RecordInv
  OBVIOUS
<1>1. TypeOK
  BY DEF Init, TypeOK
<1>2. ASSUME NEW e \in EngineIds PROVE refCount[e] >= Cardinality(Users(e))
  <2>1. Users(e) = {}
    BY ManagerAssumption DEF Users, Init
  <2>2. Cardinality(Users(e)) = 0
    BY <2>1, FS_EmptySet, Zenon
  <2>3. refCount[e] = 0
    BY DEF Init
  <2> QED
    BY <2>2, <2>3
<1>3. RefCountCovers
  BY <1>2 DEF RefCountCovers
<1>4. Live = {}
  BY DEF Live, Init
<1>5. EnginesRegistered
  BY <1>4 DEF EnginesRegistered, Init
<1>6. RecordedLive
  BY DEF RecordedLive, Init
<1>7. LibsMatch
  BY DEF LibsMatch, Init
<1> QED
  BY <1>1, <1>3, <1>5, <1>6, <1>7 DEF RecordInv

\* Loading a plugin opens its library if it was not open.
LEMMA GetPluginOpens ==
    ASSUME TypeOK, LibsMatch, NEW key \in Keys, GetPlugin(key)
    PROVE  /\ plugins' = plugins \cup {key} /\ plugins' \subseteq Keys
           /\ LibsMatch' /\ libs' \in [Keys -> Nat]
<1>1. /\ plugins' = plugins \cup {key}
      /\ libs' = IF key \in plugins THEN libs ELSE [libs EXCEPT ![key] = @ + 1]
      /\ plugins \subseteq Keys /\ libs \in [Keys -> Nat]
  BY DEF GetPlugin, TypeOK
<1>2. CASE key \in plugins
  BY <1>1, <1>2 DEF LibsMatch
<1>3. CASE key \notin plugins
  <2>1. libs[key] = 0
    BY <1>3 DEF LibsMatch
  <2> QED
    BY <2>1, <1>1, <1>3 DEF LibsMatch
<1> QED
  BY <1>1, <1>2, <1>3

\* A transaction that loads again is remembered.
LEMMA MayStartMishaps ==
    ASSUME TypeOK, NEW tid, MayStart(tid) PROVE mishaps' \subseteq Mishaps
BY DEF TypeOK, MayStart, Mishaps

\* Popping from a pool leaves a pool.
LEMMA PoolsAfterPop ==
    ASSUME TypeOK
    PROVE  IdleThreadsAfterPop \in Seq(ThreadIds) /\ IdleQueuesAfterPop \in Seq(QueueIds)
BY DEF TypeOK, IdleThreadsAfterPop, IdleQueuesAfterPop

\* QueuePool::Push leaves a pool and never takes the counter below zero.
LEMMA PoolAfterPush ==
    ASSUME NEW idle \in Seq(QueueIds), NEW busy \in Nat, NEW q \in QueueIds
    PROVE  /\ QueueReturned(idle, busy, q).idle \in Seq(QueueIds)
           /\ QueueReturned(idle, busy, q).busy \in Nat
BY DEF QueueReturned

\* A transaction joins an engine that is already there.
LEMMA StartExistingRecord ==
    ASSUME RecordInv, NEW tid \in Tids, NEW key \in Keys, StartExisting(tid, key)
    PROVE  RecordInv'
<1> DEFINE e == engines[key]
<1>0. /\ TypeOK /\ RefCountCovers /\ EnginesRegistered /\ RecordedLive /\ LibsMatch
  BY DEF RecordInv
<1>1. /\ e # NoObj /\ e \in EngineIds /\ e \in Live
  BY <1>0 DEF StartExisting, TypeOK, EnginesRegistered
<1>2. /\ refCount' = [refCount EXCEPT ![e] = @ + 1]
      /\ clientEngines' = [clientEngines EXCEPT ![tid] = e]
      /\ UNCHANGED <<engines, part, plugins, idleThreads, runs, idleQueues, busyQueueNum, libs>>
      /\ mishaps' \subseteq Mishaps
  BY <1>0, MayStartMishaps DEF StartExisting, AddAndRecord
<1>3. TypeOK' /\ LibsMatch'
  BY <1>0, <1>1, <1>2 DEF TypeOK, LibsMatch
<1>4. Live' = Live
  BY <1>2 DEF Live
<1>5. EnginesRegistered'
  BY <1>0, <1>2, <1>4 DEF EnginesRegistered
<1>6. RecordedLive'
  BY <1>0, <1>1, <1>2, <1>4 DEF RecordedLive, TypeOK
<1>7. ASSUME NEW f \in EngineIds PROVE (refCount[f] >= Cardinality(Users(f)))'
  <2>1. /\ refCount[f] \in Nat /\ refCount[f] >= Cardinality(Users(f))
        /\ Cardinality(Users(f)) \in Nat
    BY <1>0, UsersFinite DEF TypeOK, RefCountCovers
  <2>2. CASE f = e
    <3>1. Users(f)' \subseteq Users(f) \cup {tid}
      BY <1>0, <1>2 DEF Users, TypeOK
    <3>2. refCount'[f] = refCount[f] + 1
      BY <2>2, <1>0, <1>2 DEF TypeOK
    <3> QED
      BY <2>1, <3>1, <3>2, OneMoreUser
  <2>3. CASE f # e
    <3>1. Users(f)' \subseteq Users(f)
      BY <2>3, <1>0, <1>2 DEF Users, TypeOK
    <3>2. refCount'[f] = refCount[f]
      BY <2>3, <1>0, <1>2 DEF TypeOK
    <3> QED
      BY <2>1, <3>1, <3>2, FewerUsers
  <2> QED
    BY <2>2, <2>3
<1> QED
  BY <1>3, <1>5, <1>6, <1>7 DEF RecordInv, RefCountCovers

\* CreateEngine adds one engine, under a key that had none.
LEMMA CreateEngineRegisters ==
    ASSUME TypeOK, EnginesRegistered, LibsMatch, NEW key \in Keys,
           NEW e \in EngineIds, NEW t \in ThreadIds, NEW q \in QueueIds,
           CreateEngine(key, e, t, q)
    PROVE  /\ EnginesRegistered'
           /\ Live' = Live \cup {e} /\ e \notin Live
           /\ engines' \in [Keys -> EngineIds \cup {NoObj}]
           /\ part' \in [EngineIds ->
                  [key : Keys, thread : ThreadIds, queue : QueueIds] \cup {NoPart}]
           /\ plugins' \subseteq Keys
           /\ idleThreads' \in Seq(ThreadIds)
           /\ runs' \in [ThreadIds -> EngineIds \cup {NoObj}]
           /\ idleQueues' \in Seq(QueueIds)
           /\ busyQueueNum' \in Nat
           /\ LibsMatch' /\ libs' \in [Keys -> Nat]
<1> DEFINE p == [key |-> key, thread |-> t, queue |-> q]
<1>1. /\ engines[key] = NoObj /\ e \notin Live
      /\ plugins' = plugins \cup {key}
      /\ part' = [part EXCEPT ![e] = p]
      /\ engines' = [engines EXCEPT ![key] = e]
      /\ idleThreads' = IdleThreadsAfterPop
      /\ runs' = [runs EXCEPT ![t] = e]
      /\ idleQueues' = IdleQueuesAfterPop
      /\ busyQueueNum' = busyQueueNum + 1
      /\ LibsMatch' /\ libs' \in [Keys -> Nat]
  BY GetPluginOpens DEF CreateEngine
<1>2. p # NoPart /\ p \in [key : Keys, thread : ThreadIds, queue : QueueIds] /\ p.key = key
  BY PartIsLive
<1> HIDE DEF p
<1>3. Live' = Live \cup {e}
  BY <1>1, <1>2 DEF Live, TypeOK
<1>4. part'[e] = p /\ \A f \in EngineIds \ {e} : part'[f] = part[f]
  BY <1>1 DEF TypeOK
<1>5. engines'[key] = e /\ \A k \in Keys \ {key} : engines'[k] = engines[k]
  BY <1>1 DEF TypeOK
<1>6. ASSUME NEW f \in Live' PROVE engines'[part'[f].key] = f
  <2>1. CASE f = e
    BY <2>1, <1>2, <1>4, <1>5
  <2>2. CASE f # e
    <3>1. f \in Live /\ f \in EngineIds /\ part'[f] = part[f]
      BY <2>2, <1>3, <1>4 DEF Live
    <3>2. engines[part[f].key] = f /\ part[f].key \in Keys
      BY <3>1, LivePart DEF EnginesRegistered
    <3>3. part[f].key # key
      BY <3>1, <3>2, <1>1, ManagerAssumption
    <3> QED
      BY <3>1, <3>2, <3>3, <1>5
  <2> QED
    BY <2>1, <2>2
<1>7. ASSUME NEW k \in Keys, engines'[k] # NoObj
      PROVE  engines'[k] \in Live' /\ part'[engines'[k]].key = k /\ k \in plugins'
  <2>1. CASE k = key
    BY <2>1, <1>1, <1>2, <1>3, <1>4, <1>5
  <2>2. CASE k # key
    <3>1. engines'[k] = engines[k] /\ engines[k] \in Live /\ part[engines[k]].key = k /\ k \in plugins
      BY <2>2, <1>5, <1>7 DEF EnginesRegistered
    <3>2. engines[k] \in EngineIds \ {e}
      BY <3>1, <1>1 DEF Live
    <3> QED
      BY <3>1, <3>2, <1>1, <1>3, <1>4
  <2> QED
    BY <2>1, <2>2
<1>8. EnginesRegistered'
  BY <1>6, <1>7 DEF EnginesRegistered
<1>9. /\ engines' \in [Keys -> EngineIds \cup {NoObj}]
      /\ part' \in [EngineIds ->
             [key : Keys, thread : ThreadIds, queue : QueueIds] \cup {NoPart}]
      /\ plugins' \subseteq Keys
      /\ runs' \in [ThreadIds -> EngineIds \cup {NoObj}]
      /\ busyQueueNum' \in Nat
  BY <1>1, <1>2 DEF TypeOK
<1> QED
  BY <1>1, <1>3, <1>8, <1>9, PoolsAfterPop

\* A transaction starts the first engine of its algorithm.
LEMMA StartNewRecord ==
    ASSUME RecordInv, NEW tid \in Tids, NEW key \in Keys, StartNew(tid, key)
    PROVE  RecordInv'
<1>0. /\ TypeOK /\ RefCountCovers /\ EnginesRegistered /\ RecordedLive /\ LibsMatch
  BY DEF RecordInv
<1>1. PICK e \in EngineIds, t \in ThreadIds, q \in QueueIds :
        /\ CreateEngine(key, e, t, q)
        /\ AddAndRecord(tid, e, [refCount EXCEPT ![e] = 0])
  BY DEF StartNew
<1>2. /\ refCount' = [refCount EXCEPT ![e] = 1]
      /\ clientEngines' = [clientEngines EXCEPT ![tid] = e]
      /\ mishaps' \subseteq Mishaps
  BY <1>0, <1>1, MayStartMishaps DEF AddAndRecord, TypeOK, StartNew
<1>3. TypeOK' /\ LibsMatch'
  BY <1>0, <1>1, <1>2, CreateEngineRegisters DEF TypeOK
<1>4. EnginesRegistered' /\ Live' = Live \cup {e} /\ e \notin Live
  BY <1>0, <1>1, CreateEngineRegisters
<1>5. RecordedLive'
  BY <1>0, <1>2, <1>4 DEF RecordedLive, TypeOK
<1>6. ASSUME NEW f \in EngineIds PROVE (refCount[f] >= Cardinality(Users(f)))'
  <2>1. /\ refCount[f] \in Nat /\ refCount[f] >= Cardinality(Users(f))
        /\ Cardinality(Users(f)) \in Nat
    BY <1>0, UsersFinite DEF TypeOK, RefCountCovers
  <2>2. CASE f = e
    <3>1. Users(f) = {}
      BY <2>2, <1>0, <1>4, ManagerAssumption DEF Users, RecordedLive
    <3>2. Cardinality(Users(f)) = 0
      BY <3>1, FS_EmptySet
    <3>3. Users(f)' \subseteq Users(f) \cup {tid}
      BY <1>0, <1>2 DEF Users, TypeOK
    <3>4. refCount'[f] = 1
      BY <2>2, <1>0, <1>2 DEF TypeOK
    <3> QED
      BY <3>2, <3>3, <3>4, OneMoreUser
  <2>3. CASE f # e
    <3>1. Users(f)' \subseteq Users(f)
      BY <2>3, <1>0, <1>2 DEF Users, TypeOK
    <3>2. refCount'[f] = refCount[f]
      BY <2>3, <1>0, <1>2 DEF TypeOK
    <3> QED
      BY <2>1, <3>1, <3>2, FewerUsers
  <2> QED
    BY <2>2, <2>3
<1> QED
  BY <1>3, <1>4, <1>5, <1>6 DEF RecordInv, RefCountCovers

\* Nothing about engines and transactions changes when only the pools do.
LEMMA PoolsOnly ==
    ASSUME RecordInv,
           UNCHANGED <<engines, clientEngines, refCount, part>>,
           plugins \subseteq plugins', plugins' \subseteq Keys,
           idleThreads' \in Seq(ThreadIds),
           runs' \in [ThreadIds -> EngineIds \cup {NoObj}],
           idleQueues' \in Seq(QueueIds),
           busyQueueNum' \in Nat,
           LibsMatch', libs' \in [Keys -> Nat], mishaps' \subseteq Mishaps
    PROVE  RecordInv'
<1>0. /\ TypeOK /\ RefCountCovers /\ EnginesRegistered /\ RecordedLive /\ LibsMatch
  BY DEF RecordInv
<1>1. TypeOK'
  BY <1>0 DEF TypeOK
<1>2. Live' = Live
  BY DEF Live
<1>3. EnginesRegistered' /\ RecordedLive'
  BY <1>0, <1>2 DEF EnginesRegistered, RecordedLive
<1>4. ASSUME NEW e \in EngineIds PROVE Users(e)' = Users(e)
  BY DEF Users
<1>5. RefCountCovers'
  BY <1>0, <1>4 DEF RefCountCovers
<1> QED
  BY <1>1, <1>3, <1>5 DEF RecordInv

\* The plugin's Prepare fails on a new engine.
LEMMA StartPrepareFailsRecord ==
    ASSUME RecordInv, NEW key \in Keys, StartPrepareFails(key)
    PROVE  RecordInv'
<1>0. /\ TypeOK /\ RefCountCovers /\ EnginesRegistered /\ RecordedLive /\ LibsMatch
  BY DEF RecordInv
<1>1. PICK e \in EngineIds, t \in ThreadIds, q \in QueueIds :
        /\ CreateEngine(key, e, t, q)
        /\ refCount' = [refCount EXCEPT ![e] = 0]
  BY DEF StartPrepareFails
<1>2. clientEngines' = clientEngines /\ mishaps' = mishaps
  BY DEF StartPrepareFails
<1>3. TypeOK' /\ LibsMatch'
  BY <1>0, <1>1, <1>2, CreateEngineRegisters DEF TypeOK
<1>4. EnginesRegistered' /\ Live' = Live \cup {e} /\ e \notin Live
  BY <1>0, <1>1, CreateEngineRegisters
<1>5. RecordedLive'
  BY <1>0, <1>2, <1>4 DEF RecordedLive
<1>6. ASSUME NEW f \in EngineIds PROVE (refCount[f] >= Cardinality(Users(f)))'
  <2>1. Users(f)' = Users(f)
    BY <1>2 DEF Users
  <2>2. CASE f = e
    <3>1. Users(f) = {}
      BY <2>2, <1>0, <1>4, ManagerAssumption DEF Users, RecordedLive
    <3>2. Cardinality(Users(f)') = 0
      BY <3>1, <2>1, FS_EmptySet, Zenon
    <3>3. refCount'[f] = 0
      BY <2>2, <1>0, <1>1 DEF TypeOK
    <3> QED
      BY <3>2, <3>3
  <2>3. CASE f # e
    BY <2>1, <2>3, <1>0, <1>1 DEF TypeOK, RefCountCovers
  <2> QED
    BY <2>2, <2>3
<1> QED
  BY <1>3, <1>4, <1>5, <1>6 DEF RecordInv, RefCountCovers

\* CreateEngine fails between GetPlugin and Initialize.
LEMMA StartCreateFailsRecord ==
    ASSUME RecordInv, NEW key \in Keys, StartCreateFails(key)
    PROVE  RecordInv'
<1>0. TypeOK /\ LibsMatch
  BY DEF RecordInv
<1>1. /\ UNCHANGED <<engines, clientEngines, refCount, part>>
      /\ mishaps' \subseteq Mishaps
  BY <1>0 DEF StartCreateFails, Mishaps, TypeOK
<1>2. /\ plugins \subseteq plugins' /\ plugins' \subseteq Keys
      /\ LibsMatch' /\ libs' \in [Keys -> Nat]
  BY <1>0, GetPluginOpens DEF StartCreateFails
<1>3. /\ idleThreads' \in Seq(ThreadIds)
      /\ runs' \in [ThreadIds -> EngineIds \cup {NoObj}]
      /\ idleQueues' \in Seq(QueueIds)
      /\ busyQueueNum' \in Nat
  <2>1. CASE UNCHANGED <<idleThreads, runs, idleQueues, busyQueueNum>>
    BY <2>1, <1>0 DEF TypeOK
  <2>2. ASSUME NEW t \in ThreadIds,
               idleThreads' = Append(IdleThreadsAfterPop, t),
               runs' = [runs EXCEPT ![t] = NoObj]
        PROVE  idleThreads' \in Seq(ThreadIds) /\ runs' \in [ThreadIds -> EngineIds \cup {NoObj}]
    BY <2>2, <1>0, PoolsAfterPop DEF TypeOK
  <2>3. ASSUME NEW q \in QueueIds, idleQueues' = Append(IdleQueuesAfterPop, q)
        PROVE  idleQueues' \in Seq(QueueIds)
    BY <2>3, <1>0, PoolsAfterPop
  <2>4. busyQueueNum + 1 \in Nat /\ busyQueueNum \in Nat /\ idleQueues \in Seq(QueueIds)
    BY <1>0 DEF TypeOK
  <2> QED
    BY <2>1, <2>2, <2>3, <2>4 DEF StartCreateFails
<1> QED
  BY <1>1, <1>2, <1>3, PoolsOnly

\* Engine::Initialize fails and both parts are given back twice.
LEMMA StartInitFailsRecord ==
    ASSUME RecordInv, NEW key \in Keys, StartInitFails(key)
    PROVE  RecordInv'
<1>0. TypeOK /\ LibsMatch
  BY DEF RecordInv
<1>1. /\ UNCHANGED <<engines, clientEngines, refCount, part>>
      /\ mishaps' \subseteq Mishaps
  BY <1>0 DEF StartInitFails, Mishaps, TypeOK
<1>2. /\ plugins \subseteq plugins' /\ plugins' \subseteq Keys
      /\ LibsMatch' /\ libs' \in [Keys -> Nat]
  BY <1>0, GetPluginOpens DEF StartInitFails
<1>3. PICK t \in ThreadIds, q \in QueueIds :
        /\ LET once  == QueueReturned(IdleQueuesAfterPop, busyQueueNum + 1, q)
               twice == QueueReturned(once.idle, once.busy, q)
           IN  idleQueues' = twice.idle /\ busyQueueNum' = twice.busy
        /\ idleThreads' = IdleThreadsAfterPop \o <<t, t>>
        /\ runs' = [runs EXCEPT ![t] = NoObj]
  BY DEF StartInitFails
<1> DEFINE once == QueueReturned(IdleQueuesAfterPop, busyQueueNum + 1, q)
<1>4. once.idle \in Seq(QueueIds) /\ once.busy \in Nat
  BY <1>0, PoolsAfterPop, PoolAfterPush DEF TypeOK
<1>5. idleQueues' \in Seq(QueueIds) /\ busyQueueNum' \in Nat
  <2> HIDE DEF once
  <2>1. /\ idleQueues' = QueueReturned(once.idle, once.busy, q).idle
        /\ busyQueueNum' = QueueReturned(once.idle, once.busy, q).busy
    BY <1>3 DEF once
  <2> QED
    BY <2>1, <1>4, PoolAfterPush
<1>6. idleThreads' \in Seq(ThreadIds)
  BY <1>0, <1>3, PoolsAfterPop
<1>7. runs' \in [ThreadIds -> EngineIds \cup {NoObj}]
  BY <1>0, <1>3 DEF TypeOK
<1> QED
  BY <1>1, <1>2, <1>5, <1>6, <1>7, PoolsOnly

\* What is left of the record when a transaction is taken out of it.
LEMMA UsersAfterStop ==
    ASSUME TypeOK, NEW tid \in Tids, NEW e \in EngineIds, clientEngines[tid] = e,
           clientEngines' = [clientEngines EXCEPT ![tid] = NoObj]
    PROVE  /\ tid \in Users(e)
           /\ Users(e)' = Users(e) \ {tid}
           /\ \A f \in EngineIds : f # e => Users(f)' = Users(f)
           /\ \A t \in Tids : clientEngines'[t] # NoObj => t # tid /\ clientEngines'[t] = clientEngines[t]
<1>1. clientEngines'[tid] = NoObj /\ \A t \in Tids \ {tid} : clientEngines'[t] = clientEngines[t]
  BY DEF TypeOK
<1>2. NoObj \notin EngineIds
  BY ManagerAssumption
<1> QED
  BY <1>1, <1>2 DEF Users

\* A transaction stops its engine: the last one to do so takes the engine out
\* of every table, and nobody else is recorded for it then.
LEMMA StopEngineRecord ==
    ASSUME RecordInv, NEW tid \in Tids, StopEngine(tid)
    PROVE  RecordInv'
<1>0. /\ TypeOK /\ RefCountCovers /\ EnginesRegistered /\ RecordedLive /\ LibsMatch
  BY DEF RecordInv
<1>1. PICK e \in Live : e = clientEngines[tid]
  BY <1>0 DEF StopEngine, RecordedLive, UnloadPlugin
<1>2. /\ e \in EngineIds
      /\ part[e].key \in Keys /\ part[e].thread \in ThreadIds /\ part[e].queue \in QueueIds
      /\ engines[part[e].key] = e
  BY <1>0, <1>1, LivePart DEF EnginesRegistered
<1>3. /\ refCount' = [refCount EXCEPT ![e] = @ - 1]
      /\ clientEngines' = [clientEngines EXCEPT ![tid] = NoObj]
  BY <1>1 DEF StopEngine, UnloadPlugin
<1>4. /\ tid \in Users(e) /\ Users(e)' = Users(e) \ {tid}
      /\ \A f \in EngineIds : f # e => Users(f)' = Users(f)
      /\ \A t \in Tids : clientEngines'[t] # NoObj => t # tid /\ clientEngines'[t] = clientEngines[t]
  BY <1>0, <1>1, <1>2, <1>3, UsersAfterStop
<1>5. /\ Cardinality(Users(e)) >= 1
      /\ Cardinality(Users(e)') = Cardinality(Users(e)) - 1
      /\ Cardinality(Users(e)') = 0 => Users(e) = {tid}
      /\ Cardinality(Users(e)) \in Nat
  BY <1>4, OneFewerUser, UsersFinite
<1>6. /\ refCount[e] \in Nat /\ refCount[e] >= Cardinality(Users(e))
      /\ refCount'[e] = refCount[e] - 1
      /\ \A f \in EngineIds \ {e} : refCount'[f] = refCount[f]
  BY <1>0, <1>2, <1>3 DEF TypeOK, RefCountCovers
<1>7. RefCountCovers'
  <2>1. refCount'[e] >= Cardinality(Users(e)')
    BY <1>5, <1>6
  <2>2. ASSUME NEW f \in EngineIds, f # e PROVE refCount'[f] >= Cardinality(Users(f)')
    BY <2>2, <1>0, <1>4, <1>6 DEF RefCountCovers
  <2> QED
    BY <2>1, <2>2 DEF RefCountCovers
<1>8. /\ refCount' \in [EngineIds -> Nat]
      /\ clientEngines' \in [Tids -> EngineIds \cup {NoObj}]
  <2>1. refCount[e] - 1 \in Nat
    BY <1>5, <1>6
  <2> QED
    BY <2>1, <1>0, <1>2, <1>3 DEF TypeOK
<1>9. CASE refCount'[e] # 0
  <2>1. UNCHANGED <<plugins, engines, part, idleThreads, runs, idleQueues, busyQueueNum, libs, mishaps>>
    BY <1>1, <1>9 DEF StopEngine, UnloadPlugin
  <2>2. TypeOK' /\ LibsMatch'
    BY <2>1, <1>0, <1>8 DEF TypeOK, LibsMatch
  <2>3. Live' = Live
    BY <2>1 DEF Live
  <2>4. EnginesRegistered' /\ RecordedLive'
    BY <2>1, <2>3, <1>0, <1>4 DEF EnginesRegistered, RecordedLive
  <2> QED
    BY <2>2, <2>4, <1>7 DEF RecordInv
<1>10. CASE refCount'[e] = 0
  <2>1. Users(e) = {tid}
    BY <1>5, <1>6, <1>10
  <2>2. /\ plugins' = plugins \ {part[e].key}
        /\ engines' = [engines EXCEPT ![part[e].key] = NoObj]
        /\ DestroyEngine(e)
        /\ libs' = [libs EXCEPT ![part[e].key] = @ - 1] /\ mishaps' = mishaps
    BY <1>1, <1>10, <2>1 DEF StopEngine, UnloadPlugin, CloseLibrary
  <2>3. part' = [part EXCEPT ![e] = NoPart]
    BY <2>2 DEF DestroyEngine
  <2>4. Live' = Live \ {e}
    BY <2>3, <1>0, <1>2 DEF Live, TypeOK
  <2>5. /\ \A f \in EngineIds \ {e} : part'[f] = part[f]
        /\ engines'[part[e].key] = NoObj
        /\ \A k \in Keys \ {part[e].key} : engines'[k] = engines[k]
    BY <2>2, <2>3, <1>0, <1>2 DEF TypeOK
  <2>10. LibsMatch'
    <3>1. part[e].key \in plugins /\ libs[part[e].key] = 1
      BY <1>0, <1>1, <1>2, ManagerAssumption DEF EnginesRegistered, LibsMatch
    <3> QED
      BY <3>1, <2>2, <1>0, <1>2 DEF LibsMatch, TypeOK
  <2>6. TypeOK'
    <3>1. idleThreads' \in Seq(ThreadIds) /\ runs' \in [ThreadIds -> EngineIds \cup {NoObj}]
      BY <2>2, <1>0, <1>2 DEF DestroyEngine, TypeOK
    <3>2. idleQueues' \in Seq(QueueIds) /\ busyQueueNum' \in Nat
      BY <2>2, <1>0, <1>2, PoolAfterPush DEF DestroyEngine, TypeOK
    <3>3. libs' \in [Keys -> Nat]
      BY <2>10, <1>0 DEF LibsMatch, TypeOK
    <3> QED
      BY <3>1, <3>2, <3>3, <2>2, <2>3, <1>0, <1>8 DEF TypeOK
  <2>7. ASSUME NEW f \in Live' PROVE engines'[part'[f].key] = f
    <3>1. f \in Live /\ f # e /\ f \in EngineIds
      BY <2>4 DEF Live
    <3>2. part'[f] = part[f] /\ engines[part[f].key] = f /\ part[f].key \in Keys
      BY <3>1, <2>5, <1>0, LivePart DEF EnginesRegistered
    <3> QED
      BY <3>1, <3>2, <2>5, <1>2
  <2>8. ASSUME NEW k \in Keys, engines'[k] # NoObj
        PROVE  engines'[k] \in Live' /\ part'[engines'[k]].key = k /\ k \in plugins'
    <3>1. k # part[e].key /\ engines'[k] = engines[k]
      BY <2>5, <2>8
    <3>2. engines[k] \in Live /\ part[engines[k]].key = k /\ k \in plugins
      BY <3>1, <2>8, <1>0 DEF EnginesRegistered
    <3>3. engines[k] # e /\ engines[k] \in EngineIds
      BY <3>1, <3>2 DEF Live
    <3> QED
      BY <3>1, <3>2, <3>3, <2>2, <2>4, <2>5
  <2>9. RecordedLive'
    <3>1. ASSUME NEW t \in Tids, clientEngines'[t] # NoObj PROVE clientEngines'[t] \in Live'
      <4>1. t # tid /\ clientEngines'[t] = clientEngines[t] /\ clientEngines[t] \in Live
        BY <3>1, <1>0, <1>4 DEF RecordedLive
      <4>2. clientEngines[t] # e
        BY <4>1, <2>1 DEF Users
      <4> QED
        BY <4>1, <4>2, <2>4
    <3> QED
      BY <3>1 DEF RecordedLive
  <2> QED
    BY <2>6, <2>7, <2>8, <2>9, <2>10, <1>7 DEF RecordInv, EnginesRegistered
<1> QED
  BY <1>9, <1>10

\* Every step keeps the invariant.
LEMMA NextRecord == RecordInv /\ [Next]_vars => RecordInv'
<1> SUFFICES ASSUME RecordInv, [Next]_vars PROVE RecordInv'
  OBVIOUS
<1>4. ASSUME UNCHANGED vars PROVE RecordInv'
  <2>1. LibsMatch' /\ libs' \in [Keys -> Nat] /\ mishaps' \subseteq Mishaps
    BY <1>4 DEF vars, RecordInv, TypeOK, LibsMatch
  <2> QED
    BY <1>4, <2>1, PoolsOnly DEF vars, RecordInv, TypeOK
<1>1. ASSUME NEW tid \in Tids, NEW key \in Keys, StartExisting(tid, key) \/ StartNew(tid, key)
      PROVE  RecordInv'
  BY <1>1, StartExistingRecord, StartNewRecord
<1>2. ASSUME NEW key \in Keys, StartFails(key) PROVE RecordInv'
  <2>1. CASE StartLoadFails(key)
    <3>1. libs' = libs
      BY <2>1 DEF StartLoadFails, HandleGuard, RecordInv, TypeOK
    <3> QED
      BY <2>1, <3>1, <1>4 DEF StartLoadFails, vars
  <2> QED
    BY <1>2, <2>1, StartPrepareFailsRecord, StartCreateFailsRecord, StartInitFailsRecord DEF StartFails
<1>3. ASSUME NEW tid \in Tids, StopEngine(tid) PROVE RecordInv'
  BY <1>3, StopEngineRecord
<1> QED
  BY <1>1, <1>2, <1>3, <1>4 DEF Next

\* The recorded engine is the registered one, with its plugin loaded.
LEMMA RecordGivesEngine == RecordInv => EngineOfRecord
<1> SUFFICES ASSUME RecordInv PROVE EngineOfRecord
  OBVIOUS
<1>1. ASSUME NEW t \in Tids, clientEngines[t] # NoObj
      PROVE  /\ clientEngines[t] \in Live
             /\ engines[part[clientEngines[t]].key] = clientEngines[t]
             /\ part[clientEngines[t]].key \in plugins
  <2>1. clientEngines[t] \in Live
    BY <1>1 DEF RecordInv, RecordedLive
  <2>2. /\ clientEngines[t] \in EngineIds /\ part[clientEngines[t]].key \in Keys
        /\ engines[part[clientEngines[t]].key] = clientEngines[t]
    BY <2>1, LivePart DEF RecordInv, EnginesRegistered
  <2> QED
    BY <1>1, <2>1, <2>2 DEF RecordInv, EnginesRegistered
<1> QED
  BY <1>1 DEF EngineOfRecord

\* Only loaded plugins have engines, so their libraries are all that is open.
LEMMA RecordGivesLibraries == RecordInv => LibrariesAccounted
<1> SUFFICES ASSUME RecordInv, NEW k \in Keys
             PROVE  libs[k] = IF k \in plugins \cup {part[e].key : e \in Live} THEN 1 ELSE 0
  BY DEF LibrariesAccounted
<1>1. ASSUME NEW e \in Live PROVE part[e].key \in plugins
  BY <1>1, LivePart, ManagerAssumption DEF RecordInv, EnginesRegistered
<1>2. k \in plugins \cup {part[e].key : e \in Live} <=> k \in plugins
  BY <1>1
<1> QED
  BY <1>2 DEF RecordInv, LibsMatch

\* Whatever fails half way and however often a transaction loads: the count of
\* an engine's references never falls below the transactions recorded for it.
THEOREM ReferencesCover == Spec => [](RecordInv /\ TypeOK /\ RefCountCovers)
<1>1. RecordInv => TypeOK /\ RefCountCovers
  BY DEF RecordInv
<1> QED
  BY <1>1, InitRecord, NextRecord, PTL DEF Spec

\* StopEngine never destroys an engine, or unloads a plugin, that a recorded
\* transaction still uses, and an algorithm never has two engines.
THEOREM NoEngineTakenAway == Spec => []EngineOfRecord
BY InitRecord, NextRecord, RecordGivesEngine, PTL DEF Spec

\* A plugin's library is open once while the plugin or an engine of it exists,
\* and closed otherwise, whatever fails on the way (plugin.cpp, HandleGuard).
THEOREM LibrariesOpenWhileUsed == Spec => []LibrariesAccounted
BY InitRecord, NextRecord, RecordGivesLibraries, PTL DEF Spec
-------------------------------------------------------------------------------
(* The pools: what an idle list, a popped object and a pushed one are.      *)

\* Taking the oldest object leaves the others, each still there once.
LEMMA TailOfIdle ==
    ASSUME NEW S, NEW s \in Seq(S), s # << >>
    PROVE  /\ Tail(s) \in Seq(S) /\ Head(s) \in InSeq(s)
           /\ InSeq(Tail(s)) \subseteq InSeq(s)
           /\ NoDuplicates(s) => NoDuplicates(Tail(s)) /\ Head(s) \notin InSeq(Tail(s))
<1>1. /\ Tail(s) \in Seq(S) /\ Head(s) = s[1] /\ 1 \in DOMAIN s
      /\ \A i \in DOMAIN Tail(s) : i + 1 \in DOMAIN s /\ Tail(s)[i] = s[i + 1] /\ i \in Nat /\ i # 0
  OBVIOUS
<1>2. Head(s) \in InSeq(s) /\ InSeq(Tail(s)) \subseteq InSeq(s)
  BY <1>1 DEF InSeq
<1>3. NoDuplicates(s) => NoDuplicates(Tail(s))
  BY <1>1 DEF NoDuplicates
<1>4. NoDuplicates(s) => Head(s) \notin InSeq(Tail(s))
  BY <1>1 DEF NoDuplicates, InSeq
<1> QED
  BY <1>1, <1>2, <1>3, <1>4

\* Giving an object back adds it, once if it was not there.
LEMMA AppendToIdle ==
    ASSUME NEW S, NEW s \in Seq(S), NEW x \in S
    PROVE  /\ Append(s, x) \in Seq(S) /\ InSeq(Append(s, x)) = InSeq(s) \cup {x}
           /\ NoDuplicates(s) /\ x \notin InSeq(s) => NoDuplicates(Append(s, x))
<1>1. /\ Append(s, x) \in Seq(S) /\ Len(s) \in Nat
      /\ DOMAIN s = 1 .. Len(s) /\ DOMAIN Append(s, x) = 1 .. Len(s) + 1
      /\ Append(s, x)[Len(s) + 1] = x
      /\ \A i \in DOMAIN s : Append(s, x)[i] = s[i]
  OBVIOUS
<1>2. \A i \in DOMAIN Append(s, x) : i = Len(s) + 1 \/ i \in DOMAIN s
  BY <1>1
<1>3. Len(s) + 1 \in DOMAIN Append(s, x) /\ DOMAIN s \subseteq DOMAIN Append(s, x)
  BY <1>1
<1>4. InSeq(Append(s, x)) = InSeq(s) \cup {x}
  <2>1. InSeq(Append(s, x)) \subseteq InSeq(s) \cup {x}
    BY <1>1, <1>2, Zenon DEF InSeq
  <2>2. InSeq(s) \subseteq InSeq(Append(s, x)) /\ x \in InSeq(Append(s, x))
    BY <1>1, <1>3, Zenon DEF InSeq
  <2> QED
    BY <2>1, <2>2
<1>5. ASSUME NoDuplicates(s), x \notin InSeq(s) PROVE NoDuplicates(Append(s, x))
  <2> SUFFICES ASSUME NEW i \in DOMAIN Append(s, x), NEW j \in DOMAIN Append(s, x),
                      Append(s, x)[i] = Append(s, x)[j]
               PROVE  i = j
    BY Zenon DEF NoDuplicates
  <2>1. \A k \in DOMAIN s : s[k] # x
    BY <1>5 DEF InSeq
  <2> QED
    BY <1>1, <1>2, <1>5, <2>1, Zenon DEF NoDuplicates
<1> QED
  BY <1>1, <1>4, <1>5

\* ThreadPool::Pop gives a thread that no engine has and that runs nothing, and
\* takes it off the idle list.
LEMMA PoppedThread ==
    ASSUME TypeOK, PoolInv, "init" \notin mishaps, NEW t \in ThreadIds, PopThread(t)
    PROVE  /\ IdleThreadsAfterPop \in Seq(ThreadIds)
           /\ NoDuplicates(IdleThreadsAfterPop)
           /\ InSeq(IdleThreadsAfterPop) \subseteq InSeq(idleThreads)
           /\ t \notin InSeq(IdleThreadsAfterPop)
           /\ \A e \in Live : part[e].thread # t
           /\ runs[t] = NoObj
<1>0. /\ idleThreads \in Seq(ThreadIds) /\ NoDuplicates(idleThreads) /\ RunsOwner
      /\ \A e \in Live : part[e].thread \notin InSeq(idleThreads)
  BY DEF TypeOK, PoolInv, PoolsAccounted
<1>1. CASE idleThreads = << >>
  <2>1. IdleThreadsAfterPop = << >> /\ t \notin UsedThreads
    BY <1>1 DEF PopThread, IdleThreadsAfterPop
  <2>2. NoDuplicates(<< >>) /\ InSeq(<< >>) = {}
    BY DEF NoDuplicates, InSeq
  <2>3. << >> \in Seq(ThreadIds)
    OBVIOUS
  <2>4. \A e \in Live : part[e].thread # t
    BY <2>1 DEF UsedThreads
  <2>5. runs[t] = NoObj
    BY <1>0, <2>4 DEF RunsOwner
  <2> QED
    BY <2>1, <2>2, <2>3, <2>4, <2>5
<1>2. CASE idleThreads # << >>
  <2>1. IdleThreadsAfterPop = Tail(idleThreads) /\ t = Head(idleThreads)
    BY <1>2 DEF PopThread, IdleThreadsAfterPop
  <2>2. /\ Tail(idleThreads) \in Seq(ThreadIds) /\ t \in InSeq(idleThreads)
        /\ InSeq(Tail(idleThreads)) \subseteq InSeq(idleThreads)
        /\ NoDuplicates(Tail(idleThreads)) /\ t \notin InSeq(Tail(idleThreads))
    BY <1>0, <1>2, <2>1, TailOfIdle
  <2>4. \A e \in Live : part[e].thread # t
    BY <1>0, <2>2
  <2>5. runs[t] = NoObj
    BY <1>0, <2>4 DEF RunsOwner
  <2> QED
    BY <2>1, <2>2, <2>4, <2>5
<1> QED
  BY <1>1, <1>2

\* QueuePool::Pop gives a queue that no engine has and takes it off the list.
LEMMA PoppedQueue ==
    ASSUME TypeOK, PoolInv, "init" \notin mishaps, NEW q \in QueueIds, PopQueue(q)
    PROVE  /\ IdleQueuesAfterPop \in Seq(QueueIds)
           /\ NoDuplicates(IdleQueuesAfterPop)
           /\ InSeq(IdleQueuesAfterPop) \subseteq InSeq(idleQueues)
           /\ q \notin InSeq(IdleQueuesAfterPop)
           /\ \A e \in Live : part[e].queue # q
<1>0. /\ idleQueues \in Seq(QueueIds) /\ NoDuplicates(idleQueues)
      /\ \A e \in Live : part[e].queue \notin InSeq(idleQueues)
  BY DEF TypeOK, PoolInv, PoolsAccounted
<1>1. CASE idleQueues = << >>
  <2>1. IdleQueuesAfterPop = << >> /\ q \notin UsedQueues
    BY <1>1 DEF PopQueue, IdleQueuesAfterPop
  <2>2. NoDuplicates(<< >>) /\ InSeq(<< >>) = {}
    BY DEF NoDuplicates, InSeq
  <2>3. << >> \in Seq(QueueIds)
    OBVIOUS
  <2>4. \A e \in Live : part[e].queue # q
    BY <2>1 DEF UsedQueues
  <2> QED
    BY <2>1, <2>2, <2>3, <2>4
<1>2. CASE idleQueues # << >>
  <2>1. IdleQueuesAfterPop = Tail(idleQueues) /\ q = Head(idleQueues)
    BY <1>2 DEF PopQueue, IdleQueuesAfterPop
  <2>2. /\ Tail(idleQueues) \in Seq(QueueIds) /\ q \in InSeq(idleQueues)
        /\ InSeq(Tail(idleQueues)) \subseteq InSeq(idleQueues)
        /\ NoDuplicates(Tail(idleQueues)) /\ q \notin InSeq(Tail(idleQueues))
    BY <1>0, <1>2, <2>1, TailOfIdle
  <2>4. \A e \in Live : part[e].queue # q
    BY <1>0, <2>2
  <2> QED
    BY <2>1, <2>2, <2>4
<1> QED
  BY <1>1, <1>2
\* At first there is nothing in the pools and nothing in use.
LEMMA InitPools == Init => PoolInv
<1> SUFFICES ASSUME Init PROVE PoolInv
  OBVIOUS
<1>1. Live = {} /\ BusyQueues = {}
  BY DEF Live, BusyQueues, Init
<1>2. IsFiniteSet(BusyQueues) /\ Cardinality(BusyQueues) = 0
  BY <1>1, FS_EmptySet, Zenon
<1>3. NoDuplicates(idleThreads) /\ NoDuplicates(idleQueues) /\ RunsOwner /\ busyQueueNum = 0
  BY DEF Init, NoDuplicates, RunsOwner
<1> QED
  BY <1>1, <1>2, <1>3 DEF PoolInv, PoolsAccounted, BusyCovered

\* A step that leaves the engines and the pools alone.
LEMMA PoolsUntouched ==
    ASSUME PoolInv, UNCHANGED <<part, idleThreads, runs, idleQueues, busyQueueNum>>,
           "init" \in mishaps' <=> "init" \in mishaps,
           "noqueue" \in mishaps' <=> "noqueue" \in mishaps
    PROVE  PoolInv'
<1>1. Live' = Live /\ BusyQueues' = BusyQueues
  BY DEF Live, BusyQueues
<1> QED
  BY <1>1 DEF PoolInv, PoolsAccounted, RunsOwner, BusyCovered

\* CreateEngine gives a new engine a thread and a queue of its own.
LEMMA CreateEnginePools ==
    ASSUME RecordInv, PoolInv, NEW key \in Keys,
           NEW e \in EngineIds, NEW t \in ThreadIds, NEW q \in QueueIds,
           CreateEngine(key, e, t, q),
           "init" \in mishaps' <=> "init" \in mishaps,
           "noqueue" \in mishaps' <=> "noqueue" \in mishaps
    PROVE  PoolInv'
<1> SUFFICES ASSUME "init" \notin mishaps PROVE PoolInv'
  BY DEF PoolInv, PoolsAccounted
<1>0. TypeOK /\ EnginesRegistered /\ LibsMatch /\ PopThread(t) /\ PopQueue(q)
  BY DEF RecordInv, CreateEngine
<1>1. Live' = Live \cup {e} /\ e \notin Live
  BY <1>0, CreateEngineRegisters
<1>2. /\ part' = [part EXCEPT ![e] = [key |-> key, thread |-> t, queue |-> q]]
      /\ idleThreads' = IdleThreadsAfterPop /\ runs' = [runs EXCEPT ![t] = e]
      /\ idleQueues' = IdleQueuesAfterPop /\ busyQueueNum' = busyQueueNum + 1
  BY DEF CreateEngine
<1>3. /\ part'[e].thread = t /\ part'[e].queue = q
      /\ \A f \in Live : f \in EngineIds /\ f # e /\ part'[f] = part[f]
  BY <1>0, <1>1, <1>2 DEF TypeOK, Live
<1>4. runs'[t] = e /\ \A u \in ThreadIds \ {t} : runs'[u] = runs[u]
  BY <1>0, <1>2 DEF TypeOK
<1>5. /\ NoDuplicates(idleThreads') /\ InSeq(idleThreads') \subseteq InSeq(idleThreads)
      /\ t \notin InSeq(idleThreads') /\ \A f \in Live : part[f].thread # t
  BY <1>0, <1>2, PoppedThread
<1>6. /\ NoDuplicates(idleQueues') /\ InSeq(idleQueues') \subseteq InSeq(idleQueues)
      /\ q \notin InSeq(idleQueues') /\ \A f \in Live : part[f].queue # q
  BY <1>0, <1>2, PoppedQueue
<1>7. /\ RunsOwner /\ BusyCovered
      /\ "noqueue" \notin mishaps => busyQueueNum = Cardinality(BusyQueues)
      /\ \A f \in Live :
          /\ part[f].thread \notin InSeq(idleThreads) /\ part[f].thread \in ThreadIds
          /\ part[f].queue \notin InSeq(idleQueues)
          /\ runs[part[f].thread] = f
          /\ \A g \in Live \ {f} : part[g].thread # part[f].thread /\ part[g].queue # part[f].queue
  BY <1>0, LivePart DEF PoolInv, PoolsAccounted
<1>8. ASSUME NEW f \in Live'
      PROVE  /\ part'[f].thread \notin InSeq(idleThreads')
             /\ part'[f].queue \notin InSeq(idleQueues')
             /\ runs'[part'[f].thread] = f
             /\ \A g \in Live' \ {f} :
                   part'[g].thread # part'[f].thread /\ part'[g].queue # part'[f].queue
  <2>1. CASE f = e
    <3>1. \A g \in Live' \ {f} : g \in Live /\ part'[g] = part[g]
      BY <2>1, <1>1, <1>3
    <3> QED
      BY <2>1, <3>1, <1>3, <1>4, <1>5, <1>6
  <2>2. CASE f # e
    <3>1. f \in Live /\ part'[f] = part[f]
      BY <2>2, <1>1, <1>3
    <3>2. runs'[part'[f].thread] = f
      BY <3>1, <1>4, <1>5, <1>7
    <3>3. ASSUME NEW g \in Live' \ {f}
          PROVE  part'[g].thread # part'[f].thread /\ part'[g].queue # part'[f].queue
      <4>1. CASE g = e
        BY <4>1, <3>1, <1>3, <1>5, <1>6
      <4>2. CASE g # e
        <5>1. g \in Live \ {f} /\ part'[g] = part[g]
          BY <4>2, <3>3, <1>1, <1>3
        <5> QED
          BY <5>1, <3>1, <1>7
      <4> QED
        BY <4>1, <4>2
    <3> QED
      BY <3>1, <3>2, <3>3, <1>5, <1>6, <1>7
  <2> QED
    BY <2>1, <2>2
<1>9. RunsOwner'
  <2> SUFFICES ASSUME NEW u \in ThreadIds, runs'[u] # NoObj
               PROVE  runs'[u] \in Live' /\ part'[runs'[u]].thread = u
    BY DEF RunsOwner
  <2>1. CASE u = t
    BY <2>1, <1>1, <1>3, <1>4
  <2>2. CASE u # t
    BY <2>2, <1>1, <1>3, <1>4, <1>7 DEF RunsOwner
  <2> QED
    BY <2>1, <2>2
<1>10. BusyQueues' = BusyQueues \cup {q} /\ q \notin BusyQueues
  <2>1. ASSUME NEW x PROVE x \in BusyQueues' <=> x \in BusyQueues \cup {q}
    BY <1>1, <1>3 DEF BusyQueues
  <2> QED
    BY <2>1, <1>6 DEF BusyQueues
<1>11. /\ IsFiniteSet(BusyQueues') /\ Cardinality(BusyQueues') = Cardinality(BusyQueues) + 1
       /\ Cardinality(BusyQueues) \in Nat /\ busyQueueNum \in Nat
       /\ Cardinality(BusyQueues) <= busyQueueNum
  <2>1. IsFiniteSet(BusyQueues) /\ Cardinality(BusyQueues) <= busyQueueNum
    BY <1>7 DEF BusyCovered
  <2> QED
    BY <1>0, <1>10, <2>1, FS_AddElement, FS_CardinalityType DEF TypeOK
<1>12. BusyCovered' /\ ("noqueue" \notin mishaps' => busyQueueNum' = Cardinality(BusyQueues'))
  BY <1>2, <1>7, <1>11 DEF BusyCovered
<1> QED
  BY <1>5, <1>6, <1>8, <1>9, <1>12 DEF PoolInv, PoolsAccounted
\* A failed CreateEngine puts back what it popped; only a queue that could not
\* be allocated stays counted.
LEMMA StartCreateFailsPools ==
    ASSUME RecordInv, PoolInv, NEW key \in Keys, StartCreateFails(key)
    PROVE  PoolInv'
<1>0. TypeOK /\ part' = part /\ ("init" \in mishaps' <=> "init" \in mishaps)
  BY DEF RecordInv, StartCreateFails
<1> SUFFICES ASSUME "init" \notin mishaps PROVE PoolInv'
  BY <1>0 DEF PoolInv, PoolsAccounted
<1>1. Live' = Live /\ BusyQueues' = BusyQueues
  BY <1>0 DEF Live, BusyQueues
<1>2. /\ RunsOwner /\ BusyCovered /\ NoDuplicates(idleThreads) /\ NoDuplicates(idleQueues)
      /\ "noqueue" \notin mishaps => busyQueueNum = Cardinality(BusyQueues)
      /\ busyQueueNum \in Nat
  BY <1>0 DEF PoolInv, PoolsAccounted, TypeOK
<1>3. \A f \in Live :
          /\ part[f].thread \notin InSeq(idleThreads) /\ part[f].thread \in ThreadIds
          /\ part[f].queue \notin InSeq(idleQueues)
          /\ runs[part[f].thread] = f
          /\ \A g \in Live \ {f} : part[g].thread # part[f].thread /\ part[g].queue # part[f].queue
  BY <1>0, LivePart DEF PoolInv, PoolsAccounted
<1>4. CASE UNCHANGED <<idleThreads, runs, idleQueues, busyQueueNum, mishaps>>
  BY <1>0, <1>4, PoolsUntouched
<1>5. ASSUME NEW t \in ThreadIds, PopThread(t),
             idleThreads' = Append(IdleThreadsAfterPop, t),
             runs' = [runs EXCEPT ![t] = NoObj],
             \/ UNCHANGED <<idleQueues, busyQueueNum, mishaps>>
             \/ /\ busyQueueNum' = busyQueueNum + 1
                /\ mishaps' = mishaps \cup {"noqueue"} /\ UNCHANGED idleQueues
             \/ /\ \E q \in QueueIds : PopQueue(q) /\ idleQueues' = Append(IdleQueuesAfterPop, q)
                /\ UNCHANGED <<busyQueueNum, mishaps>>
      PROVE  PoolInv'
  <2>1. /\ IdleThreadsAfterPop \in Seq(ThreadIds) /\ NoDuplicates(IdleThreadsAfterPop)
        /\ InSeq(IdleThreadsAfterPop) \subseteq InSeq(idleThreads)
        /\ t \notin InSeq(IdleThreadsAfterPop)
        /\ \A f \in Live : part[f].thread # t
        /\ runs[t] = NoObj
    BY <1>0, <1>5, PoppedThread
  <2>2. /\ NoDuplicates(idleThreads') /\ InSeq(idleThreads') \subseteq InSeq(idleThreads) \cup {t}
    BY <1>5, <2>1, AppendToIdle
  <2>3. runs' = runs
    BY <1>0, <1>5, <2>1 DEF TypeOK
  <2>4. NoDuplicates(idleQueues') /\ \A f \in Live : part[f].queue \notin InSeq(idleQueues')
    <3>1. CASE idleQueues' = idleQueues
      BY <3>1, <1>2, <1>3
    <3>2. ASSUME NEW q \in QueueIds, PopQueue(q), idleQueues' = Append(IdleQueuesAfterPop, q)
          PROVE  NoDuplicates(idleQueues') /\ \A f \in Live : part[f].queue \notin InSeq(idleQueues')
      <4>1. /\ IdleQueuesAfterPop \in Seq(QueueIds) /\ NoDuplicates(IdleQueuesAfterPop)
            /\ InSeq(IdleQueuesAfterPop) \subseteq InSeq(idleQueues)
            /\ q \notin InSeq(IdleQueuesAfterPop)
            /\ \A f \in Live : part[f].queue # q
        BY <1>0, <3>2, PoppedQueue
      <4>2. NoDuplicates(idleQueues') /\ InSeq(idleQueues') = InSeq(IdleQueuesAfterPop) \cup {q}
        BY <3>2, <4>1, AppendToIdle
      <4> QED
        BY <1>3, <4>1, <4>2
    <3> QED
      BY <1>5, <3>1, <3>2
  <2>5. /\ busyQueueNum' \in Nat /\ busyQueueNum' >= busyQueueNum
        /\ "noqueue" \notin mishaps' => "noqueue" \notin mishaps /\ busyQueueNum' = busyQueueNum
    BY <1>2, <1>5
  <2>6. BusyCovered'
    <3>1. IsFiniteSet(BusyQueues) /\ Cardinality(BusyQueues) \in Nat
      BY <1>2, FS_CardinalityType DEF BusyCovered
    <3> QED
      BY <1>1, <1>2, <2>5, <3>1 DEF BusyCovered
  <2>7. RunsOwner'
    BY <1>0, <1>1, <1>2, <2>3 DEF RunsOwner
  <2>8. \A f \in Live' :
          /\ part'[f].thread \notin InSeq(idleThreads') /\ part'[f].queue \notin InSeq(idleQueues')
          /\ runs'[part'[f].thread] = f
          /\ \A g \in Live' \ {f} :
                part'[g].thread # part'[f].thread /\ part'[g].queue # part'[f].queue
    BY <1>0, <1>1, <1>3, <2>1, <2>2, <2>3, <2>4
  <2>9. "noqueue" \notin mishaps' => busyQueueNum' = Cardinality(BusyQueues')
    BY <1>1, <1>2, <2>5
  <2> QED
    BY <2>2, <2>4, <2>6, <2>7, <2>8, <2>9 DEF PoolInv, PoolsAccounted
<1> QED
  BY <1>4, <1>5 DEF StartCreateFails

\* ~Engine gives the thread and the queue back; Push takes the queue, because
\* it counts this one at least.
LEMMA DestroyEnginePools ==
    ASSUME RecordInv, PoolInv, NEW e \in Live, DestroyEngine(e), mishaps' = mishaps
    PROVE  PoolInv'
<1> SUFFICES ASSUME "init" \notin mishaps PROVE PoolInv'
  BY DEF PoolInv, PoolsAccounted
<1> DEFINE t == part[e].thread
           q == part[e].queue
<1>0. TypeOK /\ e \in EngineIds /\ t \in ThreadIds /\ q \in QueueIds
  BY LivePart DEF RecordInv
<1>1. /\ RunsOwner /\ BusyCovered /\ NoDuplicates(idleThreads) /\ NoDuplicates(idleQueues)
      /\ "noqueue" \notin mishaps => busyQueueNum = Cardinality(BusyQueues)
      /\ busyQueueNum \in Nat
  BY <1>0 DEF PoolInv, PoolsAccounted, TypeOK
<1>2. \A f \in Live :
          /\ part[f].thread \notin InSeq(idleThreads) /\ part[f].thread \in ThreadIds
          /\ part[f].queue \notin InSeq(idleQueues)
          /\ runs[part[f].thread] = f
          /\ \A g \in Live \ {f} : part[g].thread # part[f].thread /\ part[g].queue # part[f].queue
  BY <1>0, LivePart DEF PoolInv, PoolsAccounted
<1>3. Live' = Live \ {e} /\ \A f \in Live' : part'[f] = part[f]
  BY <1>0 DEF DestroyEngine, Live, TypeOK
<1>4. BusyQueues' = BusyQueues \ {q} /\ q \in BusyQueues
  <2>1. ASSUME NEW x PROVE x \in BusyQueues' <=> x \in BusyQueues \ {q}
    <3>1. CASE x = q
      BY <3>1, <1>2, <1>3 DEF BusyQueues
    <3>2. CASE x # q
      BY <3>2, <1>3 DEF BusyQueues
    <3> QED
      BY <3>1, <3>2
  <2> QED
    BY <2>1 DEF BusyQueues
<1>5. /\ IsFiniteSet(BusyQueues') /\ Cardinality(BusyQueues') = Cardinality(BusyQueues) - 1
      /\ Cardinality(BusyQueues) \in Nat /\ Cardinality(BusyQueues') \in Nat
      /\ Cardinality(BusyQueues) <= busyQueueNum /\ 1 <= busyQueueNum
  <2>1. IsFiniteSet(BusyQueues) /\ Cardinality(BusyQueues) <= busyQueueNum
    BY <1>1 DEF BusyCovered
  <2>2. IsFiniteSet(BusyQueues') /\ Cardinality(BusyQueues') = Cardinality(BusyQueues) - 1
    BY <1>4, <2>1, FS_RemoveElement
  <2> QED
    BY <1>1, <2>1, <2>2, FS_CardinalityType
<1>6. /\ idleQueues' = Append(idleQueues, q) /\ busyQueueNum' = busyQueueNum - 1
      /\ idleThreads' = Append(idleThreads, t)
      /\ runs' = [runs EXCEPT ![t] = NoObj]
  BY <1>1, <1>5 DEF DestroyEngine, QueueReturned
<1>7. /\ NoDuplicates(idleQueues') /\ InSeq(idleQueues') = InSeq(idleQueues) \cup {q}
      /\ NoDuplicates(idleThreads') /\ InSeq(idleThreads') = InSeq(idleThreads) \cup {t}
  BY <1>0, <1>1, <1>2, <1>6, AppendToIdle DEF TypeOK
<1>8. ASSUME NEW f \in Live'
      PROVE  /\ part'[f].thread \notin InSeq(idleThreads')
             /\ part'[f].queue \notin InSeq(idleQueues')
             /\ runs'[part'[f].thread] = f
             /\ \A g \in Live' \ {f} :
                   part'[g].thread # part'[f].thread /\ part'[g].queue # part'[f].queue
  <2>1. f \in Live /\ f # e /\ part'[f] = part[f] /\ part[f].thread # t /\ part[f].queue # q
    BY <1>2, <1>3
  <2>2. runs'[part[f].thread] = f
    BY <1>0, <1>2, <1>6, <2>1 DEF TypeOK
  <2>3. \A g \in Live' \ {f} : g \in Live \ {f} /\ part'[g] = part[g]
    BY <1>3
  <2> QED
    BY <1>2, <1>7, <2>1, <2>2, <2>3
<1>9. RunsOwner'
  <2> SUFFICES ASSUME NEW u \in ThreadIds, runs'[u] # NoObj
               PROVE  runs'[u] \in Live' /\ part'[runs'[u]].thread = u
    BY DEF RunsOwner
  <2>1. u # t /\ runs'[u] = runs[u]
    BY <1>0, <1>6 DEF TypeOK
  <2>2. runs[u] \in Live /\ part[runs[u]].thread = u
    BY <1>1, <2>1 DEF RunsOwner
  <2> QED
    BY <2>1, <2>2, <1>3
<1>10. BusyCovered' /\ ("noqueue" \notin mishaps' => busyQueueNum' = Cardinality(BusyQueues'))
  BY <1>1, <1>5, <1>6 DEF BusyCovered
<1> QED
  BY <1>7, <1>8, <1>9, <1>10 DEF PoolInv, PoolsAccounted

\* Every step of the manager keeps the pools.
LEMMA NextPools == RecordInv /\ PoolInv /\ [Next]_vars => PoolInv'
<1> SUFFICES ASSUME RecordInv, PoolInv, [Next]_vars PROVE PoolInv'
  OBVIOUS
<1>1. ASSUME NEW tid \in Tids, NEW key \in Keys, StartExisting(tid, key) PROVE PoolInv'
  BY <1>1, PoolsUntouched DEF StartExisting, MayStart
<1>2. ASSUME NEW tid \in Tids, NEW key \in Keys, StartNew(tid, key) PROVE PoolInv'
  <2>1. /\ "init" \in mishaps' <=> "init" \in mishaps
        /\ "noqueue" \in mishaps' <=> "noqueue" \in mishaps
    BY <1>2 DEF StartNew, MayStart
  <2> QED
    BY <1>2, <2>1, CreateEnginePools DEF StartNew
<1>3. ASSUME NEW key \in Keys, StartFails(key) PROVE PoolInv'
  <2>1. CASE StartLoadFails(key)
    BY <2>1, PoolsUntouched DEF StartLoadFails
  <2>2. CASE StartPrepareFails(key)
    BY <2>2, CreateEnginePools DEF StartPrepareFails
  <2>3. CASE StartCreateFails(key)
    BY <2>3, StartCreateFailsPools
  <2>4. CASE StartInitFails(key)
    BY <2>4 DEF StartInitFails, PoolInv, PoolsAccounted
  <2> QED
    BY <1>3, <2>1, <2>2, <2>3, <2>4 DEF StartFails
<1>4. ASSUME NEW tid \in Tids, StopEngine(tid) PROVE PoolInv'
  <2>1. mishaps' = mishaps /\ clientEngines[tid] # NoObj /\ clientEngines[tid] \in Live
    BY <1>4 DEF StopEngine, RecordInv, RecordedLive
  <2>2. \/ DestroyEngine(clientEngines[tid])
        \/ UNCHANGED <<part, idleThreads, runs, idleQueues, busyQueueNum>>
    BY <1>4 DEF StopEngine
  <2> QED
    BY <2>1, <2>2, DestroyEnginePools, PoolsUntouched
<1>5. CASE UNCHANGED vars
  BY <1>5, PoolsUntouched DEF vars
<1> QED
  BY <1>1, <1>2, <1>3, <1>4, <1>5 DEF Next

\* Until an Engine::Initialize fails, no sequence of starts, failed starts and
\* stops hands a thread or a queue to two owners or loses one, and busyQueueNum_
\* is the number of queues in use unless one could not be allocated.
THEOREM PoolsKept == Spec => []PoolsAccounted
<1>1. PoolInv => PoolsAccounted
  BY DEF PoolInv
<1> QED
  BY <1>1, InitRecord, NextRecord, InitPools, NextPools, PTL DEF Spec
-------------------------------------------------------------------------------
(* The last user.                                                           *)

\* The first recording of a transaction adds exactly one user to its engine.
LEMMA FirstRecord ==
    ASSUME TypeOK, NEW tid \in Tids, NEW e \in EngineIds, clientEngines[tid] = NoObj,
           clientEngines' = [clientEngines EXCEPT ![tid] = e]
    PROVE  /\ Cardinality(Users(e)') = Cardinality(Users(e)) + 1
           /\ \A f \in EngineIds : f # e => Users(f)' = Users(f)
<1>1. clientEngines'[tid] = e /\ \A t \in Tids \ {tid} : clientEngines'[t] = clientEngines[t]
  BY DEF TypeOK
<1>2. NoObj \notin EngineIds
  BY ManagerAssumption
<1>3. Users(e)' = Users(e) \cup {tid} /\ tid \notin Users(e)
  BY <1>1, <1>2 DEF Users
<1>4. Cardinality(Users(e)') = Cardinality(Users(e)) + 1
  BY <1>3, UsersFinite, FS_AddElement
<1>5. \A f \in EngineIds : f # e => Users(f)' = Users(f)
  BY <1>1, <1>2 DEF Users
<1> QED
  BY <1>4, <1>5

\* An engine that does not exist has no user.
LEMMA NewEngineUnused ==
    ASSUME RecordedLive, NEW e \in EngineIds, e \notin Live
    PROVE  Users(e) = {} /\ Cardinality(Users(e)) = 0
<1>1. Users(e) = {}
  BY ManagerAssumption DEF RecordedLive, Users
<1> QED
  BY <1>1, FS_EmptySet, Zenon

\* A step that leaves the engines, their counts and the records alone.
LEMMA CountUntouched ==
    ASSUME CountExact, UNCHANGED <<part, refCount, clientEngines>>,
           "restart" \in mishaps' <=> "restart" \in mishaps
    PROVE  CountExact'
BY DEF CountExact, Live, Users

\* Every step keeps the counts exact until a transaction loads a second time.
LEMMA NextCount == RecordInv /\ CountExact /\ [Next]_vars => CountExact'
<1> SUFFICES ASSUME RecordInv, CountExact, [Next]_vars PROVE CountExact'
  OBVIOUS
<1>0. TypeOK /\ EnginesRegistered /\ RecordedLive /\ LibsMatch
  BY DEF RecordInv
<1>1. ASSUME NEW tid \in Tids, NEW key \in Keys, StartExisting(tid, key) PROVE CountExact'
  <2> SUFFICES ASSUME "restart" \notin mishaps', NEW f \in Live'
               PROVE  refCount'[f] = Cardinality(Users(f)')
    BY DEF CountExact
  <2>0. PICK e \in Live : e = engines[key]
    BY <1>0, <1>1 DEF StartExisting, EnginesRegistered
  <2>1. /\ clientEngines[tid] = NoObj /\ "restart" \notin mishaps /\ e \in EngineIds
        /\ refCount' = [refCount EXCEPT ![e] = @ + 1]
        /\ clientEngines' = [clientEngines EXCEPT ![tid] = e]
        /\ part' = part
    BY <1>1, <2>0 DEF StartExisting, MayStart, AddAndRecord, Live
  <2>2. f \in Live /\ f \in EngineIds /\ refCount[f] = Cardinality(Users(f))
    BY <2>1 DEF Live, CountExact
  <2>3. /\ Cardinality(Users(e)') = Cardinality(Users(e)) + 1
        /\ \A g \in EngineIds : g # e => Users(g)' = Users(g)
    BY <1>0, <2>1, FirstRecord
  <2> QED
    BY <1>0, <2>1, <2>2, <2>3 DEF TypeOK
<1>2. ASSUME NEW tid \in Tids, NEW key \in Keys, StartNew(tid, key) PROVE CountExact'
  <2> SUFFICES ASSUME "restart" \notin mishaps', NEW f \in Live'
               PROVE  refCount'[f] = Cardinality(Users(f)')
    BY DEF CountExact
  <2>1. PICK e \in EngineIds, t \in ThreadIds, q \in QueueIds :
            CreateEngine(key, e, t, q) /\ AddAndRecord(tid, e, [refCount EXCEPT ![e] = 0])
    BY <1>2 DEF StartNew
  <2>2. Live' = Live \cup {e} /\ e \notin Live
    BY <1>0, <2>1, CreateEngineRegisters
  <2>3. clientEngines[tid] = NoObj /\ "restart" \notin mishaps
    BY <1>2 DEF StartNew, MayStart
  <2>4. /\ clientEngines' = [clientEngines EXCEPT ![tid] = e]
        /\ refCount'[e] = 1 /\ \A g \in EngineIds \ {e} : refCount'[g] = refCount[g]
    BY <1>0, <2>1 DEF AddAndRecord, TypeOK
  <2>5. /\ Cardinality(Users(e)') = Cardinality(Users(e)) + 1 /\ Cardinality(Users(e)) = 0
        /\ \A g \in EngineIds : g # e => Users(g)' = Users(g)
    BY <1>0, <2>2, <2>3, <2>4, FirstRecord, NewEngineUnused
  <2>6. CASE f = e
    BY <2>4, <2>5, <2>6
  <2>7. CASE f # e
    <3>1. f \in Live /\ f \in EngineIds
      BY <2>2, <2>7 DEF Live
    <3> QED
      BY <2>3, <2>4, <2>5, <2>7, <3>1 DEF CountExact
  <2> QED
    BY <2>6, <2>7
<1>3. ASSUME NEW key \in Keys, StartFails(key) PROVE CountExact'
  <2>1. CASE StartLoadFails(key)
    BY <2>1, CountUntouched DEF StartLoadFails
  <2>2. CASE StartPrepareFails(key)
    <3> SUFFICES ASSUME "restart" \notin mishaps, NEW f \in Live'
                 PROVE  refCount'[f] = Cardinality(Users(f)')
      BY <2>2 DEF CountExact, StartPrepareFails
    <3>1. PICK e \in EngineIds, t \in ThreadIds, q \in QueueIds :
              CreateEngine(key, e, t, q) /\ refCount' = [refCount EXCEPT ![e] = 0]
      BY <2>2 DEF StartPrepareFails
    <3>2. Live' = Live \cup {e} /\ e \notin Live
      BY <1>0, <3>1, CreateEngineRegisters
    <3>3. \A g : Users(g)' = Users(g)
      BY <2>2 DEF StartPrepareFails, Users
    <3>4. refCount'[e] = 0 /\ \A g \in EngineIds \ {e} : refCount'[g] = refCount[g]
      BY <1>0, <3>1 DEF TypeOK
    <3>5. Cardinality(Users(e)) = 0
      BY <1>0, <3>2, NewEngineUnused
    <3> QED
      BY <3>2, <3>3, <3>4, <3>5 DEF CountExact, Live
  <2>3. CASE StartCreateFails(key)
    <3>1. "restart" \in mishaps' <=> "restart" \in mishaps
      BY <2>3 DEF StartCreateFails
    <3> QED
      BY <2>3, <3>1, CountUntouched DEF StartCreateFails
  <2>4. CASE StartInitFails(key)
    BY <2>4, CountUntouched DEF StartInitFails
  <2> QED
    BY <1>3, <2>1, <2>2, <2>3, <2>4 DEF StartFails
<1>4. ASSUME NEW tid \in Tids, StopEngine(tid) PROVE CountExact'
  <2> SUFFICES ASSUME "restart" \notin mishaps, NEW f \in Live'
               PROVE  refCount'[f] = Cardinality(Users(f)')
    BY <1>4 DEF CountExact, StopEngine
  <2>0. PICK e \in Live : e = clientEngines[tid]
    BY <1>0, <1>4 DEF StopEngine, RecordedLive
  <2>1. /\ e \in EngineIds
        /\ refCount' = [refCount EXCEPT ![e] = @ - 1]
        /\ clientEngines' = [clientEngines EXCEPT ![tid] = NoObj]
        /\ part' = part \/ part' = [part EXCEPT ![e] = NoPart]
    BY <1>4, <2>0 DEF StopEngine, DestroyEngine, Live
  <2>2. f \in Live /\ f \in EngineIds
    BY <1>0, <2>1 DEF Live, TypeOK
  <2>3. /\ tid \in Users(e) /\ Users(e)' = Users(e) \ {tid}
        /\ \A g \in EngineIds : g # e => Users(g)' = Users(g)
    BY <1>0, <2>0, <2>1, UsersAfterStop
  <2>4. Cardinality(Users(e)') = Cardinality(Users(e)) - 1
    BY <2>3, OneFewerUser
  <2>5. refCount'[e] = refCount[e] - 1 /\ \A g \in EngineIds \ {e} : refCount'[g] = refCount[g]
    BY <1>0, <2>1 DEF TypeOK
  <2> QED
    BY <2>1, <2>2, <2>3, <2>4, <2>5 DEF CountExact
<1>5. CASE UNCHANGED vars
  BY <1>5, CountUntouched DEF vars
<1> QED
  BY <1>1, <1>2, <1>3, <1>4, <1>5 DEF Next

\* The step in which an engine loses its only user is StopEngine, which finds
\* the count at one and destroys the engine.
LEMMA OnlyUserStops ==
    ASSUME RecordInv, CountExact, [Next]_vars, NEW t \in Tids,
           "restart" \notin mishaps, clientEngines[t] # NoObj,
           Users(clientEngines[t]) = {t}, clientEngines'[t] = NoObj
    PROVE  /\ part'[clientEngines[t]] = NoPart
           /\ part[clientEngines[t]].key \notin plugins'
<1> DEFINE e == clientEngines[t]
<1>0. TypeOK /\ RecordedLive /\ EnginesRegistered /\ LibsMatch
  BY DEF RecordInv
<1>1. e \in Live /\ e \in EngineIds /\ NoObj \notin EngineIds
  BY <1>0, ManagerAssumption DEF RecordedLive, Live
<1>2. StopEngine(t)
  <2>1. ASSUME NEW tid \in Tids, NEW f \in EngineIds,
               clientEngines' = [clientEngines EXCEPT ![tid] = f]
        PROVE  FALSE
    BY <1>0, <1>1, <2>1 DEF TypeOK
  <2>2. ASSUME NEW tid \in Tids, NEW key \in Keys, StartExisting(tid, key) PROVE FALSE
    <3>1. engines[key] \in EngineIds /\ clientEngines' = [clientEngines EXCEPT ![tid] = engines[key]]
      BY <1>0, <2>2 DEF StartExisting, AddAndRecord, TypeOK
    <3> QED
      BY <2>1, <3>1
  <2>3. ASSUME NEW tid \in Tids, NEW key \in Keys, StartNew(tid, key) PROVE FALSE
    BY <2>1, <2>3 DEF StartNew, AddAndRecord
  <2>4. ASSUME NEW key \in Keys, StartFails(key) PROVE FALSE
    <3>1. clientEngines' = clientEngines
      BY <2>4 DEF StartFails, StartLoadFails, StartPrepareFails, StartCreateFails, StartInitFails
    <3> QED
      BY <3>1
  <2>5. ASSUME NEW tid \in Tids, StopEngine(tid), tid # t PROVE FALSE
    <3>1. clientEngines' = [clientEngines EXCEPT ![tid] = NoObj]
      BY <2>5 DEF StopEngine
    <3> QED
      BY <3>1, <2>5, <1>0 DEF TypeOK
  <2>6. CASE UNCHANGED vars
    BY <2>6 DEF vars
  <2> QED
    BY <2>2, <2>3, <2>4, <2>5, <2>6 DEF Next
<1>3. refCount[e] = 1
  <2>1. Cardinality(Users(e)) = 1
    <3>1. Cardinality({t}) = 1
      BY FS_Singleton
    <3> QED
      BY <3>1
  <2> QED
    BY <1>1, <2>1 DEF CountExact
<1>4. refCount'[e] = 0
  BY <1>0, <1>1, <1>2, <1>3 DEF StopEngine, TypeOK
<1>5. UnloadPlugin(part[e].key) /\ DestroyEngine(e)
  BY <1>2, <1>4 DEF StopEngine
<1>6. part'[e] = NoPart
  BY <1>0, <1>1, <1>5 DEF DestroyEngine, TypeOK
<1> QED
  BY <1>5, <1>6 DEF UnloadPlugin

\* When the last user of an engine stops it, the engine is destroyed and its
\* plugin unloaded in the same call (engine_manager.cpp, StopEngine), whatever
\* starts failed before, unless some transaction has loaded twice.
THEOREM LastUserTakesEngineDown == Spec => LastUserUnloads
<1>1. Init => CountExact
  BY DEF Init, CountExact, Live
<1>2. RecordInv /\ CountExact /\ [Next]_vars =>
        [\A t \in Tids :
            LET e == clientEngines[t] IN
            ("restart" \notin mishaps /\ e # NoObj /\ Users(e) = {t} /\ clientEngines'[t] = NoObj)
                => part'[e] = NoPart /\ part[e].key \notin plugins']_vars
  BY OnlyUserStops
<1> QED
  BY <1>1, <1>2, InitRecord, NextRecord, NextCount, PTL DEF Spec, LastUserUnloads
===============================================================================
