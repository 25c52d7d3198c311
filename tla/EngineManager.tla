----------------------------- MODULE EngineManager -----------------------------
(***************************************************************************)
(* The server's engine life cycle: EngineManager (engines_ and             *)
(* clientEngines_), the plugins PluginManager keeps loaded, and the parts  *)
(* an Engine owns, a Thread of ThreadPool and a Queue of QueuePool.        *)
(*                                                                         *)
(* StartEngine and StopEngine run on the one task that serves IPC, so each *)
(* of them is one action; what is hard here is not interleaving but the    *)
(* failures half way through and long sequences of legal calls.  An engine *)
(* is an object with an identity (EngineIds): both maps hold shared        *)
(* pointers, and the destructor, which gives the thread and the queue      *)
(* back, runs in the handler that drops the last one.                      *)
(*                                                                         *)
(* A Plugin object holds its library open; it lives while pluginMap_ or an  *)
(* engine points to it.  Faults names the failures of the environment that  *)
(* may happen; some of them leave the pools or the counters astray for ever *)
(* (mishaps), and the properties say which they survive.                    *)
(***************************************************************************)
EXTENDS Integers, Sequences, FiniteSets

CONSTANTS
    Keys,           \* EngineKey: algorithm id and version
    Labelled,       \* the keys PluginLabel knows a library for
    Tids,           \* transaction ids
    EngineIds,      \* Engine objects
    ThreadIds,      \* Thread objects
    QueueIds,       \* Queue objects
    MaxQueueCount,  \* MAX_QUEUE_COUNT
    NoObj,          \* a null pointer
    Faults,         \* a subset of FaultKinds
    MaxIdle,        \* bound: the longest idle list a run explores
    MaxRef          \* bound: the highest reference count a run explores

FaultKinds == {"load",      \* the library or the object in it cannot be had
               "nothread",  \* ThreadPool::Pop cannot allocate
               "noqueue",   \* QueuePool::Pop cannot allocate
               "noengine",  \* the Engine object cannot be allocated
               "init",      \* Engine::Initialize fails
               "prepare",   \* the plugin's Prepare fails
               "restart"}   \* a transaction loads a second time

ASSUME ManagerAssumption ==
    /\ NoObj \notin EngineIds \cup ThreadIds \cup QueueIds
    /\ MaxQueueCount \in Nat
    /\ Faults \subseteq FaultKinds
    /\ MaxIdle \in Nat /\ MaxRef \in Nat
    /\ IsFiniteSet(Tids)
    /\ Labelled \subseteq Keys

VARIABLES
    engines,        \* engines_: key -> engine
    clientEngines,  \* clientEngines_: transaction -> engine
    refCount,       \* Engine::refCount_
    part,           \* the key, thread_ and queue_ of each engine object
    plugins,        \* the keys of PluginManager::pluginMap_
    idleThreads,    \* ThreadPool::idleThreads_
    runs,           \* runs[t]: the engine whose worker thread t is running
    idleQueues,     \* QueuePool::queues_
    busyQueueNum,   \* QueuePool::busyQueueNum_
    libs,           \* libs[k]: how often the library of k is open
    mishaps         \* ghost: the lasting accidents so far, a subset of Mishaps

vars == <<engines, clientEngines, refCount, part, plugins,
          idleThreads, runs, idleQueues, busyQueueNum, libs, mishaps>>

\* A queue counted but not handed out, an engine whose Initialize failed, a
\* transaction that was recorded a second time.
Mishaps == {"noqueue", "init", "restart"}

NoPart == [key |-> NoObj, thread |-> NoObj, queue |-> NoObj]

Init ==
    /\ engines = [k \in Keys |-> NoObj]
    /\ clientEngines = [t \in Tids |-> NoObj]
    /\ refCount = [e \in EngineIds |-> 0]
    /\ part = [e \in EngineIds |-> NoPart]
    /\ plugins = {}
    /\ idleThreads = << >>
    /\ runs = [t \in ThreadIds |-> NoObj]
    /\ idleQueues = << >>
    /\ busyQueueNum = 0
    /\ libs = [k \in Keys |-> 0]
    /\ mishaps = {}

\* The transactions recorded for an engine, and the engines that exist.
Users(e) == {t \in Tids : clientEngines[t] = e}
Live == {e \in EngineIds : part[e] # NoPart}

InSeq(s) == {s[i] : i \in DOMAIN s}
UsedThreads == InSeq(idleThreads) \cup {part[e].thread : e \in Live}
UsedQueues  == InSeq(idleQueues) \cup {part[e].queue : e \in Live}

-------------------------------------------------------------------------------
(* The two pools.  Pop takes the oldest idle object or allocates one; the   *)
(* effect of Push and Pop on the pool's state is given by these operators.  *)

PopThread(t) ==
    IF idleThreads = << >> THEN t \in ThreadIds \ UsedThreads ELSE t = Head(idleThreads)
IdleThreadsAfterPop == IF idleThreads = << >> THEN << >> ELSE Tail(idleThreads)

PopQueue(q) ==
    /\ busyQueueNum < MaxQueueCount
    /\ IF idleQueues = << >> THEN q \in QueueIds \ UsedQueues ELSE q = Head(idleQueues)
IdleQueuesAfterPop == IF idleQueues = << >> THEN << >> ELSE Tail(idleQueues)

\* mutant: Push does not count the queue back
QueueReturnedUncounted(idle, busy, q) == [idle |-> Append(idle, q), busy |-> busy]

\* QueuePool::Push refuses when it counts no busy queue.
QueueReturned(idle, busy, q) ==
    IF busy <= 0 THEN [idle |-> idle, busy |-> busy]
                 ELSE [idle |-> Append(idle, q), busy |-> busy - 1]

-------------------------------------------------------------------------------
(* StartEngine(tid, key), one action for each way it ends with a change.   *)
(* An unknown algorithm and a Prepare that fails on an existing engine      *)
(* return before anything here has changed.                                *)

\* PluginLabel::GetLibPath
GetLibPath(key) == key \in Labelled

\* AieDlopen gives no handle: not a file, not under /usr/, or refused by dlopen.
AieDlopenFails(key) == "load" \in Faults /\ GetLibPath(key)

\* PluginManager: a plugin is loaded once, and unloaded if it is loaded.
GetPlugin(key) ==
    /\ GetLibPath(key)
    /\ plugins' = plugins \cup {key}
    /\ libs' = IF key \in plugins THEN libs ELSE [libs EXCEPT ![key] = @ + 1]
UnloadPlugin(key) == plugins' = plugins \ {key}

\* mutant: the handle is not closed
CloseLibraryForgotten(key) == key \in Keys /\ libs' = libs

\* ~Plugin closes the library; it runs when neither pluginMap_ nor an engine
\* points to the object any more.
CloseLibrary(key) == libs' = [libs EXCEPT ![key] = @ - 1]

\* HandleGuard closes a library on the returns before Detach.
HandleGuard(count) == count - 1

\* GetPlugin fails: the label has no library, AieDlopen cannot open it, or it
\* lacks the symbol or gives no object and is closed again.  Nothing is recorded.
StartLoadFails(key) ==
    /\ engines[key] = NoObj /\ key \notin plugins
    /\ \/ ~GetLibPath(key) /\ UNCHANGED libs
       \/ AieDlopenFails(key) /\ UNCHANGED libs
       \/ "load" \in Faults /\ GetLibPath(key) /\ libs' = [libs EXCEPT ![key] = HandleGuard(@ + 1)]
    /\ UNCHANGED <<engines, clientEngines, refCount, part, plugins,
                   idleThreads, runs, idleQueues, busyQueueNum, mishaps>>

\* A transaction that loads a second time is the client's mistake.
MayStart(tid) ==
    /\ clientEngines[tid] # NoObj => "restart" \in Faults
    /\ mishaps' = IF clientEngines[tid] # NoObj THEN mishaps \cup {"restart"} ELSE mishaps

\* mutant: only the first user takes a reference
AddAndRecordFirst(tid, e, refs) ==
    /\ refCount' = [refs EXCEPT ![e] = 1]
    /\ clientEngines' = [clientEngines EXCEPT ![tid] = e]

\* plugin->Prepare, AddEngineReference, RecordClient
AddAndRecord(tid, e, refs) ==
    /\ refs[e] < MaxRef
    /\ refCount' = [refs EXCEPT ![e] = @ + 1]
    /\ clientEngines' = [clientEngines EXCEPT ![tid] = e]

\* FindEngine(engineKey) finds the engine.
StartExisting(tid, key) ==
    /\ MayStart(tid)
    /\ engines[key] # NoObj
    /\ AddAndRecord(tid, engines[key], refCount)
    /\ UNCHANGED <<engines, part, plugins, idleThreads, runs, idleQueues, busyQueueNum, libs>>

\* mutant: an engine is created without looking for one first
CreateEngineUnchecked(key, e, t, q) ==
    /\ e \in EngineIds \ Live
    /\ PopThread(t) /\ PopQueue(q)
    /\ runs[t] = NoObj
    /\ GetPlugin(key)
    /\ part' = [part EXCEPT ![e] = [key |-> key, thread |-> t, queue |-> q]]
    /\ engines' = [engines EXCEPT ![key] = e]
    /\ idleThreads' = IdleThreadsAfterPop
    /\ runs' = [runs EXCEPT ![t] = e]
    /\ idleQueues' = IdleQueuesAfterPop
    /\ busyQueueNum' = busyQueueNum + 1

\* CreateEngine up to and including Engine::Initialize, all succeeding.
CreateEngine(key, e, t, q) ==
    /\ engines[key] = NoObj
    /\ e \in EngineIds \ Live
    /\ PopThread(t) /\ PopQueue(q)
    /\ runs[t] = NoObj
    /\ GetPlugin(key)
    /\ part' = [part EXCEPT ![e] = [key |-> key, thread |-> t, queue |-> q]]
    /\ engines' = [engines EXCEPT ![key] = e]
    /\ idleThreads' = IdleThreadsAfterPop
    /\ runs' = [runs EXCEPT ![t] = e]
    /\ idleQueues' = IdleQueuesAfterPop
    /\ busyQueueNum' = busyQueueNum + 1

StartNew(tid, key) ==
    /\ MayStart(tid)
    /\ \E e \in EngineIds, t \in ThreadIds, q \in QueueIds :
        /\ CreateEngine(key, e, t, q)
        /\ AddAndRecord(tid, e, [refCount EXCEPT ![e] = 0])

\* mutant: the reference is taken before Prepare and not given back
StartPrepareFailsCounted(key) ==
    /\ "prepare" \in Faults
    /\ \E e \in EngineIds, t \in ThreadIds, q \in QueueIds :
        /\ CreateEngine(key, e, t, q)
        /\ refCount' = [refCount EXCEPT ![e] = 1]
    /\ UNCHANGED <<clientEngines, mishaps>>

\* Prepare fails on a new engine: it stays in engines_, used by nobody.
StartPrepareFails(key) ==
    /\ "prepare" \in Faults
    /\ \E e \in EngineIds, t \in ThreadIds, q \in QueueIds :
        /\ CreateEngine(key, e, t, q)
        /\ refCount' = [refCount EXCEPT ![e] = 0]
    /\ UNCHANGED <<clientEngines, mishaps>>

\* CreateEngine fails after GetPlugin and leaves the plugin loaded.  A failed
\* allocation in QueuePool::Pop has already counted the queue as busy.
StartCreateFails(key) ==
    /\ engines[key] = NoObj
    /\ GetPlugin(key)
    /\ \/ /\ "nothread" \in Faults /\ idleThreads = << >>
          /\ UNCHANGED <<idleThreads, runs, idleQueues, busyQueueNum, mishaps>>
       \/ \E t \in ThreadIds :
            /\ PopThread(t)
            /\ idleThreads' = Append(IdleThreadsAfterPop, t)
            /\ runs' = [runs EXCEPT ![t] = NoObj]
            /\ \/ busyQueueNum >= MaxQueueCount /\ UNCHANGED <<idleQueues, busyQueueNum, mishaps>>
               \/ /\ "noqueue" \in Faults /\ busyQueueNum < MaxQueueCount /\ idleQueues = << >>
                  /\ busyQueueNum' = busyQueueNum + 1
                  /\ mishaps' = mishaps \cup {"noqueue"}
                  /\ UNCHANGED idleQueues
               \/ /\ "noengine" \in Faults
                  /\ \E q \in QueueIds :
                        /\ PopQueue(q)
                        /\ idleQueues' = Append(IdleQueuesAfterPop, q)
                  /\ UNCHANGED <<busyQueueNum, mishaps>>
    /\ UNCHANGED <<engines, clientEngines, refCount, part>>

\* Engine::Initialize fails: no memory for the message handler, no thread can
\* be created, or the thread is already running.  CreateEngine gives the queue
\* and the thread back, and ~Engine gives both of them back again.
StartInitFails(key) ==
    /\ engines[key] = NoObj
    /\ EngineIds \ Live # {}
    /\ Len(idleThreads) + 2 <= MaxIdle
    /\ GetPlugin(key)
    /\ \E t \in ThreadIds, q \in QueueIds :
        /\ PopThread(t) /\ PopQueue(q)
        /\ "init" \in Faults \/ runs[t] # NoObj
        /\ LET once  == QueueReturned(IdleQueuesAfterPop, busyQueueNum + 1, q)
               twice == QueueReturned(once.idle, once.busy, q)
           IN  idleQueues' = twice.idle /\ busyQueueNum' = twice.busy
        /\ idleThreads' = IdleThreadsAfterPop \o <<t, t>>
        /\ runs' = [runs EXCEPT ![t] = NoObj]
    /\ mishaps' = mishaps \cup {"init"}
    /\ UNCHANGED <<engines, clientEngines, refCount, part>>

StartFails(key) ==
    StartLoadFails(key) \/ StartPrepareFails(key) \/ StartCreateFails(key) \/ StartInitFails(key)

-------------------------------------------------------------------------------
(* StopEngine(tid) when the plugin's Release succeeds; a Release that fails *)
(* returns before anything has changed.                                     *)

\* ~Engine: stop the worker, give the thread and the queue back.
DestroyEngine(e) ==
    /\ LET back == QueueReturned(idleQueues, busyQueueNum, part[e].queue)
       IN  idleQueues' = back.idle /\ busyQueueNum' = back.busy
    /\ idleThreads' = Append(idleThreads, part[e].thread)
    /\ runs' = [runs EXCEPT ![part[e].thread] = NoObj]
    /\ part' = [part EXCEPT ![e] = NoPart]

StopEngine(tid) ==
    LET e == clientEngines[tid] IN
    /\ e # NoObj
    /\ refCount' = [refCount EXCEPT ![e] = @ - 1]
    /\ clientEngines' = [clientEngines EXCEPT ![tid] = NoObj]
    /\ IF refCount'[e] = 0
         THEN /\ UnloadPlugin(part[e].key)
              /\ engines' = [engines EXCEPT ![part[e].key] = NoObj]
              /\ IF Users(e) = {tid}
                   THEN DestroyEngine(e) /\ CloseLibrary(part[e].key)
                   ELSE UNCHANGED <<part, idleThreads, runs, idleQueues, busyQueueNum, libs>>
         ELSE UNCHANGED <<plugins, engines, part, idleThreads, runs, idleQueues, busyQueueNum, libs>>
    /\ UNCHANGED mishaps

Next ==
    \/ \E tid \in Tids, key \in Keys : StartExisting(tid, key) \/ StartNew(tid, key)
    \/ \E key \in Keys : StartFails(key)
    \/ \E tid \in Tids : StopEngine(tid)

Spec == Init /\ [][Next]_vars
-------------------------------------------------------------------------------
(* Properties *)

\* Types.  Not by construction: refCount_ and busyQueueNum_ are decremented
\* on paths that the faults reach in any order, and must not go below zero.
TypeOK ==
    /\ engines \in [Keys -> EngineIds \cup {NoObj}]
    /\ clientEngines \in [Tids -> EngineIds \cup {NoObj}]
    /\ refCount \in [EngineIds -> Nat]
    /\ part \in [EngineIds -> [key : Keys, thread : ThreadIds, queue : QueueIds] \cup {NoPart}]
    /\ plugins \subseteq Keys
    /\ idleThreads \in Seq(ThreadIds)
    /\ runs \in [ThreadIds -> EngineIds \cup {NoObj}]
    /\ idleQueues \in Seq(QueueIds)
    /\ busyQueueNum \in Nat
    /\ libs \in [Keys -> Nat]
    /\ mishaps \subseteq Mishaps

\* refCount_ counts at least the transactions recorded for the engine, and an
\* engine that is gone has none: a count too low would take the engine down
\* while a client still uses it.
RefCountCovers ==
    \A e \in EngineIds : refCount[e] >= Cardinality(Users(e))

\* An engine that a transaction is recorded for exists, is the one engines_
\* holds for its key, and its plugin is still loaded: no sequence of starts,
\* failed starts and stops takes an engine from under a client, or leaves two
\* engines of one algorithm.
EngineOfRecord ==
    \A t \in Tids :
        LET e == clientEngines[t] IN
        e # NoObj => /\ e \in Live
                     /\ engines[part[e].key] = e
                     /\ part[e].key \in plugins

\* The inductive invariant behind these two: an engine object exists exactly
\* while engines_ holds it under its own key, with the plugin loaded, only such
\* engines are recorded for transactions, and loaded plugins have their library
\* open.
EnginesRegistered ==
    /\ \A e \in Live : engines[part[e].key] = e
    /\ \A k \in Keys : engines[k] # NoObj =>
          engines[k] \in Live /\ part[engines[k]].key = k /\ k \in plugins
RecordedLive == \A t \in Tids : clientEngines[t] # NoObj => clientEngines[t] \in Live
LibsMatch == libs = [k \in Keys |-> IF k \in plugins THEN 1 ELSE 0]
RecordInv == TypeOK /\ RefCountCovers /\ EnginesRegistered /\ RecordedLive /\ LibsMatch

\* The queues of the engines that exist.
BusyQueues == {part[e].queue : e \in Live}

NoDuplicates(s) == \A i, j \in DOMAIN s : s[i] = s[j] => i = j

\* Until an Engine::Initialize fails, which gives both back twice: a thread or
\* a queue belongs to one engine or is idle once in its pool, and the thread of
\* an engine runs that engine's worker.  And busyQueueNum_ is the number of
\* queues in use (queue_pool.h:66) until a queue could not be allocated, so the
\* pool never refuses a queue while fewer than MAX_QUEUE_COUNT are in use.
PoolsAccounted == "init" \notin mishaps =>
    /\ NoDuplicates(idleThreads) /\ NoDuplicates(idleQueues)
    /\ \A e \in Live :
        /\ part[e].thread \notin InSeq(idleThreads)
        /\ part[e].queue \notin InSeq(idleQueues)
        /\ runs[part[e].thread] = e
        /\ \A f \in Live \ {e} : part[f].thread # part[e].thread /\ part[f].queue # part[e].queue
    /\ "noqueue" \notin mishaps => busyQueueNum = Cardinality(BusyQueues)

\* The inductive invariant behind it, until an Initialize fails: a thread runs
\* only the engine it belongs to, so an idle one runs nothing, and busyQueueNum_
\* covers the queues in use, so ~Engine never finds Push refusing its queue.
RunsOwner == \A t \in ThreadIds :
    runs[t] # NoObj => runs[t] \in Live /\ part[runs[t]].thread = t
BusyCovered == IsFiniteSet(BusyQueues) /\ Cardinality(BusyQueues) <= busyQueueNum
PoolInv == PoolsAccounted /\ ("init" \notin mishaps => RunsOwner /\ BusyCovered)

\* A library is open as long as its plugin is loaded or one of its engines
\* exists, once, and not longer: no start that fails half way leaves one open,
\* and none is closed under an engine.
LibrariesAccounted ==
    \A k \in Keys :
        libs[k] = IF k \in plugins \cup {part[e].key : e \in Live} THEN 1 ELSE 0

\* The inductive invariant behind the next property: as long as no transaction
\* has loaded twice, an engine counts exactly the transactions recorded for it.
CountExact == "restart" \notin mishaps =>
    \A e \in Live : refCount[e] = Cardinality(Users(e))

\* When the last transaction of an engine stops it, the engine is destroyed
\* and its plugin unloaded in the same call (engine_manager.cpp:104), unless
\* some transaction has loaded twice.
LastUserUnloads ==
    [][\A t \in Tids :
        LET e == clientEngines[t] IN
        ("restart" \notin mishaps /\ e # NoObj /\ Users(e) = {t} /\ clientEngines'[t] = NoObj)
            => part'[e] = NoPart /\ part[e].key \notin plugins']_vars
===============================================================================
