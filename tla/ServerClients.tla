----------------------------- MODULE ServerClients -----------------------------
(***************************************************************************)
(* The server's books on its clients, shared by several client processes:  *)
(* the client ids and adapters of adapter_wrapper.cpp, the transactions of *)
(* each SaServerAdapter, EngineManager's record of who has an engine, and  *)
(* SaAsyncHandler's listeners and ClientListenerHandlers.                  *)
(*                                                                         *)
(* The service runs one IPC task (GetTaskConfig: SINGLE_TASK), so what a   *)
(* message of a client does on the server is one action.  A ClientPrepare  *)
(* or ClientRelease is up to two messages; those of several processes      *)
(* interleave.  A session is what ClientInit returned to an application; a *)
(* process may prepare any of them while it is connected.                  *)
(*                                                                         *)
(* ClientSession has the connection of one process in detail and           *)
(* AsyncPipeline the results of one client; here a result is only routed.  *)
(***************************************************************************)
EXTENDS Integers, FiniteSets

CONSTANTS
    Procs,              \* the client processes
    MaxInt,             \* INT_MAX
    MaxClients,         \* MAX_NUM_CLIENTS
    Sessions,           \* bound: the session ids a process uses
    AsyncSessions,      \* those that run an asynchronous algorithm
    ReleaseNeedsInput,  \* the plugin's Release fails without an input to decode
    NoProc,
    Faults              \* a subset of FaultKinds

FaultKinds == {"watch",      \* AddDeathRecipient fails after InitSaEngine
               "thread",     \* StartAsyncProcessThread gets no thread
               "load",       \* StartEngine fails
               "listener",   \* the FutureListener cannot be allocated
               "release",    \* the plugin's Release fails
               "norelease",  \* ClientDestroy is called without ClientRelease
               "crash"}      \* a client process dies

STARTING_CLIENT_ID == 1
ClientIds == STARTING_CLIENT_ID .. MaxInt
NoClient == -1          \* INVALID_CLIENT_ID

ASSUME ServerAssumption ==
    /\ NoProc \notin Procs
    /\ MaxInt \in Nat \ {0} /\ MaxClients \in Nat
    /\ MaxClients < MaxInt           \* so that FindValidClientId ends
    /\ Sessions \subseteq 0 .. MaxInt /\ AsyncSessions \subseteq Sessions
    /\ ReleaseNeedsInput \in BOOLEAN
    /\ Faults \subseteq FaultKinds

VARIABLES
    \* the client processes
    conn,       \* conn[p]: ClientFactory::clientId_
    state,      \* state[p][s]: what the application may expect of session s
    cbs,        \* cbs[p]: the keys of AsyncHandler::mapCbMsg_
    call,       \* call[p]: the session and the next message of a call
    \* the server
    lastId,     \* g_clientIdAtomic
    trans,      \* trans[c]: SaServerAdapter::transactionIds_, for c of g_saServerAdapters
    recorded,   \* the keys of EngineManager::clientEngines_
    listeners,  \* SaAsyncHandler::transactions_ and FutureFactory::listeners_
    handler,    \* handler[c]: SaAsyncHandler::clients_, and if its thread runs
    dangling,   \* the handlers whose worker holds a deleted SaServerAdapter
    svc         \* svc[c]: the process of SaServerAdapter::svcIdentity_

clientVars == <<conn, state, cbs, call>>
engineVars == <<trans, recorded>>
asyncVars  == <<listeners, handler, dangling, svc>>
vars == <<conn, state, cbs, call, lastId, trans, recorded, listeners, handler, dangling, svc>>

\* An int is 32 bits wide; MaxInt stands for 2^31 - 1.
IdMod == 2 * (MaxInt + 1)

\* (adapterId_ << ADAPT_ID_BIT) + sessionId
TransactionId(c, s) == c * IdMod + s

\* The low half, as an int.
GetSessionId(t) ==
    LET low == t % IdMod IN IF low > MaxInt THEN low - IdMod ELSE low

TransactionIds == {TransactionId(c, s) : c \in ClientIds, s \in Sessions}
Tid(p, s) == TransactionId(conn[p], s)

\* The clients for which FindAdapter finds an adapter.
Adapters == DOMAIN trans
Idle == [msg |-> "none", session |-> -1]
Calls == [msg : {"register", "load", "unregister", "unload"}, session : Sessions]

Init ==
    /\ conn = [p \in Procs |-> NoClient]
    /\ state = [p \in Procs |-> [s \in Sessions |-> "new"]]
    /\ cbs = [p \in Procs |-> {}]
    /\ call = [p \in Procs |-> Idle]
    /\ lastId = 0
    /\ trans = [c \in {} |-> {}]
    /\ recorded = {}
    /\ listeners = {}
    /\ handler = [c \in ClientIds |-> "none"]
    /\ dangling = {}
    /\ svc = [c \in ClientIds |-> NoProc]

\* The next message of a call, as the client's proxy sends it.
Send(p, s, msg) == call' = [call EXCEPT ![p] = [msg |-> msg, session |-> s]]
RegisterCallbackProxy(p, s) == Send(p, s, "register")
LoadAlgorithmProxy(p, s) == Send(p, s, "load")
UnregisterCallbackProxy(p, s) == Send(p, s, "unregister")
UnloadAlgorithmProxy(p, s) == Send(p, s, "unload")
Return(p) == call' = [call EXCEPT ![p] = Idle]
Becomes(p, s, st) == state' = [state EXCEPT ![p][s] = st]

-------------------------------------------------------------------------------
(* GenerateClient *)

\* The id after i: ++ wraps to a negative value, which the test brings to 1.
Successor(i) == IF i = MaxInt THEN STARTING_CLIENT_ID ELSE i + 1

\* mutant: ids in use are not skipped
FindValidClientIdUnchecked(c) == c = Successor(lastId)

\* The loop stops at the first id that has no adapter.
FindValidClientId(c) ==
    /\ Cardinality(Adapters) <= MaxClients
    /\ c \in ClientIds \ Adapters
    /\ \A d \in ClientIds \ Adapters :
          LET Steps(x) == IF x > lastId THEN x - lastId ELSE x - lastId + MaxInt
          IN  Steps(c) <= Steps(d)

\* AllocateClientAdapter
AddAdapter(c) == [d \in Adapters \cup {c} |-> IF d = c THEN {} ELSE trans[d]]

InitEngine(c) ==
    /\ FindValidClientId(c)
    /\ lastId' = c
    /\ trans' = AddAdapter(c)

Connect(p) ==
    /\ conn[p] = NoClient
    /\ \E c \in 1 .. MaxInt + 1 : InitEngine(c) /\ conn' = [conn EXCEPT ![p] = c]
    /\ UNCHANGED <<state, cbs, call, recorded, asyncVars>>

\* SaClient::Init fails after the server has made the client: the next try is
\* a client of its own, and nobody will destroy this one.
ConnectUnwatched(p) ==
    /\ "watch" \in Faults
    /\ conn[p] = NoClient
    /\ \E c \in 1 .. MaxInt + 1 : InitEngine(c)
    /\ UNCHANGED <<clientVars, recorded, asyncVars>>

-------------------------------------------------------------------------------
(* ClientPrepare: RegisterCb, for the first callback RegisterCallback, and  *)
(* LoadAlgorithm.  What has to be reverted is the callback.                 *)

\* GetAsyncCbSize() == 1 once RegisterCb has inserted s
FirstCallback(p, s) == cbs[p] \cup {s} = {s}

Prepare(p, s) ==
    /\ conn[p] # NoClient /\ call[p] = Idle /\ state[p][s] = "new"
    /\ IF s \in AsyncSessions
       THEN /\ cbs' = [cbs EXCEPT ![p] = @ \cup {s}]
            /\ IF FirstCallback(p, s) THEN RegisterCallbackProxy(p, s) ELSE LoadAlgorithmProxy(p, s)
       ELSE LoadAlgorithmProxy(p, s) /\ UNCHANGED cbs
    /\ UNCHANGED <<conn, state, lastId, engineVars, asyncVars>>

\* SaveEngineListener; RegisterAsyncHandler; StartAsyncProcess
RegisterCallback(p) ==
    /\ call[p].msg = "register"
    /\ svc' = [svc EXCEPT ![conn[p]] = p]
    /\ handler[conn[p]] # "running"
    /\ handler' = [handler EXCEPT ![conn[p]] = "running"]
    /\ LoadAlgorithmProxy(p, call[p].session)
    /\ UNCHANGED <<conn, state, cbs, lastId, engineVars, listeners, dangling>>

\* No thread, or RETCODE_ASYNC_CB_STARTED: ClientPrepare takes the callback back.
RegisterCallbackFails(p) ==
    /\ call[p].msg = "register"
    /\ svc' = [svc EXCEPT ![conn[p]] = p]
    /\ \/ handler[conn[p]] = "running" /\ UNCHANGED handler
       \/ /\ handler[conn[p]] # "running" /\ "thread" \in Faults
          /\ handler' = [handler EXCEPT ![conn[p]] = "idle"]
    /\ cbs' = [cbs EXCEPT ![p] = @ \ {call[p].session}]
    /\ Return(p)
    /\ UNCHANGED <<conn, state, lastId, engineVars, listeners, dangling>>

\* LoadAlgoWrapper: StartEngine, SaveTransaction, StartAsyncTransaction
LoadAlgorithm(p) ==
    LET s == call[p].session
        c == conn[p] IN
    /\ call[p].msg = "load" /\ c \in Adapters
    /\ recorded' = recorded \cup {Tid(p, s)}
    /\ trans' = [trans EXCEPT ![c] = @ \cup {Tid(p, s)}]
    /\ listeners' = IF s \in AsyncSessions THEN listeners \cup {Tid(p, s)} ELSE listeners
    /\ Becomes(p, s, "ready")
    /\ Return(p)
    /\ UNCHANGED <<conn, cbs, lastId, handler, dangling, svc>>

\* StartEngine fails, or the listener cannot be made when the engine has started.
LoadAlgorithmFails(p) ==
    LET s == call[p].session
        c == conn[p] IN
    /\ call[p].msg = "load" /\ c \in Adapters
    /\ \/ "load" \in Faults /\ UNCHANGED engineVars
       \/ /\ "listener" \in Faults /\ s \in AsyncSessions /\ Tid(p, s) \notin listeners
          /\ recorded' = recorded \cup {Tid(p, s)}
          /\ trans' = [trans EXCEPT ![c] = @ \cup {Tid(p, s)}]
    /\ cbs' = [cbs EXCEPT ![p] = @ \ {s}]
    /\ Return(p)
    /\ UNCHANGED <<conn, state, lastId, asyncVars>>

-------------------------------------------------------------------------------
(* ClientRelease: UnRegisterCb, with the last callback UnregisterCallback,  *)
(* and UnloadAlgorithm.  A session whose release failed is "stuck"; for an  *)
(* asynchronous one another ClientRelease finds no callback and gives up.   *)

\* mutant: the server's handler is always removed
LastCallbackAlways(p, s) == TRUE
\* IsCallbackEmpty() once UnRegisterCb has erased s
LastCallback(p, s) == cbs[p] \ {s} = {}

Release(p, s) ==
    /\ call[p] = Idle
    /\ state[p][s] = "ready" \/ (state[p][s] = "stuck" /\ s \notin AsyncSessions)
    /\ Becomes(p, s, "stuck")
    /\ IF s \in AsyncSessions
       THEN /\ cbs' = [cbs EXCEPT ![p] = @ \ {s}]
            /\ IF LastCallback(p, s) THEN UnregisterCallbackProxy(p, s) ELSE UnloadAlgorithmProxy(p, s)
       ELSE UnloadAlgorithmProxy(p, s) /\ UNCHANGED cbs
    /\ UNCHANGED <<conn, lastId, engineVars, asyncVars>>

\* StopAsyncProcess joins the worker and deletes the handler.
UnregisterCallback(p) ==
    /\ call[p].msg = "unregister"
    /\ handler' = [handler EXCEPT ![conn[p]] = "none"]
    /\ dangling' = dangling \ {conn[p]}
    /\ UnloadAlgorithmProxy(p, call[p].session)
    /\ UNCHANGED <<conn, state, cbs, lastId, engineVars, listeners, svc>>

\* mutant: the transaction is removed although StopEngine failed
UnloadFailsForgets(c, t) == trans' = [trans EXCEPT ![c] = @ \ {t}] /\ UNCHANGED recorded
UnloadFails(c, t) == UNCHANGED engineVars

UnloadDone(c, t) ==
    /\ recorded' = recorded \ {t}
    /\ trans' = [trans EXCEPT ![c] = @ \ {t}]

\* StopAsyncTransaction comes first and stays when StopEngine fails.
UnloadAlgorithm(p) ==
    LET s == call[p].session
        t == Tid(p, s) IN
    /\ call[p].msg = "unload"
    /\ listeners' = listeners \ {t}
    /\ \/ UnloadDone(conn[p], t) /\ Becomes(p, s, "new")
       \/ "release" \in Faults /\ UnloadFails(conn[p], t) /\ UNCHANGED state
    /\ Return(p)
    /\ UNCHANGED <<conn, cbs, lastId, handler, dangling, svc>>

-------------------------------------------------------------------------------
(* ClientDestroy of the last session: RemoveAdapterWrapper.  The adapter's  *)
(* destructor stops its engines with an empty input.  The client keeps      *)
(* mapCbMsg_, the server the handler and the listeners.                     *)

StoppedByDestructor(c) == IF ReleaseNeedsInput THEN {} ELSE trans[c]

Destroy(p) ==
    LET c == conn[p] IN
    /\ c # NoClient /\ call[p] = Idle
    /\ "norelease" \in Faults \/ \A s \in Sessions : state[p][s] # "ready"
    /\ recorded' = recorded \ StoppedByDestructor(c)
    /\ trans' = [d \in Adapters \ {c} |-> trans[d]]
    /\ dangling' = IF handler[c] = "running" THEN dangling \cup {c} ELSE dangling
    /\ svc' = [svc EXCEPT ![c] = NoProc]
    /\ conn' = [conn EXCEPT ![p] = NoClient]
    /\ state' = [state EXCEPT ![p] = [s \in Sessions |-> "new"]]
    /\ UNCHANGED <<cbs, call, lastId, listeners, handler>>

\* A process dies, perhaps in a call, and may be started again; the server is not told.
Crash(p) ==
    /\ "crash" \in Faults /\ conn[p] # NoClient
    /\ conn' = [conn EXCEPT ![p] = NoClient]
    /\ state' = [state EXCEPT ![p] = [s \in Sessions |-> "new"]]
    /\ cbs' = [cbs EXCEPT ![p] = {}]
    /\ Return(p)
    /\ UNCHANGED <<lastId, engineVars, asyncVars>>

-------------------------------------------------------------------------------

\* The handlers of the service's messages; unpacking their arguments is left out.
InvokeRegisterCallback(p) == RegisterCallback(p) \/ RegisterCallbackFails(p)
InvokeLoadAlgorithm(p) == LoadAlgorithm(p) \/ LoadAlgorithmFails(p)
InvokeUnregisterCallback(p) == UnregisterCallback(p)
InvokeUnloadAlgorithm(p) == UnloadAlgorithm(p)
InvokeDestroyEngine(p) == Destroy(p)
Invoke(p) ==
    \/ InvokeRegisterCallback(p) \/ InvokeLoadAlgorithm(p)
    \/ InvokeUnregisterCallback(p) \/ InvokeUnloadAlgorithm(p) \/ InvokeDestroyEngine(p)

Next == \E p \in Procs :
            \/ Connect(p) \/ ConnectUnwatched(p)
            \/ \E s \in Sessions : Prepare(p, s) \/ Release(p, s)
            \/ Invoke(p) \/ Crash(p)

Spec == Init /\ [][Next]_vars

-------------------------------------------------------------------------------
(* Correctness *)

\* The type of every variable: an id is a positive int, and an adapter's
\* transactions carry ids that can be decoded.
TypeOK ==
    /\ conn \in [Procs -> ClientIds \cup {NoClient}]
    /\ state \in [Procs -> [Sessions -> {"new", "ready", "stuck"}]]
    /\ cbs \in [Procs -> SUBSET AsyncSessions]
    /\ call \in [Procs -> Calls \cup {Idle}]
    /\ lastId \in 0 .. MaxInt
    /\ Adapters \subseteq ClientIds /\ \A c \in Adapters : trans[c] \subseteq TransactionIds
    /\ recorded \subseteq TransactionIds /\ listeners \subseteq TransactionIds
    /\ handler \in [ClientIds -> {"none", "idle", "running"}]
    /\ dangling \subseteq ClientIds
    /\ svc \in [ClientIds -> Procs \cup {NoProc}]

\* Two processes never hold the same client id, and the id of a connected
\* process has its adapter, after crashes, leaked clients and the wrap of the
\* id counter (FindValidClientId).
IdsUnique ==
    \A p \in Procs : conn[p] # NoClient =>
        /\ conn[p] \in Adapters
        /\ \A q \in Procs : conn[q] = conn[p] => q = p

\* Only a connected process has a call under way or a session prepared.
CallsConnected ==
    \A p \in Procs : (call[p] # Idle \/ \E s \in Sessions : state[p][s] # "new") => conn[p] # NoClient

ClientInv == TypeOK /\ IdsUnique /\ CallsConnected

\* Where a result of transaction t ends: the handler of the client in t's
\* upper half sends it to the process that registered, for GetSessionId(t).
Route(t) ==
    LET c == t \div IdMod IN
    IF t \in listeners /\ handler[c] = "running" /\ c \notin dangling
    THEN <<svc[c], GetSessionId(t)>> ELSE <<NoProc, -1>>

\* A prepared session has its engine until it is released, and a result for
\* it reaches that session of that process, whatever the other sessions and
\* processes prepare, release or destroy (GetAsyncCbSize, IsCallbackEmpty).
ReadyServed ==
    \A p \in Procs, s \in Sessions : state[p][s] = "ready" =>
        /\ Tid(p, s) \in recorded
        /\ s \in AsyncSessions => Route(Tid(p, s)) = <<p, s>>

\* EngineManager records exactly the transactions the adapters know of, so
\* that destroying a client can find all its engines, although a load may
\* fail after StartEngine and a release before RemoveTransaction.
RecordsMatch == recorded = UNION {trans[c] : c \in Adapters}

\* An adapter knows only transactions of its own client, and each of them has
\* an engine recorded, also when destructors leave engines behind.
KnownRecorded ==
    \A c \in Adapters :
        /\ trans[c] \subseteq {TransactionId(c, s) : s \in Sessions}
        /\ trans[c] \subseteq recorded

RecordInv == ClientInv /\ KnownRecorded /\ (~ReleaseNeedsInput => RecordsMatch)

\* A session that is being prepared is new, one that is being released stuck.
CallsFit ==
    \A p \in Procs : call[p] # Idle =>
        state[p][call[p].session] = IF call[p].msg \in {"register", "load"} THEN "new" ELSE "stuck"

\* mapCbMsg_ has the asynchronous sessions that are prepared or being prepared;
\* the handler is registered with the first of them and taken back after the last.
CallbacksExact ==
    \A p \in Procs :
        /\ cbs[p] = {s \in AsyncSessions :
                        \/ state[p][s] = "ready"
                        \/ call[p].session = s /\ call[p].msg \in {"register", "load"}}
        /\ call[p].msg = "register" => cbs[p] = {call[p].session}
        /\ call[p].msg = "unregister" => cbs[p] = {}

\* Once it is registered, the handler of a process that has a callback runs,
\* with its own adapter, and answers to that process.
HandlersServe ==
    /\ \A p \in Procs : (conn[p] # NoClient /\ cbs[p] # {} /\ call[p].msg # "register") =>
          handler[conn[p]] = "running" /\ conn[p] \notin dangling /\ svc[conn[p]] = p
    /\ \A c \in dangling : handler[c] = "running"

\* A prepared session has its engine and, for an asynchronous one, its listener.
ReadyKept ==
    \A p \in Procs, s \in Sessions : state[p][s] = "ready" =>
        Tid(p, s) \in recorded /\ (s \in AsyncSessions => Tid(p, s) \in listeners)

SessionsInv == CallsFit /\ CallbacksExact /\ HandlersServe /\ ReadyKept
ReadyInv == ClientInv /\ KnownRecorded /\ SessionsInv

\* ClientDestroy "release[s] and destroy[s] the client's resources"
\* (client_factory.h:86): no engine is recorded for a client without adapter.
DestroyReleases == \A t \in recorded : t \div IdMod \in Adapters
===============================================================================
