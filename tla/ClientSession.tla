----------------------------- MODULE ClientSession -----------------------------
(***************************************************************************)
(* The client library of one process: ClientFactory's sessions, the        *)
(* connection SaClientAdapter and SaClient keep for all of them, and the   *)
(* death of the server.                                                    *)
(*                                                                         *)
(* These threads touch this state: one application thread per session (one *)
(* ClientInfo per SDK object) that calls ClientInit and ClientDestroy, the *)
(* ConnectMgrWorker that InitAiServer starts for the first session and     *)
(* CloseAiServer stops after the last, and the IPC thread that delivers    *)
(* the server's death.  A call is split where another thread can come      *)
(* between.                                                                *)
(*                                                                         *)
(* EraseSessionInfo and the test for the last session do not share a lock, *)
(* and connectMgrThread_ has none: when a first session starts, or another *)
(* last one closes, while a last session is being closed, the threads race *)
(* on a shared_ptr.  And a ClientDestroy that failed leaves a session id   *)
(* that is not recorded any more; when it is given out again, a second     *)
(* ClientDestroy erases the session of another.  The model ends at these   *)
(* two accidents (broken).                                                 *)
(***************************************************************************)
EXTENDS Integers, FiniteSets

CONSTANTS
    Apps,           \* the ClientInfo structures of the application
    MaxSessions,    \* MAXIMUM_NUMBER_OF_SESSION
    MaxInt,         \* the largest int: sessionId_ wraps there
    ServerIds,      \* bound: the client ids the server hands out
    MaxDeaths,      \* bound: how often the server dies
    Faults          \* a subset of FaultKinds

INVALID == -1       \* INVALID_CLIENT_ID, INVALID_SESSION_ID
INVALID_UID == 0

FaultKinds == {"thread",    \* InitAiServer gets no thread or no worker
               "init",      \* the server refuses the client
               "watch"}     \* AddDeathRecipient fails

ASSUME SessionAssumption ==
    /\ MaxSessions \in Nat /\ MaxDeaths \in Nat
    /\ MaxInt \in Nat /\ MaxInt > MaxSessions
    /\ ServerIds \subseteq Nat \ {0}
    /\ Faults \subseteq FaultKinds

VARIABLES
    sessions,   \* the keys of sessionInfos_
    sessionId,  \* sessionId_
    clientId,   \* clientId_
    info,       \* the sessionId and clientId of each ClientInfo
    pc,         \* the next step of the call each ClientInfo is in
    broken,     \* ghost: one of the accidents above has happened
    worker,     \* the next step of the ConnectMgrWorker; "none": connectMgrThread_ is null
    stop,       \* running_ of its thread has been cleared
    workerId,   \* its clientInfo_.clientId
    proxy,      \* SaClient::proxy_: "none", or of a "live" or a "dead" server
    watch,      \* AddDeathRecipient is in force
    deathCb,    \* SaClient::deathCb_ is set
    deadCbs,    \* the keys of AsyncHandler::deadCbs_
    up,         \* the server runs
    clients,    \* the client ids it knows of this process
    notice,     \* its death is being delivered
    heard,      \* ghost: the sessions that registered after the last ClientDestroy
    owed,       \* ghost: those that are to be told of a death
    deaths,     \* how often it has died
    lost        \* ghost: client ids the worker forgot after a watch that failed

appVars    == <<info, pc, broken>>
countVars  == <<sessions, sessionId>>
workerVars == <<worker, stop, workerId, proxy, watch>>
deathVars  == <<deathCb, deadCbs, heard, owed>>
serverVars == <<up, clients, notice, deaths, lost>>
vars == <<sessions, sessionId, clientId, info, pc, broken, worker, stop, workerId,
          proxy, watch, deathCb, deadCbs, heard, owed, up, clients, notice, deaths, lost>>

NoInfo == [session |-> INVALID, client |-> INVALID]

Init ==
    /\ sessions = {} /\ sessionId = 0 /\ clientId = INVALID
    /\ info = [a \in Apps |-> NoInfo]
    /\ pc = [a \in Apps |-> "idle"] /\ broken = FALSE
    /\ worker = "none" /\ stop = FALSE /\ workerId = INVALID
    /\ proxy = "none" /\ watch = FALSE
    /\ deathCb = FALSE /\ deadCbs = {}
    /\ up \in BOOLEAN /\ clients = {} /\ notice = FALSE
    /\ heard = {} /\ owed = {} /\ deaths = 0 /\ lost = {}

Goto(a, from, to) == pc[a] = from /\ pc' = [pc EXCEPT ![a] = to] /\ UNCHANGED broken

\* Somebody is between EraseSessionInfo and the end of CloseAiServer.
Closing(a) == \E b \in Apps \ {a} : pc[b] \in {"erased", "close", "join"}

\* ResetClient, whose last assignment puts INVALID_UID into clientId_
ResetClient ==
    /\ clientId' = INVALID_UID
    /\ sessionId' = INVALID

\* SaClient: DeathCb_ of the process
RegisterServiceDeathCb == deathCb' = TRUE
UnRegisterServiceDeathCb == deathCb' = FALSE
GetSaDeathResultCb == deathCb

\* AsyncHandler: the dead callback of a session in deadCbs_
RegisterDeadCb(s) == deadCbs' = deadCbs \cup {s} /\ heard' = heard \cup {s}
UnRegisterDeadCb(s) == deadCbs' = deadCbs \ {s}

\* AsyncHandler: every dead callback is called
OnDead == owed' = owed \ deadCbs

\* SaDeathCallback
SaDeathCallback == ResetClient /\ OnDead

\* OnAiDead: without a death callback nothing happens
Dead ==
    /\ notice
    /\ notice' = FALSE
    /\ IF GetSaDeathResultCb THEN SaDeathCallback
                              ELSE UNCHANGED <<clientId, sessionId, owed>>

-------------------------------------------------------------------------------
(* ClientInit.  With a valid session id it returns at once. *)

\* ++sessionId_ up to the first id that is not in use; past the largest int
\* the counter starts again at AIE_SESSION_ID_BEGIN.
Candidate(k) == (sessionId + k) % (MaxInt + 1)
\* mutant: the next id is taken whether it is in use or not
NextSessionIdUnchecked == Candidate(1)

NextSessionId ==
    LET k == CHOOSE k \in 1 .. MaxInt + 1 :
                /\ Candidate(k) \notin sessions
                /\ \A j \in 1 .. k - 1 : Candidate(j) \in sessions
    IN  Candidate(k)

\* GenerateSessionId
InitGenerate(a) ==
    /\ info[a].session = INVALID
    /\ Goto(a, "idle", "record")
    /\ IF Cardinality(sessions) > MaxSessions
         THEN UNCHANGED <<sessionId, info>>
         ELSE /\ sessionId' = NextSessionId
              /\ info' = [info EXCEPT ![a].session = sessionId']
    /\ UNCHANGED <<sessions, clientId, workerVars, deathVars, serverVars>>

\* OnAiDead comes between its loop and its return sessionId_.
InitGenerateReset(a) ==
    /\ info[a].session = INVALID
    /\ Goto(a, "idle", "record")
    /\ Cardinality(sessions) <= MaxSessions
    /\ deathCb /\ Dead
    /\ UNCHANGED <<sessions, info, workerVars, deathCb, deadCbs, heard, up, clients, deaths, lost>>

\* Another ClientInfo still holds this id, and is not recorded under it any more.
Stale(a) ==
    /\ info[a].session \notin sessions \cup {INVALID}
    /\ \E b \in Apps \ {a} : info[b].session = info[a].session

\* AddSessionInfo
InitRecord(a) ==
    /\ pc[a] = "record"
    /\ sessions' = sessions \cup {info[a].session}
    /\ pc' = [pc EXCEPT ![a] = IF sessions = {} THEN "start" ELSE "wait"]
    /\ broken' = ((sessions = {} /\ Closing(a)) \/ Stale(a))
    /\ UNCHANGED <<sessionId, clientId, info, workerVars, deathVars, serverVars>>

\* InitAiServer: a thread of the pool runs a new ConnectMgrWorker
InitStart(a) ==
    /\ Goto(a, "start", "wait")
    /\ worker' = "loop" /\ stop' = FALSE
    /\ workerId' = info[a].client
    /\ UNCHANGED <<countVars, clientId, info, proxy, watch, deathVars, serverVars>>

InitStartFails(a) ==
    /\ Goto(a, "start", "idle")
    /\ "thread" \in Faults
    /\ UNCHANGED <<countVars, clientId, info, workerVars, deathVars, serverVars>>

\* WaitConnection
InitConnected(a) ==
    /\ Goto(a, "wait", "copy")
    /\ clientId # INVALID
    /\ UNCHANGED <<countVars, clientId, info, workerVars, deathVars, serverVars>>

\* mutant: WaitConnection does not count its waits
InitWaitsForever(a) ==
    /\ pc[a] = "wait"
    /\ clientId = INVALID
    /\ UNCHANGED vars

InitTimeout(a) ==
    /\ Goto(a, "wait", "idle")
    /\ clientId = INVALID
    /\ UNCHANGED <<countVars, clientId, info, workerVars, deathVars, serverVars>>

\* mutant: RegisterServiceDeathCb is not called
InitCopyNoDeathCb(a) ==
    /\ Goto(a, "copy", "idle")
    /\ info' = [info EXCEPT ![a].client = clientId]
    /\ RegisterDeadCb(info[a].session)
    /\ UNCHANGED <<countVars, clientId, workerVars, owed, deathCb, serverVars>>

\* clientInfo.clientId = clientId_; RegisterDeadCb
InitCopy(a) ==
    /\ Goto(a, "copy", "idle")
    /\ info' = [info EXCEPT ![a].client = clientId]
    /\ RegisterDeadCb(info[a].session)
    /\ RegisterServiceDeathCb
    /\ UNCHANGED <<countVars, clientId, workerVars, owed, serverVars>>

InitGoesOn(a) ==
    \/ InitRecord(a) \/ InitStart(a) \/ InitStartFails(a)
    \/ InitConnected(a) \/ InitTimeout(a) \/ InitCopy(a)

ClientInit(a) == InitGenerate(a) \/ InitGenerateReset(a) \/ InitGoesOn(a)

-------------------------------------------------------------------------------
(* ClientDestroy.  Without a session id, or with one that is not recorded,  *)
(* it fails at once.                                                        *)

\* EraseSessionInfo
DestroyErase(a) ==
    /\ info[a].session # INVALID /\ info[a].session \in sessions
    /\ Goto(a, "idle", "erased")
    /\ sessions' = sessions \ {info[a].session}
    /\ UNCHANGED <<sessionId, clientId, info, workerVars, deathVars, serverVars>>

\* mutants: every ClientDestroy closes the connection, or none does
DestroyLastAlways(a) ==
    /\ Goto(a, "erased", "close")
    /\ UNCHANGED <<countVars, clientId, info, workerVars, deathVars, serverVars>>
DestroyLastNever(a) ==
    /\ Goto(a, "erased", "forget")
    /\ UNCHANGED <<countVars, clientId, info, workerVars, deathVars, serverVars>>

\* bool isLastSession = sessionInfos_.empty()
DestroyLast(a) ==
    /\ pc[a] = "erased"
    /\ pc' = [pc EXCEPT ![a] = IF sessions = {} THEN "close" ELSE "forget"]
    /\ broken' = (sessions = {} /\ \E b \in Apps \ {a} : pc[b] \in {"close", "join"})
    /\ UNCHANGED <<countVars, clientId, info, workerVars, deathVars, serverVars>>

\* CloseAiServer: fails when there is no thread, else tells it to stop
DestroyClose(a) ==
    /\ IF worker = "none" THEN Goto(a, "close", "idle") /\ UNCHANGED stop
                          ELSE Goto(a, "close", "join") /\ stop' = TRUE
    /\ UNCHANGED <<countVars, clientId, info, worker, workerId, proxy, watch, deathVars, serverVars>>

\* The thread has ended, the worker is deleted; ClientDestroy checks that it reset the client id
DestroyJoin(a) ==
    /\ worker = "ended"
    /\ worker' = "none" /\ stop' = FALSE /\ workerId' = INVALID
    /\ Goto(a, "join", IF clientId # INVALID THEN "idle" ELSE "forget")
    /\ UNCHANGED <<countVars, clientId, info, proxy, watch, deathVars, serverVars>>

\* UnRegisterDeadCb, which clears the callback of the process (from here on no
\* session hears of a death until one registers again), and the reset of the
\* ClientInfo
DestroyForget(a) ==
    /\ Goto(a, "forget", "idle")
    /\ UnRegisterServiceDeathCb
    /\ UnRegisterDeadCb(info[a].session)
    /\ heard' = {} /\ owed' = {}
    /\ info' = [info EXCEPT ![a] = NoInfo]
    /\ UNCHANGED <<countVars, clientId, workerVars, serverVars>>

DestroyGoesOn(a) == DestroyLast(a) \/ DestroyClose(a) \/ DestroyJoin(a) \/ DestroyForget(a)

ClientDestroy(a) == DestroyErase(a) \/ DestroyGoesOn(a)

-------------------------------------------------------------------------------
(* ConnectMgrWorker, run by Thread::Run. *)

\* while (running_)
WorkerLoop ==
    /\ worker = "loop"
    /\ worker' = IF stop THEN "uninit" ELSE "act"
    /\ UNCHANGED <<appVars, countVars, clientId, stop, workerId, proxy, watch, deathVars, serverVars>>

\* OneAction: nothing to do while the process has a client id
WorkerRest ==
    /\ worker = "act"
    /\ clientId # INVALID
    /\ worker' = "loop"
    /\ UNCHANGED <<appVars, countVars, clientId, stop, workerId, proxy, watch, deathVars, serverVars>>

\* clientInfo_.clientId is overwritten while the server still has that client.
Forgets == lost' = lost \cup ({workerId} \cap clients)

\* The service is found only while it is up
GetRemoteIUnknown == up

\* The server gives a client id
InitSaEngine ==
    /\ \E id \in ServerIds \ clients :
        /\ \A other \in ServerIds \ clients : id <= other
        /\ clients' = clients \cup {id}
        /\ workerId' = id
    /\ Forgets

ReleaseIUnknown == proxy' = "none"

\* SaClient::Init up to InitSaEngine
WorkerConnect ==
    /\ worker = "act"
    /\ clientId = INVALID
    /\ GetRemoteIUnknown
    /\ InitSaEngine
    /\ proxy' = "live"
    /\ worker' = "watch"
    /\ UNCHANGED <<appVars, countVars, clientId, stop, watch, deathVars, up, notice, deaths>>

\* No proxy, or a server that refuses the client: proxy_ is null again
WorkerRefused ==
    /\ worker = "act"
    /\ clientId = INVALID
    /\ \/ ~GetRemoteIUnknown /\ UNCHANGED <<workerId, lost>>
       \/ GetRemoteIUnknown /\ "init" \in Faults /\ workerId' = INVALID /\ Forgets
    /\ ReleaseIUnknown
    /\ worker' = "loop"
    /\ UNCHANGED <<appVars, countVars, clientId, stop, watch, deathVars, up, clients, notice, deaths>>

\* AddDeathRecipient
WorkerWatch ==
    /\ worker = "watch"
    /\ proxy = "live"
    /\ watch' = TRUE
    /\ worker' = "set"
    /\ UNCHANGED <<appVars, countVars, clientId, stop, workerId, proxy, deathVars, serverVars>>

\* SaClient::Init fails with the server's client id in clientInfo_ and the
\* proxy in place; the next OneAction starts over
WorkerWatchFails ==
    /\ worker = "watch"
    /\ proxy = "dead" \/ "watch" \in Faults
    /\ worker' = "loop"
    /\ UNCHANGED <<appVars, countVars, clientId, stop, workerId, proxy, watch, deathVars, serverVars>>

\* SetClientId
WorkerSet ==
    /\ worker = "set"
    /\ clientId' = workerId
    /\ worker' = "loop"
    /\ UNCHANGED <<appVars, countVars, stop, workerId, proxy, watch, deathVars, serverVars>>

\* A dead service does not get the message
DestroyEngineProxy == clients' = IF proxy = "live" THEN clients \ {workerId} ELSE clients

\* SaClient::Destroy
Destroy ==
    /\ IF proxy = "none" THEN UNCHANGED <<clients, watch>>
                         ELSE DestroyEngineProxy /\ watch' = FALSE
    /\ ReleaseIUnknown

\* Uninitialize: SaClient::Destroy, SetClientId(INVALID_CLIENT_ID)
WorkerUninitialize ==
    /\ worker = "uninit"
    /\ Destroy
    /\ clientId' = INVALID
    /\ worker' = "ended"
    /\ UNCHANGED <<appVars, countVars, stop, workerId, deathVars, up, notice, deaths, lost>>

ConnectMgrWorker ==
    \/ WorkerLoop \/ WorkerRest \/ WorkerConnect \/ WorkerRefused
    \/ WorkerWatch \/ WorkerWatchFails \/ WorkerSet \/ WorkerUninitialize

-------------------------------------------------------------------------------
(* The server comes and goes; OnAiDead runs on the IPC thread. *)

ServerStarts ==
    /\ ~up
    /\ up' = TRUE
    /\ UNCHANGED <<appVars, countVars, clientId, workerVars, deathVars, clients, notice, deaths, lost>>

ServerDies ==
    /\ up /\ deaths < MaxDeaths
    /\ up' = FALSE /\ clients' = {}
    /\ deaths' = deaths + 1
    /\ proxy' = IF proxy = "live" THEN "dead" ELSE proxy
    /\ notice' = (notice \/ watch)
    /\ watch' = FALSE
    /\ owed' = IF watch THEN owed \cup heard ELSE owed
    /\ UNCHANGED <<appVars, countVars, clientId, worker, stop, workerId, deathCb, deadCbs, heard, lost>>

OnAiDead ==
    /\ Dead
    /\ UNCHANGED <<appVars, sessions, workerVars, deathCb, deadCbs, heard, up, clients, deaths, lost>>

Next ==
    /\ ~broken
    /\ \/ \E a \in Apps : ClientInit(a) \/ ClientDestroy(a)
       \/ ConnectMgrWorker \/ ServerStarts \/ ServerDies \/ OnAiDead

Spec == Init /\ [][Next]_vars

\* A call that has begun is carried on by its thread, the worker's thread and
\* the IPC thread run; neither the application nor the server is obliged to
\* do anything.
Fairness ==
    /\ \A a \in Apps : WF_vars(~broken /\ (InitGoesOn(a) \/ DestroyGoesOn(a)))
    /\ WF_vars(~broken /\ ConnectMgrWorker)
    /\ WF_vars(~broken /\ OnAiDead)

FairSpec == Spec /\ Fairness
-------------------------------------------------------------------------------
(* Properties *)

\* While the server lives, a session that ClientInit has given a client id
\* stays connected under that id until its own ClientDestroy, whatever the
\* other sessions do and however often connecting failed before.
ReadySessionServed ==
    (deaths = 0 /\ ~broken) => \A a \in Apps :
        (info[a].client # INVALID /\ info[a].session \in sessions) =>
            /\ clientId = info[a].client
            /\ clientId \in clients
            /\ proxy = "live" /\ watch
            /\ worker \in {"loop", "act"}

\* When the process has no session left and no call is in progress, nothing
\* of the connection is left: no thread, no proxy and no client id, and the
\* server keeps no client of this process but those whose id was forgotten.
NoSessionNoConnection ==
    (sessions = {} /\ \A a \in Apps : pc[a] = "idle") =>
        /\ worker = "none" /\ proxy = "none" /\ ~watch
        /\ deaths = 0 => clientId = INVALID
        /\ clients \subseteq lost

\* Two ClientInfo never hold the same session id once it is recorded, also after
\* sessionId_ has wrapped around: the server tells transactions apart by it, and
\* one ClientDestroy would erase the session of the other.
SessionsDistinct ==
    ~broken => \A a, b \in Apps :
        (a # b /\ pc[a] # "record" /\ pc[b] # "record"
               /\ info[a].session = info[b].session) => info[a].session = INVALID

\* ClientInit and ClientDestroy return, also while the server is down:
\* WaitConnection gives up, and the worker CloseAiServer waits for ends.
CallsReturn == \A a \in Apps : pc[a] # "idle" ~> (pc[a] = "idle" \/ broken)

\* A session's dead callback is "Called when the service is dead"
\* (client_factory.h:43) if the session had registered one when it died and
\* no ClientDestroy has cleared the callback of the process since.
DeadCbCalled == owed # {} ~> (owed = {} \/ broken)

\* The inductive invariant behind the first three.
Sessions == INVALID .. MaxInt
Ids == ServerIds \cup {INVALID, INVALID_UID}
TypeOK ==
    /\ sessions \subseteq Sessions /\ sessionId \in Sessions /\ clientId \in Ids
    /\ info \in [Apps -> [session : Sessions, client : Ids]]
    /\ pc \in [Apps -> {"idle", "record", "start", "wait", "copy", "erased", "close", "join", "forget"}]
    /\ worker \in {"none", "loop", "act", "watch", "set", "uninit", "ended"}
    /\ workerId \in Ids /\ proxy \in {"none", "live", "dead"}
    /\ deadCbs \subseteq Sessions /\ heard \subseteq Sessions /\ owed \subseteq Sessions
    /\ clients \subseteq ServerIds /\ lost \subseteq ServerIds /\ deaths \in Nat
    /\ broken \in BOOLEAN /\ stop \in BOOLEAN /\ watch \in BOOLEAN
    /\ deathCb \in BOOLEAN /\ up \in BOOLEAN /\ notice \in BOOLEAN

\* An id is shared only with one that has not recorded it yet, and then nobody
\* has; a session is recorded until its own ClientDestroy.
Sharing ==
    \A a, b \in Apps : (a # b /\ info[a].session = info[b].session /\ info[a].session # INVALID) =>
        (pc[a] = "record" \/ pc[b] = "record") /\ info[a].session \notin sessions
Recorded == \A a \in Apps : pc[a] \in {"start", "wait", "copy"} => info[a].session \in sessions

\* One closes the connection, when there is no session, or one starts it.
CloseAlone ==
    \A a \in Apps : pc[a] \in {"close", "join"} =>
        sessions = {} /\ \A b \in Apps \ {a} : pc[b] \notin {"close", "join"}
StartAlone ==
    \A a \in Apps : pc[a] = "start" => worker = "none" /\ \A b \in Apps \ {a} : pc[b] # "start"
WorkerWanted ==
    /\ worker # "none" => sessions # {} \/ \E a \in Apps : pc[a] \in {"erased", "close", "join"}
    /\ \A a \in Apps : pc[a] = "join" => worker # "none" /\ stop
    /\ stop => \E a \in Apps : pc[a] = "join"
    /\ worker \in {"uninit", "ended"} => stop
CallsInv == Sharing /\ Recorded /\ CloseAlone /\ StartAlone /\ WorkerWanted

\* What the worker, the proxy and the server keep of each other.
Connection ==
    /\ watch => proxy = "live" /\ (worker = "set" \/ clientId # INVALID)
    /\ worker \in {"none", "ended"} => proxy = "none"
    /\ worker \in {"watch", "set"} => workerId \in ServerIds
    /\ clients \subseteq lost \cup (IF proxy = "live" THEN {workerId} ELSE {})
    /\ ~up => clients = {}

\* Until the server dies the client id is the one that the server has, and that of
\* all sessions; only an id of INVALID, recorded and never erased, may come before.
OwnId(a) ==
    info[a].client # INVALID =>
        /\ info[a].session = INVALID \/ pc[a] = "record" => INVALID \in sessions
        /\ info[a].session \in sessions \/ pc[a] = "record" => clientId = info[a].client
Served ==
    /\ ~notice
    /\ worker \in {"none", "ended", "watch", "set"} => clientId = INVALID
    /\ worker \in {"watch", "set"} => workerId \in clients /\ proxy = "live"
    /\ worker = "set" => watch
    /\ clientId # INVALID => clientId = workerId /\ clientId \in clients /\ proxy = "live" /\ watch
    /\ \A a \in Apps : pc[a] = "copy" => clientId # INVALID
    /\ \A a \in Apps : OwnId(a)

\* The model ends with a call that is under way.
BrokenOff == sessions # {} \/ \E a \in Apps : pc[a] # "idle"

SessionInv ==
    /\ TypeOK /\ Connection
    /\ broken => BrokenOff
    /\ ~broken => CallsInv /\ (deaths = 0 => Served)
===============================================================================
