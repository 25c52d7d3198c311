----------------------------- MODULE AsyncPipeline -----------------------------
(***************************************************************************)
(* An asynchronous inference from ClientAsyncProcess to OnResult, for the  *)
(* sessions of one client that share one engine:                           *)
(*                                                                         *)
(*   client call -> IPC task: AsyncMsgHandler::SendRequest (future, queue) *)
(*   -> engine worker: plugin, FutureFactory::ProcessResponse, listener    *)
(*   -> ClientListenerHandler's responses_ and event_                      *)
(*   -> AsyncProcessWorker: IPC to the client -> AsyncCallback -> OnResult *)
(*                                                                         *)
(* Four threads: the application thread with the server's IPC task (a      *)
(* client call waits for its reply, so they alternate), the engine worker, *)
(* the AsyncProcessWorker, and the client's IPC thread.  The plugin        *)
(* answers every request once, from AsyncProcess.  The application         *)
(* releases a session when it has the results of all its accepted          *)
(* requests.                                                               *)
(***************************************************************************)
EXTENDS Integers, Sequences, FiniteSets, SequencesExt

CONSTANTS
    Trans,          \* the asynchronous sessions: one transaction each
    Reqs,           \* bound: the requests they make
    TransOf,        \* the session of each request
    NoReq,
    NoTrans,
    QueueCap,       \* MAX_ASYNC_MSG_NUM = MAX_SYNC_MSG_NUM, the queue's size
    MaxFutures,     \* MAX_NUM_FUTURES
    MaxPrepares,    \* bound: how often ClientPrepare is called
    Faults          \* a subset of FaultKinds

FaultKinds == {"load",   \* the server cannot load the algorithm
               "send"}   \* the IPC that carries a result fails

ASSUME PipelineAssumption ==
    /\ NoReq \notin Reqs /\ NoTrans \notin Trans
    /\ TransOf \in [Reqs -> Trans]
    /\ QueueCap \in Nat \ {0} /\ MaxFutures \in Nat /\ MaxPrepares \in Nat
    /\ Faults \subseteq FaultKinds

VARIABLES
    \* the client library
    cbs,        \* the keys of AsyncHandler::mapCbMsg_
    resultCb,   \* SaClient::ResultCb_ is set
    inbox,      \* results on their way to AsyncCallback
    got,        \* the results OnResult was called with, in order
    thrown,     \* ghost: the results that were thrown away on the way
    loadFailed, \* ghost: a ClientPrepare has failed after it registered
    call, arg,  \* the call in progress and its session
    prepares,   \* how often ClientPrepare was called
    \* the server's IPC task
    fresh,      \* the requests not made yet
    accepted,   \* the requests SendRequest took, in order
    loaded,     \* clientEngines_: the transactions with an engine
    listeners,  \* FutureFactory::listeners_ and SaAsyncHandler::transactions_
    futures,    \* FutureFactory::futures_
    attached,   \* the futures whose response_ is set
    freed,      \* ghost: the responses that were destroyed
    queue,      \* the engine's queue
    space,      \* writeAbleCount_ of that queue
    \* the engine worker
    engine, current,
    \* the client's ClientListenerHandler and its AsyncProcessWorker
    handler,    \* SaAsyncHandler::clients_ has one
    responses, flag,
    worker, stop, held

clientVars == <<cbs, resultCb, loadFailed>>
callVars   == <<call, arg, prepares>>
flowVars   == <<inbox, got, thrown>>
taskVars   == <<fresh, accepted>>
engineVars == <<engine, current>>
serverVars == <<loaded, listeners>>
queueVars  == <<queue, space>>
futureVars == <<futures, attached, freed>>
sendVars   == <<handler, worker, stop, held>>
respVars   == <<responses, flag>>
vars == <<cbs, resultCb, inbox, got, thrown, loadFailed, call, arg, prepares, fresh, accepted, loaded,
          listeners, futures, attached, freed, queue, space, engine, current, handler, responses,
          flag, worker, stop, held>>

Init ==
    /\ cbs = {} /\ resultCb = FALSE
    /\ inbox = << >> /\ got = << >> /\ thrown = {} /\ loadFailed = FALSE
    /\ call = "idle" /\ arg = NoTrans /\ prepares = 0
    /\ fresh = Reqs /\ accepted = << >>
    /\ loaded = {} /\ listeners = {} /\ futures = {} /\ attached = {} /\ freed = {}
    /\ queue = << >> /\ space = QueueCap
    /\ engine = "idle" /\ current = NoReq
    /\ handler = FALSE /\ responses = << >> /\ flag = FALSE
    /\ worker = "none" /\ stop = FALSE /\ held = NoReq

-------------------------------------------------------------------------------
(* The callbacks of the client, and the server's objects for them. *)

\* AsyncHandler: the entry of a session in mapCbMsg_
InsertCb(t) == cbs' = cbs \cup {t}
EraseCb(t) == cbs' = cbs \ {t}
IsCallbackEmpty == cbs = {}

\* SaClient: ResultCb_ of the process
RegisterAsyncClientCb == resultCb' = TRUE
UnRegisterAsyncClientCb == resultCb' = FALSE
GetClientResultCb == resultCb

\* ClientFactory: both
RegisterCb(t) == InsertCb(t) /\ RegisterAsyncClientCb
UnRegisterCb(t) == EraseCb(t) /\ UnRegisterAsyncClientCb

\* SaAsyncHandler of the server: the ClientListenerHandler of the client
FindClientListenerHandler == handler
RegisterAsyncHandler == handler' = TRUE
StartAsyncProcess == worker = "none" /\ worker' = "loop" /\ stop' = FALSE
StopClientListenerHandler == stop' = TRUE

\* The handler is deleted and destroys the responses it still has
RemoveClientListenerHandler ==
    /\ handler' = FALSE
    /\ freed' = freed \cup ToSet(responses)
    /\ responses' = << >> /\ flag' = FALSE

\* FutureFactory: the listener of a transaction
RegisterListener(t) == listeners' = listeners \cup {t}
UnregisterListener(t) == listeners' = listeners \ {t}
FindListener(r) == TransOf[r] \in listeners

\* FutureFactory: a future of each request, deleted with the response it has
CreateFuture(r) == futures' = futures \cup {r}
DeleteFuture(r) == futures' = futures \ {r} /\ freed' = freed \cup ({r} \cap attached')

\* mutant: the future keeps its response
DetachResponseForgotten(r) == UNCHANGED attached

\* Future: the response is set, and detached before the future is deleted
SetResponse(r) == attached' = attached \cup {r}
DetachResponse(r) == attached' = attached \ {r}

\* Event
EventIsSet == flag
EventSignal == flag' = TRUE
EventReset == flag' = FALSE

-------------------------------------------------------------------------------
(* ClientPrepare of an asynchronous session. *)

\* RegisterCb; the first callback also registers with the server: a new
\* ClientListenerHandler whose AsyncProcessWorker is started
PrepareRegister(t) ==
    /\ call = "idle" /\ t \notin cbs
    /\ prepares < MaxPrepares
    /\ prepares' = prepares + 1
    /\ RegisterCb(t)
    /\ call' = "load" /\ arg' = t
    /\ IF IsCallbackEmpty
         THEN RegisterAsyncHandler /\ StartAsyncProcess
         ELSE UNCHANGED <<handler, worker, stop>>
    /\ UNCHANGED <<flowVars, loadFailed, taskVars, serverVars, futureVars, queueVars, engineVars, held, respVars>>

\* StartAsyncProcessThread finds a thread (RETCODE_ASYNC_CB_STARTED): the call
\* fails and UnRegisterCb takes the callback back
PrepareRefused(t) ==
    /\ call = "idle" /\ t \notin cbs
    /\ prepares < MaxPrepares
    /\ prepares' = prepares + 1
    /\ IsCallbackEmpty /\ worker # "none"
    /\ UnRegisterCb(t)
    /\ UNCHANGED <<flowVars, loadFailed, call, arg, taskVars, serverVars, futureVars, queueVars,
                   engineVars, sendVars, respVars>>

\* LoadAlgoWrapper: StartEngine, then StartAsyncTransaction
PrepareLoad ==
    /\ call = "load"
    /\ loaded' = loaded \cup {arg} /\ RegisterListener(arg)
    /\ call' = "idle" /\ arg' = NoTrans
    /\ UNCHANGED <<clientVars, flowVars, prepares, taskVars, futureVars, queueVars, engineVars,
                   sendVars, respVars>>

\* The load fails and the client reverts what it did: UnRegisterCb
PrepareLoadFails ==
    /\ call = "load"
    /\ "load" \in Faults
    /\ UnRegisterCb(arg)
    /\ loadFailed' = TRUE
    /\ call' = "idle" /\ arg' = NoTrans
    /\ UNCHANGED <<flowVars, prepares, taskVars, serverVars, futureVars, queueVars, engineVars,
                   sendVars, respVars>>

-------------------------------------------------------------------------------
(* ClientAsyncProcess: AsyncMsgHandler::SendRequest on the IPC task. *)

\* The message leaves and the call waits for the reply
AsyncExecAlgorithmProxy(r) ==
    /\ call = "idle"
    /\ r \in fresh
    /\ fresh' = fresh \ {r}

\* The engine of the request's transaction
FindEngine(r) == TransOf[r] \in loaded

Executes(r) == AsyncExecAlgorithmProxy(r) /\ FindEngine(r)

\* queue_.Count() is at the capacity, or there are too many futures
ExecuteRefused(r) ==
    /\ Executes(r)
    /\ Len(queue) >= QueueCap \/ Cardinality(futures) > MaxFutures
    /\ UNCHANGED <<clientVars, flowVars, callVars, accepted, serverVars, futureVars, queueVars,
                   engineVars, sendVars, respVars>>

\* CreateFuture, then PushBack: it fails when the worker is in the middle of
\* PopFront and has not given the slot back yet, and the future stays
ExecuteNoSlot(r) ==
    /\ Executes(r)
    /\ Len(queue) < QueueCap /\ Cardinality(futures) <= MaxFutures
    /\ space = 0
    /\ CreateFuture(r) /\ UNCHANGED attached
    /\ UNCHANGED <<clientVars, flowVars, callVars, accepted, serverVars, freed, queueVars,
                   engineVars, sendVars, respVars>>

Execute(r) ==
    /\ Executes(r)
    /\ Len(queue) < QueueCap /\ Cardinality(futures) <= MaxFutures
    /\ space > 0
    /\ CreateFuture(r) /\ UNCHANGED attached
    /\ queue' = Append(queue, r) /\ space' = space - 1
    /\ accepted' = Append(accepted, r)
    /\ UNCHANGED <<freed, clientVars, flowVars, callVars, serverVars, engineVars, sendVars, respVars>>

-------------------------------------------------------------------------------
(* ClientRelease. *)

Answered(t) == {r \in ToSet(accepted) : TransOf[r] = t} \subseteq ToSet(got)

\* mutant: nothing unregisters with the server
ReleaseUnregisterNever(t) ==
    /\ call = "idle" /\ t \in loaded
    /\ Answered(t)
    /\ UnRegisterCb(t)
    /\ arg' = t
    /\ call' = "unload"
    /\ UNCHANGED <<flowVars, loadFailed, prepares, taskVars, serverVars, futureVars, queueVars,
                   engineVars, handler, worker, stop, held, respVars>>

\* UnRegisterCb; when no callback is left, UnregisterCallback tells the
\* AsyncProcessWorker to stop
ReleaseUnregister(t) ==
    /\ call = "idle" /\ t \in loaded
    /\ Answered(t)
    /\ UnRegisterCb(t)
    /\ arg' = t
    /\ IF cbs' = {} THEN call' = "remove" /\ StopClientListenerHandler
                    ELSE call' = "unload" /\ UNCHANGED stop
    /\ UNCHANGED <<flowVars, loadFailed, prepares, taskVars, serverVars, futureVars, queueVars, engineVars,
                   handler, worker, held, respVars>>

\* The thread has ended; RemoveClientListenerHandler frees the handler and
\* the responses it still holds
ReleaseRemove ==
    /\ call = "remove"
    /\ worker = "ended"
    /\ worker' = "none" /\ RemoveClientListenerHandler
    /\ call' = "unload"
    /\ UNCHANGED <<clientVars, flowVars, arg, prepares, taskVars, serverVars, futures, attached, queueVars,
                   engineVars, stop, held>>

\* UnloadAlgoWrapper: StopAsyncTransaction frees the listener, StopEngine
ReleaseUnload ==
    /\ call = "unload"
    /\ UnregisterListener(arg)
    /\ call' = "stop"
    /\ UNCHANGED <<clientVars, flowVars, arg, prepares, taskVars, loaded, futureVars, queueVars,
                   engineVars, sendVars, respVars>>

\* The last transaction's StopEngine waits for the worker to finish its action
\* and lets it clear the queue, which the pool resets
ReleaseStop ==
    /\ call = "stop"
    /\ loaded' = loaded \ {arg}
    /\ IF loaded' = {}
         THEN engine = "idle" /\ queue' = << >> /\ space' = QueueCap
         ELSE UNCHANGED queueVars
    /\ call' = "idle" /\ arg' = NoTrans
    /\ UNCHANGED <<clientVars, flowVars, prepares, taskVars, listeners, futureVars, engineVars,
                   sendVars, respVars>>

-------------------------------------------------------------------------------
(* The engine worker: PopFront, AsyncProcess, and ProcessResponse, which    *)
(* takes innerMutex_ and rwLock_ only for its look-ups.                     *)

\* mutant: the worker leaves the last task in the queue
EnginePopNotLast ==
    /\ engine = "idle" /\ Len(queue) > 1
    /\ current' = Head(queue) /\ queue' = Tail(queue)
    /\ engine' = "popped"
    /\ UNCHANGED <<clientVars, flowVars, callVars, taskVars, serverVars, futureVars, space,
                   sendVars, respVars>>

EnginePop ==
    /\ engine = "idle" /\ queue # << >>
    /\ current' = Head(queue) /\ queue' = Tail(queue)
    /\ engine' = "popped"
    /\ UNCHANGED <<clientVars, flowVars, callVars, taskVars, serverVars, futureVars, space,
                   sendVars, respVars>>

EngineGiveBack ==
    /\ engine = "popped"
    /\ space' = space + 1
    /\ engine' = "respond"
    /\ UNCHANGED <<clientVars, flowVars, callVars, taskVars, serverVars, futureVars, queue, current,
                   sendVars, respVars>>

\* FetchFuture, SetResponse, FindListener: without a listener it is over
EngineRespond ==
    /\ engine = "respond"
    /\ SetResponse(current)
    /\ IF FindListener(current)
         THEN engine' = "reply" /\ UNCHANGED current
         ELSE engine' = "idle" /\ current' = NoReq
    /\ UNCHANGED <<clientVars, flowVars, callVars, taskVars, serverVars, futures, freed, queueVars,
                   sendVars, respVars>>

\* listener->OnReply: FindClientListenerHandler
EngineReply ==
    /\ engine = "reply"
    /\ engine' = IF FindClientListenerHandler THEN "add" ELSE "delete"
    /\ UNCHANGED <<clientVars, flowVars, callVars, taskVars, serverVars, futureVars, queueVars,
                   current, sendVars, respVars>>

\* The event is signalled when the list was empty
AddCallbackRecord(r) ==
    /\ responses' = Append(responses, r)
    /\ IF responses = << >> THEN EventSignal ELSE UNCHANGED flag

EngineAdd ==
    /\ engine = "add"
    /\ AddCallbackRecord(current)
    /\ engine' = "delete"
    /\ UNCHANGED <<clientVars, flowVars, callVars, taskVars, serverVars, futureVars, queueVars,
                   current, sendVars>>

EngineDelete ==
    /\ engine = "delete"
    /\ DetachResponse(current)
    /\ DeleteFuture(current)
    /\ engine' = "idle" /\ current' = NoReq
    /\ UNCHANGED <<clientVars, flowVars, callVars, taskVars, serverVars, queueVars, sendVars, respVars>>

EngineWorker ==
    EnginePop \/ EngineGiveBack \/ EngineRespond \/ EngineReply \/ EngineAdd \/ EngineDelete

-------------------------------------------------------------------------------
(* AsyncProcessWorker::OneAction, and AsyncCallback in the client. *)

WorkerLoop ==
    /\ worker = "loop"
    /\ worker' = IF stop THEN "ended" ELSE "fetch"
    /\ UNCHANGED <<clientVars, flowVars, callVars, taskVars, serverVars, futureVars, queueVars,
                   engineVars, handler, stop, held, respVars>>

\* mutant: the newest response is taken
TakeNewest ==
    /\ responses # << >>
    /\ held' = responses[Len(responses)]
    /\ responses' = SubSeq(responses, 1, Len(responses) - 1)
    /\ IF responses' = << >> THEN EventReset ELSE UNCHANGED flag
    /\ worker' = "send"

\* pop_front, and Reset when that was the last
Take ==
    /\ responses # << >>
    /\ held' = Head(responses)
    /\ responses' = Tail(responses)
    /\ IF responses' = << >> THEN EventReset ELSE UNCHANGED flag
    /\ worker' = "send"

\* FetchCallbackRecord under the lock; with nothing there it goes to wait
WorkerFetch ==
    /\ worker = "fetch"
    /\ \/ Take
       \/ responses = << >> /\ worker' = "wait" /\ UNCHANGED <<held, respVars>>
    /\ UNCHANGED <<clientVars, flowVars, callVars, taskVars, serverVars, futureVars, queueVars,
                   engineVars, handler, stop>>

\* mutant: the wait has no limit
WorkerWaitUnlimited ==
    /\ worker = "wait"
    /\ flag /\ Take
    /\ UNCHANGED <<clientVars, flowVars, callVars, taskVars, serverVars, futureVars, queueVars,
                   engineVars, handler, stop>>

\* The event comes, or it does not within a second
WorkerWait ==
    /\ worker = "wait"
    /\ \/ EventIsSet /\ Take
       \/ ~EventIsSet /\ worker' = "loop" /\ UNCHANGED <<held, respVars>>
    /\ UNCHANGED <<clientVars, flowVars, callVars, taskVars, serverVars, futureVars, queueVars,
                   engineVars, handler, stop>>

WorkerSend ==
    /\ worker = "send"
    /\ inbox' = Append(inbox, held)
    /\ held' = NoReq /\ worker' = "loop"
    /\ freed' = freed \cup {held}
    /\ UNCHANGED <<clientVars, got, thrown, callVars, taskVars, serverVars, futures, attached, queueVars,
                   engineVars, handler, stop, respVars>>

\* SendRequest fails: the response is destroyed and the thread ends
WorkerSendFails ==
    /\ worker = "send"
    /\ "send" \in Faults
    /\ held' = NoReq /\ worker' = "ended"
    /\ freed' = freed \cup {held}
    /\ thrown' = thrown \cup {held}
    /\ UNCHANGED <<clientVars, inbox, got, callVars, taskVars, serverVars, futures, attached, queueVars,
                   engineVars, handler, stop, respVars>>

AsyncProcessWorker == WorkerLoop \/ WorkerFetch \/ WorkerWait \/ WorkerSend \/ WorkerSendFails

\* AsyncHandler looks the session's callback up.
FindCb(t) == t \in cbs

Discard(r) == thrown' = thrown \cup {r} /\ UNCHANGED got

\* The callback of the session, if there is one
OnResult(r) ==
    IF FindCb(TransOf[r]) THEN got' = Append(got, r) /\ UNCHANGED thrown
                          ELSE Discard(r)

\* What ResultCb_ points to
SaClientCallback(r) == OnResult(r)

\* Without ResultCb_, or without a callback of the session, the result is
\* thrown away
AsyncCallback ==
    /\ inbox # << >>
    /\ inbox' = Tail(inbox)
    /\ IF GetClientResultCb THEN SaClientCallback(Head(inbox)) ELSE Discard(Head(inbox))
    /\ UNCHANGED <<clientVars, callVars, taskVars, serverVars, futureVars, queueVars, engineVars,
                   sendVars, respVars>>

-------------------------------------------------------------------------------
Prepare == (\E t \in Trans : PrepareRegister(t) \/ PrepareRefused(t)) \/ PrepareLoad \/ PrepareLoadFails
Request == \E r \in Reqs : ExecuteRefused(r) \/ ExecuteNoSlot(r) \/ Execute(r)
Release == (\E t \in Trans : ReleaseUnregister(t)) \/ ReleaseRemove \/ ReleaseUnload \/ ReleaseStop

Next == Prepare \/ Request \/ Release \/ EngineWorker \/ AsyncProcessWorker \/ AsyncCallback

Spec == Init /\ [][Next]_vars

\* The threads run, and a call that has begun is carried on; the application
\* is not obliged to call anything.
Fairness ==
    /\ WF_vars(PrepareLoad \/ PrepareLoadFails \/ ReleaseRemove \/ ReleaseUnload \/ ReleaseStop)
    /\ WF_vars(EngineWorker)
    /\ WF_vars(AsyncProcessWorker)
    /\ WF_vars(AsyncCallback)

FairSpec == Spec /\ Fairness
-------------------------------------------------------------------------------
(* Properties *)

\* Types, for the proofs.
TypeOK ==
    /\ cbs \subseteq Trans /\ resultCb \in BOOLEAN /\ loadFailed \in BOOLEAN
    /\ inbox \in Seq(Reqs) /\ got \in Seq(Reqs) /\ thrown \subseteq Reqs
    /\ call \in {"idle", "load", "remove", "unload", "stop"}
    /\ arg \in Trans \cup {NoTrans} /\ prepares \in Nat
    /\ fresh \subseteq Reqs /\ accepted \in Seq(Reqs)
    /\ loaded \subseteq Trans /\ listeners \subseteq Trans
    /\ futures \subseteq Reqs /\ attached \subseteq Reqs /\ freed \subseteq Reqs
    /\ queue \in Seq(Reqs) /\ space \in Nat
    /\ engine \in {"idle", "popped", "respond", "reply", "add", "delete"}
    /\ current \in Reqs \cup {NoReq}
    /\ handler \in BOOLEAN /\ responses \in Seq(Reqs) /\ flag \in BOOLEAN
    /\ worker \in {"none", "loop", "fetch", "wait", "send", "ended"}
    /\ stop \in BOOLEAN /\ held \in Reqs \cup {NoReq}

\* Where the results are that have not reached AsyncCallback, from the place
\* nearest to it: each set has those of the places behind it as well.
Holding   == {held} \ {NoReq}
InPlugin  == IF engine = "delete" THEN {} ELSE {current} \ {NoReq}
AtEngine  == InPlugin \cup ToSet(queue)
AtHandler == ToSet(responses) \cup AtEngine
AtWorker  == Holding \cup AtHandler
OnWay     == ToSet(inbox) \cup AtWorker

\* The order in which SendRequest accepted the requests.
AcceptedBefore(r, q) == \E i, j \in DOMAIN accepted : i < j /\ accepted[i] = r /\ accepted[j] = q
InOrder(s) == \A i, j \in DOMAIN s : i < j => AcceptedBefore(s[i], s[j])
Ahead(R, Q) == \A r \in R, q \in Q : AcceptedBefore(r, q)

\* No result is lost, doubled or overtaken: a request was accepted once, and is
\* then thrown away by a failed send or a missing ResultCb_, or answered, or on
\* its way at one place; and the answered ones, then those on their way back,
\* then the one in the plugin, then the ones queued, are in the order in which
\* they were accepted.
NothingLost ==
    /\ ~\E r \in Reqs : AcceptedBefore(r, r)
    /\ ToSet(accepted) = thrown \cup ToSet(got) \cup OnWay
    /\ thrown \cap (ToSet(got) \cup OnWay) = {}
    /\ InOrder(got) /\ InOrder(inbox) /\ InOrder(responses) /\ InOrder(queue)
    /\ Ahead(ToSet(got), OnWay) /\ Ahead(ToSet(inbox), AtWorker) /\ Ahead(Holding, AtHandler)
    /\ Ahead(ToSet(responses), AtEngine) /\ Ahead(InPlugin, ToSet(queue))

\* Between calls the client's table of callbacks and the server agree: there is
\* a ClientListenerHandler exactly while a session has a callback, and so no
\* ClientPrepare is refused with RETCODE_ASYNC_CB_STARTED; until a load fails
\* after RegisterCallback, which nothing takes back (client_factory.cpp:102).
HandlerAgrees == (call = "idle" /\ ~loadFailed) => (handler <=> cbs # {})

\* The listener and the handler that ProcessResponse holds without a lock are
\* not freed under it, although ClientRelease frees the handler first and the
\* engine is stopped last; and a response waiting for the AsyncProcessWorker is
\* not destroyed with the future it was detached from.
NoDangling ==
    /\ engine = "reply" => TransOf[current] \in listeners
    /\ engine = "add" => handler
    /\ freed \cap (ToSet(responses) \cup {held}) = {}

\* The inductive invariant behind these three.  The session a call is about: it
\* has a callback and no engine when it loads; when it is released it has no
\* callback, nothing on its way, and its engine until the end.  Every other
\* session with an engine has its callback and its listener.
Releasing == call \in {"remove", "unload", "stop"}
CallAgrees ==
    /\ call = "idle" <=> arg = NoTrans
    /\ call = "load" => arg \in cbs \ loaded
    /\ Releasing => arg \in loaded \ cbs /\ Answered(arg)
    /\ call = "remove" => cbs = {}
    /\ loaded \ {arg} \subseteq cbs
    /\ listeners = IF call = "stop" THEN loaded \ {arg} ELSE loaded

\* The handler and its thread come and go together, with the first callback and
\* after the last.
HandlerFollows ==
    /\ handler <=> worker # "none"
    /\ cbs # {} \/ call = "remove" => handler
    /\ handler /\ ~loadFailed => cbs # {} \/ call = "remove"

\* Results on their way belong to sessions with an engine, and none of them was
\* destroyed.
FlowServed ==
    /\ engine = "idle" <=> current = NoReq
    /\ worker = "send" <=> held # NoReq
    /\ fresh \cap ToSet(accepted) = {}
    /\ \A r \in OnWay : TransOf[r] \in loaded
    /\ freed \subseteq ToSet(accepted) /\ freed \cap AtWorker = {}

PipelineInv == TypeOK /\ CallAgrees /\ HandlerFollows /\ FlowServed /\ NothingLost

\* "The inference result is notified to the client through callback function
\* passed in by ClientPrepare" (client_factory.h:96): every request that
\* ClientAsyncProcess accepted is answered by OnResult, unless AsyncCallback
\* threw its result away because the release or the failed load of another
\* session had taken ResultCb_, or a failed send has ended the worker.
EveryRequestAnswered ==
    \A r \in Reqs : r \in ToSet(accepted) ~> (r \in ToSet(got) \cup thrown \/ worker = "ended")

\* ClientPrepare and ClientRelease return: the thread that
\* StopAsyncProcessThread joins wakes up every second ("complete blocking will
\* prevent from joining thread", client_listener_handler.cpp:131), and one
\* that a failed send has ended is not waited for.
ReleaseReturns == call # "idle" ~> call = "idle"
===============================================================================
