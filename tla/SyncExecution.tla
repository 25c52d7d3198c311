--------------------------- MODULE SyncExecution ---------------------------
(***************************************************************************)
(* A synchronous request, from SyncExecAlgorithmProxy in the client to the *)
(* plugin and back, and the memory it passes through: data of 200 bytes    *)
(* and more travels in a shared memory segment that the sender creates and *)
(* the receiver removes (aie_ipc.cpp); on the server the input belongs to  *)
(* the request, the output to the response until it is detached.           *)
(*                                                                         *)
(* Each client process has one call at a time.  The service handles one    *)
(* message at a time: its IPC task queues the request for the engine's     *)
(* worker and sleeps on a notifier on its own stack (SYNC_MSG_TIMEOUT is   *)
(* -1, so without limit).  The processes share the keys of the segments.   *)
(***************************************************************************)
EXTENDS Integers, Sequences, FiniteSetsExt, SequencesExt

CONSTANTS
    Clients,   \* client processes
    Server,    \* the service process
    NoClient,  \* no client is being served
    NoData,    \* no data: an empty DataInfo, a key without segment
    NoKey,     \* a message without a segment id
    NumKeys,   \* SHM_KEY_END - SHM_KEY_START
    QueueCap,  \* MAX_SYNC_MSG_NUM
    MaxCalls,  \* bound: calls of all clients
    Faults     \* the failures explored, see Fault

Fault == {"lost", "push", "pop", "unparcel", "refused", "noengine", "plugin", "nomem", "die"}

ASSUME SyncAssumption ==
    /\ Server \notin Clients /\ NoClient \notin Clients
    /\ NoData \notin Clients \X Nat /\ NoKey \notin 0 .. NumKeys - 1
    /\ NumKeys \in Nat \ {0} /\ QueueCap \in Nat \ {0} /\ MaxCalls \in Nat
    /\ Faults \subseteq Fault

Procs == Clients \cup {Server}
Key == 0 .. NumKeys - 1

\* The n-th input of a client; a result is told apart by the input it is of.
Data == Clients \X Nat

\* Lengths: 0, below IPC_MAX_TRANS_CAPACITY, up to and above MAX_SHM_DATA_SIZE.
Size == {"empty", "inline", "shared", "huge"}
Empty == [size |-> "empty", data |-> NoData]
EmptyParcel == [size |-> "empty", data |-> NoData, key |-> NoKey]

\* Memory on the server; "unowned" is the input of a request that was refused
\* before it had an owner.
Blocks == {"input", "request", "response", "output", "unowned"}

VARIABLES
    shm,       \* the segments of the system: key -> contents
    shmKey,    \* g_shmKey of each process
    attempts,  \* the counter of AcquireShmSegment
    pushing,   \* what a process is putting into a segment
    call,      \* where the client's call is
    calls,     \* calls of the client so far
    heard,     \* how its last call ended
    inbox,     \* messages for the service
    reply,     \* the message for a client, or none
    server,    \* where InvokeSyncExecute is
    serving,   \* whose message it handles
    heap,      \* blocks of the request that are allocated on the server
    freedTwice,\* ghost: a block was freed that was not allocated
    queue,     \* the engine's queue
    worker,    \* where the EngineWorker is
    task,      \* the request of the task it has
    response,  \* the response it has made
    notifier,  \* value_ and the semaphore of the IPC task's notifier
    lost,      \* ghost: segments whose message nobody will read
    misread,   \* ghost: a missing segment id was read as that of another
    starved    \* ghost: the worker gave a task up without an answer

shmVars == <<shm, shmKey, attempts, pushing>>
clientVars == <<call, calls, heard>>
serverVars == <<server, serving>>
heapVars == <<heap, freedTwice>>
engineVars == <<queue, worker, task, response>>
vars == <<shm, shmKey, attempts, pushing, call, calls, heard, inbox, reply, server, serving,
          heap, freedTwice, queue, worker, task, response, notifier, lost, misread, starved>>

NoReply == [ret |-> "none", parcel |-> EmptyParcel]
NotHeard == [ret |-> "none", data |-> NoData]
NoResponse == [ret |-> "none", size |-> "empty", data |-> NoData, transaction |-> NoClient]
NoRequest == [transaction |-> NoClient, msg |-> NoData]
NewNotifier == [value |-> NoResponse, count |-> 0]

Init ==
    /\ shm = [k \in Key |-> NoData]
    /\ shmKey = [p \in Procs |-> 0]
    /\ attempts = [p \in Procs |-> 0]
    /\ pushing = [p \in Procs |-> Empty]
    /\ call = [c \in Clients |-> "idle"]
    /\ calls = [c \in Clients |-> 0]
    /\ heard = [c \in Clients |-> NotHeard]
    /\ inbox = << >>
    /\ reply = [c \in Clients |-> NoReply]
    /\ server = "idle" /\ serving = NoClient
    /\ heap = {} /\ freedTwice = FALSE
    /\ queue = << >> /\ worker = "idle" /\ task = NoRequest /\ response = NoResponse
    /\ notifier = NewNotifier
    /\ lost = {} /\ misread = FALSE /\ starved = FALSE

----------------------------------------------------------------------------
(* Memory of the request on the server *)

\* ConvertToRequest: of the ids, the transaction is that of the client's session.
ConvertToRequest(transaction, msg) == [transaction |-> transaction, msg |-> msg]

GetMsg(request) == request.msg
GetTransactionId(request) == request.transaction

\* A response is made for a request: its ids are those of the request, its
\* result that of the request's input, if there is one.
Response(request, ret, size) ==
    [ret |-> ret, size |-> size, transaction |-> GetTransactionId(request),
     data |-> IF size = "empty" THEN NoData ELSE GetMsg(request)]

GetRetCode(r) == r.ret
GetResult(r) == [size |-> r.size, data |-> r.data]

\* The request frees its input with itself.
RequestBlocks == {"request", "input"}

\* The response frees its result with itself, unless that was detached.
Output(r) == IF r.size = "empty" THEN {} ELSE {"output"}

Free(blocks) ==
    /\ heap' = heap \ blocks
    /\ freedTwice' = (freedTwice \/ ~(blocks \subseteq heap))

----------------------------------------------------------------------------
(* Sending: ParcelDataInfo *)

\* Data below IPC_MAX_TRANS_CAPACITY travels in the message; of an empty DataInfo
\* only the length does.
ParcelDataInfo(x) == [size |-> x.size, data |-> x.data, key |-> NoKey]

\* More goes through a segment: AcquireShmSegment tries each key once.
AcquireShmSegment(p, x) ==
    /\ attempts' = [attempts EXCEPT ![p] = NumKeys]
    /\ pushing' = [pushing EXCEPT ![p] = x]

\* The answer goes to the client that waits for it; that of a dead client is
\* dropped, and nobody removes its segment.
Reply(c, ret, parcel) ==
    IF call[c] = "dead"
    THEN /\ lost' = lost \cup ({parcel.key} \ {NoKey})
         /\ UNCHANGED reply
    ELSE /\ reply' = [reply EXCEPT ![c] = [ret |-> ret, parcel |-> parcel]]
         /\ UNCHANGED lost

\* The message leaves; the server frees the output it has parcelled.
Send(p, parcel) ==
    \/ /\ p \in Clients
       /\ call' = [call EXCEPT ![p] = "sent"]
       /\ inbox' = Append(inbox, [from |-> p, parcel |-> parcel])
       /\ UNCHANGED <<serverVars, reply, lost, heapVars>>
    \/ /\ p = Server
       /\ server' = "idle" /\ serving' = NoClient
       /\ Reply(serving, "success", parcel)
       /\ Free({"output"})
       /\ UNCHANGED <<call, inbox>>

IsPushing(p) == IF p = Server THEN server = "push" ELSE call[p] = "push"

\* A parcel of p that travels in segment k, or that lacks its segment.
Segment(p, k) == [size |-> pushing[p].size, data |-> NoData, key |-> k]

Advance(p) == shmKey' = [shmKey EXCEPT ![p] = (@ + 1) % NumKeys]
Pushed(p) == pushing' = [pushing EXCEPT ![p] = Empty] /\ attempts' = [attempts EXCEPT ![p] = 0]

\* mutant: shmget without IPC_EXCL also returns the segment of another
KeyTakenNever(p) == FALSE

\* shmget says EEXIST.
KeyTaken(p) == shm[shmKey[p]] # NoData

\* AcquireShmSegment tries the next key.
PushRetry(p) ==
    /\ IsPushing(p) /\ KeyTaken(p) /\ attempts[p] > 1
    /\ Advance(p)
    /\ attempts' = [attempts EXCEPT ![p] = @ - 1]
    /\ UNCHANGED <<shm, pushing, clientVars, inbox, reply, serverVars, heapVars, engineVars,
                   notifier, lost, misread, starved>>

\* All keys were taken: the message leaves with a length and no segment id.
PushExhausted(p) ==
    /\ IsPushing(p) /\ KeyTaken(p) /\ attempts[p] = 1
    /\ Advance(p)
    /\ Pushed(p)
    /\ Send(p, Segment(p, NoKey))
    /\ UNCHANGED <<shm, calls, heard, engineVars, notifier, misread, starved>>

\* The segment is created, filled, given to the receiver, and sent.
PushShared(p) ==
    /\ IsPushing(p) /\ ~KeyTaken(p)
    /\ Advance(p)
    /\ shm' = [shm EXCEPT ![shmKey[p]] = pushing[p].data]
    /\ Pushed(p)
    /\ Send(p, Segment(p, shmKey[p]))
    /\ UNCHANGED <<calls, heard, engineVars, notifier, misread, starved>>

\* shmget fails for another reason, and the key is kept; or shmat, memcpy_s,
\* shmdt or shmctl fails, and the segment is removed again.  The message
\* leaves without the id.
PushFails(p) ==
    /\ "push" \in Faults
    /\ IsPushing(p) /\ ~KeyTaken(p)
    /\ Advance(p) \/ UNCHANGED shmKey
    /\ Pushed(p)
    /\ Send(p, Segment(p, NoKey))
    /\ UNCHANGED <<shm, calls, heard, engineVars, notifier, misread, starved>>

----------------------------------------------------------------------------
(* Receiving: UnParcelDataInfo *)

Failed(released) == [ok |-> FALSE, data |-> NoData, released |-> released, wrong |-> FALSE]

\* mutant: a segment of invalid length is refused and left
PopSharedMemoryKeepsHuge(size, k) ==
    IF size = "huge" THEN {Failed({})}
    ELSE {[ok |-> shm[k] # NoData, data |-> shm[k], released |-> {k}, wrong |-> FALSE]}
           \cup (IF "pop" \in Faults THEN {Failed({k})} ELSE {})

\* The segment is removed whether or not its contents could be copied; a
\* length above the limit is refused.
IpcIoPopSharedMemory(size, k) ==
    {[ok |-> size # "huge" /\ shm[k] # NoData, data |-> shm[k], released |-> {k}, wrong |-> FALSE]}
      \cup (IF "pop" \in Faults THEN {Failed({k})} ELSE {})

IpcIoPopMemory(parcel) ==
    {[ok |-> TRUE, data |-> parcel.data, released |-> {}, wrong |-> FALSE]}
      \cup (IF "pop" \in Faults THEN {Failed({})} ELSE {})

\* When the message lacks the id, ReadInt32 leaves shmId uninitialized: no
\* segment has that id, or one has that is not meant.
PopMissing(size) ==
    {Failed({})} \cup
        UNION {{[o EXCEPT !.wrong = TRUE] : o \in IpcIoPopSharedMemory(size, k)} :
               k \in {j \in Key : shm[j] # NoData}}

\* The ways UnParcelDataInfo may end.
UnParcelDataInfo(parcel) ==
    CASE parcel.size = "empty"  -> {[ok |-> TRUE, data |-> NoData, released |-> {}, wrong |-> FALSE]}
      [] parcel.size = "inline" -> IpcIoPopMemory(parcel)
      [] parcel.size \in {"shared", "huge"} ->
            IF parcel.key = NoKey THEN PopMissing(parcel.size)
            ELSE IpcIoPopSharedMemory(parcel.size, parcel.key)

Popped(o) ==
    /\ shm' = [k \in Key |-> IF k \in o.released THEN NoData ELSE shm[k]]
    /\ misread' = (misread \/ o.wrong)

----------------------------------------------------------------------------
(* The client *)

\* A new call of the application
ClientSyncProcess(c) ==
    /\ call[c] = "idle" /\ MapThenSumSet(LAMBDA d : calls[d], Clients) < MaxCalls
    /\ calls' = [calls EXCEPT ![c] = @ + 1]
    /\ heard' = [heard EXCEPT ![c] = NotHeard]

\* The call parcels its input; a large one goes through PushShared.
SyncExecAlgorithmProxy(c, size) ==
    LET input == [size |-> size, data |-> <<c, calls[c] + 1>>] IN
    /\ ClientSyncProcess(c)
    /\ IF size = "inline"
       THEN /\ Send(c, ParcelDataInfo(input))
            /\ UNCHANGED <<attempts, pushing>>
       ELSE /\ call' = [call EXCEPT ![c] = "push"]
            /\ AcquireShmSegment(c, input)
            /\ UNCHANGED <<inbox, reply, lost, serverVars, heapVars>>
    /\ UNCHANGED <<shm, shmKey, engineVars, notifier, misread, starved>>

\* The answer is unparcelled and the call returns; a reply into which the
\* server has written nothing leaves RETCODE_FAILURE.
CallbackBuff(c) ==
    /\ call[c] = "sent" /\ reply[c] # NoReply
    /\ \E o \in UnParcelDataInfo(reply[c].parcel) :
          /\ Popped(o)
          /\ heard' = [heard EXCEPT ![c] =
                [ret |-> IF o.ok THEN reply[c].ret ELSE "failure",
                 data |-> IF o.ok THEN o.data ELSE NoData]]
    /\ call' = [call EXCEPT ![c] = "idle"]
    /\ reply' = [reply EXCEPT ![c] = NoReply]
    /\ UNCHANGED <<shmKey, attempts, pushing, calls, inbox, serverVars, heapVars, engineVars,
                   notifier, lost, starved>>

\* What a process keeps goes with it.
Gone(c) ==
    /\ call' = [call EXCEPT ![c] = "dead"]
    /\ heard' = [heard EXCEPT ![c] = NotHeard]
    /\ shmKey' = [shmKey EXCEPT ![c] = 0]
    /\ Pushed(c)

\* The process of a client dies; the answer it has not read stays unread.
Die(c) ==
    /\ "die" \in Faults
    /\ call[c] # "dead"
    /\ Gone(c)
    /\ lost' = lost \cup ({reply[c].parcel.key} \ {NoKey})
    /\ reply' = [reply EXCEPT ![c] = NoReply]
    /\ UNCHANGED <<shm, calls, inbox, serverVars, heapVars, engineVars,
                   notifier, misread, starved>>

\* Or it dies with a segment that it has created and not yet sent.
DiePushing(c) ==
    /\ "die" \in Faults
    /\ call[c] = "push" /\ ~KeyTaken(c)
    /\ Gone(c)
    /\ shm' = [shm EXCEPT ![shmKey[c]] = pushing[c].data]
    /\ lost' = lost \cup {shmKey[c]}
    /\ UNCHANGED <<calls, inbox, reply, serverVars, heapVars, engineVars,
                   notifier, misread, starved>>

\* The message does not reach the service.  The result of proxy.Invoke is not
\* looked at: the call returns RETCODE_FAILURE, and the segment stays.
InvokeLost(c) ==
    /\ "lost" \in Faults
    /\ call[c] = "sent"
    /\ \E i \in DOMAIN inbox :
          /\ inbox[i].from = c
          /\ inbox' = RemoveAt(inbox, i)
          /\ lost' = lost \cup ({inbox[i].parcel.key} \ {NoKey})
    /\ call' = [call EXCEPT ![c] = "idle"]
    /\ heard' = [heard EXCEPT ![c] = [ret |-> "failure", data |-> NoData]]
    /\ UNCHANGED <<shmVars, calls, reply, serverVars, heapVars, engineVars, notifier, misread, starved>>

----------------------------------------------------------------------------
(* The IPC task of the service *)

Message == Head(inbox)
Answer(ret) == Reply(Message.from, ret, EmptyParcel)

MayInvoke == server = "idle" /\ inbox # << >>

\* The client's or the algorithm's information cannot be unparcelled: the
\* input behind it is not popped.
UnParcelInfoFails ==
    /\ "unparcel" \in Faults
    /\ MayInvoke
    /\ inbox' = Tail(inbox)
    /\ IF call[Message.from] = "dead" THEN UNCHANGED reply
       ELSE reply' = [reply EXCEPT ![Message.from] = [ret |-> "failure", parcel |-> EmptyParcel]]
    /\ lost' = lost \cup ({Message.parcel.key} \ {NoKey})
    /\ UNCHANGED <<shmVars, clientVars, serverVars, heapVars, engineVars, notifier, misread, starved>>

\* The input cannot be unparcelled, or the transaction has no engine, and the
\* request is freed with its input.
InvokeFails ==
    /\ MayInvoke
    /\ \E o \in UnParcelDataInfo(Message.parcel) :
          /\ ~o.ok \/ "noengine" \in Faults
          /\ Popped(o)
    /\ inbox' = Tail(inbox)
    /\ Answer("failure")
    /\ UNCHANGED <<shmKey, attempts, pushing, clientVars, serverVars, heapVars, engineVars,
                   notifier, starved>>

\* SyncExecAlgoWrapper finds the wrong mode or no adapter, or there is no memory
\* for a request: nobody frees the input.
InvokeRefused ==
    /\ "refused" \in Faults
    /\ MayInvoke
    /\ \E o \in UnParcelDataInfo(Message.parcel) :
          /\ o.ok
          /\ Popped(o)
    /\ heap' = heap \cup {"unowned"}
    /\ inbox' = Tail(inbox)
    /\ Answer("failure")
    /\ UNCHANGED <<shmKey, attempts, pushing, clientVars, serverVars, freedTwice, engineVars,
                   notifier, starved>>

\* The request is queued with the address of a new notifier, if there is room.
PushBack(request) ==
    /\ Len(queue) < QueueCap
    /\ queue' = Append(queue, request)
    /\ notifier' = NewNotifier

\* SaServerAdapter::SyncExecute makes the request, which owns the input, and
\* SendRequest queues it.
SendRequest ==
    /\ MayInvoke
    /\ \E o \in UnParcelDataInfo(Message.parcel) :
          /\ o.ok
          /\ Popped(o)
          /\ PushBack(ConvertToRequest(Message.from, o.data))
    /\ inbox' = Tail(inbox)
    /\ server' = "wait" /\ serving' = Message.from
    /\ heap' = heap \cup RequestBlocks
    /\ UNCHANGED <<shmKey, attempts, pushing, clientVars, reply, freedTwice, worker, task, response,
                   lost, starved>>

\* mutant: the output is not detached from the response
GuardedNoDetach(r) == RequestBlocks \cup {"response"} \cup Output(r)

\* What the guards of SaServerAdapter::SyncExecute free: the output goes with
\* the response unless it has been detached.
Guarded(r) ==
    RequestBlocks \cup {"response"} \cup (IF GetRetCode(r) = "success" THEN {} ELSE Output(r))

\* Wait returns only when the semaphore is up: a limit of -1 is none.
SemaphoreUp == notifier.count > 0

\* The value is taken, and the notifier goes with the stack frame.
GetFromFront == notifier' = NewNotifier

\* The IPC task wakes up: the response is taken and answered, or its large
\* output goes through PushShared.
ReceiveResponse ==
    LET r == notifier.value
        result == GetResult(r)
        success == GetRetCode(r) = "success"
    IN
    /\ server = "wait" /\ SemaphoreUp
    /\ GetFromFront
    /\ IF success /\ result.size \in {"shared", "huge"}
       THEN /\ server' = "push" /\ UNCHANGED serving
            /\ AcquireShmSegment(Server, result)
            /\ Free(Guarded(r))
            /\ UNCHANGED <<reply, lost>>
       ELSE /\ server' = "idle" /\ serving' = NoClient
            /\ Reply(serving, GetRetCode(r),
                 IF success /\ result.size = "inline" THEN ParcelDataInfo(result) ELSE EmptyParcel)
            /\ Free(Guarded(r) \cup (IF result.size = "inline" THEN {"output"} ELSE {}))
            /\ UNCHANGED <<attempts, pushing>>
    /\ UNCHANGED <<shm, shmKey, clientVars, inbox, engineVars, misread, starved>>

----------------------------------------------------------------------------
(* The EngineWorker *)

PopFront ==
    /\ worker = "idle" /\ queue # << >>
    /\ worker' = "process"
    /\ task' = Head(queue)
    /\ queue' = Tail(queue)
    /\ UNCHANGED <<shmVars, clientVars, inbox, reply, serverVars, heapVars, response, notifier,
                   lost, misread, starved>>

\* mutant: a request that the plugin refuses is not answered
RespondOnSuccessOnly(ret, size) ==
    /\ worker' = IF ret = "success" THEN "store" ELSE "idle"
    /\ response' = Response(task, ret, size)
    /\ heap' = heap \cup {"response"} \cup Output(response')

Respond(ret, size) ==
    /\ worker' = "store"
    /\ response' = Response(task, ret, size)
    /\ heap' = heap \cup {"response"} \cup Output(response')

\* SyncProcess of the plugin returns, perhaps with a failure and a result.
Process(size) ==
    /\ worker = "process"
    /\ \/ Respond("success", size)
       \/ "plugin" \in Faults /\ Respond("failure", size)
    /\ task' = NoRequest
    /\ UNCHANGED <<shmVars, clientVars, inbox, reply, serverVars, freedTwice, queue, notifier,
                   lost, misread, starved>>

\* There is neither a response of the plugin nor memory for one.
ProcessGivesUp ==
    /\ "nomem" \in Faults
    /\ worker = "process"
    /\ worker' = "idle"
    /\ starved' = TRUE
    /\ UNCHANGED <<shmVars, clientVars, inbox, reply, serverVars, heapVars, queue, task, response,
                   notifier, lost, misread>>

\* AddToBack stores the response and then signals.
AddToBack ==
    /\ worker = "store"
    /\ worker' = "signal"
    /\ notifier' = [notifier EXCEPT !.value = response]
    /\ UNCHANGED <<shmVars, clientVars, inbox, reply, serverVars, heapVars, queue, task, response,
                   lost, misread, starved>>

Signal ==
    /\ worker = "signal"
    /\ worker' = "idle"
    /\ notifier' = [notifier EXCEPT !.count = @ + 1]
    /\ response' = NoResponse
    /\ UNCHANGED <<shmVars, clientVars, inbox, reply, serverVars, heapVars, queue, task,
                   lost, misread, starved>>

----------------------------------------------------------------------------

Push(p) == PushRetry(p) \/ PushExhausted(p) \/ PushShared(p) \/ PushFails(p)
ClientStep(c) == Push(c) \/ CallbackBuff(c)
ServerStep == Push(Server) \/ UnParcelInfoFails \/ InvokeFails \/ InvokeRefused \/ SendRequest \/ ReceiveResponse
WorkerStep ==
    PopFront \/ (\E size \in Size : Process(size)) \/ ProcessGivesUp \/ AddToBack \/ Signal

Next ==
    \/ \E c \in Clients, size \in Size \ {"empty"} : SyncExecAlgorithmProxy(c, size)
    \/ \E c \in Clients : ClientStep(c) \/ InvokeLost(c) \/ Die(c) \/ DiePushing(c)
    \/ ServerStep
    \/ WorkerStep

\* A call that has begun goes on, and the threads of the service run.
Fairness ==
    /\ \A c \in Clients : WF_vars(ClientStep(c))
    /\ WF_vars(ServerStep)
    /\ WF_vars(WorkerStep)

Spec == Init /\ [][Next]_vars /\ Fairness

----------------------------------------------------------------------------
(* Properties *)

\* Types, for the proofs.
Ret == {"none", "success", "failure"}
Datum == Data \cup {NoData}
Parcels == [size : Size, data : Datum, key : Key \cup {NoKey}]
Messages == [from : Clients, parcel : Parcels]
Requests == [transaction : Clients \cup {NoClient}, msg : Datum]
Responses == [ret : Ret, size : Size, data : Datum, transaction : Clients \cup {NoClient}]
ShmOK ==
    /\ shm \in [Key -> Datum] /\ shmKey \in [Procs -> Key] /\ attempts \in [Procs -> Nat]
    /\ pushing \in [Procs -> [size : Size, data : Datum]]
ClientOK ==
    /\ call \in [Clients -> {"idle", "push", "sent", "dead"}] /\ calls \in [Clients -> Nat]
    /\ heard \in [Clients -> [ret : Ret, data : Datum]]
PostOK ==
    /\ inbox \in Seq(Messages) /\ reply \in [Clients -> [ret : Ret, parcel : Parcels]]
    /\ lost \subseteq Key
ServerOK ==
    /\ server \in {"idle", "wait", "push"} /\ serving \in Clients \cup {NoClient}
    /\ heap \subseteq Blocks /\ freedTwice \in BOOLEAN
EngineOK ==
    /\ queue \in Seq(Requests) /\ worker \in {"idle", "process", "store", "signal"}
    /\ task \in Requests /\ response \in Responses
    /\ notifier \in [value : Responses, count : Nat]
GhostOK == misread \in BOOLEAN /\ starved \in BOOLEAN
TypeOK == ShmOK /\ ClientOK /\ PostOK /\ ServerOK /\ EngineOK /\ GhostOK

\* A call that returns success with a result returns the result of its own
\* input: whichever segments other processes create and remove meanwhile, and
\* however the worker and the IPC task interleave, until a message without
\* its segment id has been read; and the response that the IPC task takes is of
\* the transaction of the client it serves.
AnswerIntact ==
    /\ (server = "wait" /\ SemaphoreUp) => notifier.value.transaction = serving
    /\ ~misread =>
        \A c \in Clients : heard[c].ret = "success" => heard[c].data \in {NoData, <<c, calls[c]>>}

\* The request and its input outlive the worker's use of them, the notifier is
\* there when the worker signals it, nothing is freed twice, and when the IPC
\* task is done with a message it has freed all that the message brought, but
\* for the input of a refused one.
MemoryOwned ==
    /\ ~freedTwice
    /\ worker # "idle" => server = "wait" /\ RequestBlocks \subseteq heap
    /\ server = "idle" => heap \subseteq {"unowned"}

\* Every segment of the system belongs to one message that is on its way and
\* holds the data of that message, or was lost with a dead process or a message
\* that could not be read: both sides together remove each segment once,
\* whichever of their steps fail.
SegmentsAccounted ==
    ~misread =>
        LET requests == {i \in DOMAIN inbox : inbox[i].parcel.key # NoKey}
            replies == {c \in Clients : reply[c].parcel.key # NoKey}
        IN  /\ Cardinality({k \in Key : shm[k] # NoData})
                 = Cardinality(requests) + Cardinality(replies) + Cardinality(lost)
            /\ \A i \in requests :
                 shm[inbox[i].parcel.key] = <<inbox[i].from, calls[inbox[i].from]>>
            /\ \A c \in replies : shm[reply[c].parcel.key] = <<c, calls[c]>>

\* Every call returns although the IPC task waits without limit, unless the
\* worker found no memory to answer with: then the whole service waits.
SyncCallsReturn ==
    \A c \in Clients : call[c] \in {"push", "sent"} ~> (call[c] \in {"idle", "dead"} \/ starved)

\* The inductive invariant behind the first three, in three parts.
\* While the IPC task waits, the request is in one place: in the queue, with the
\* worker, in the notifier, or given up; and so is the memory that belongs to it.
Allocated == heap \ {"unowned"}
InQueue == Len(queue) = 1 /\ worker = "idle" /\ notifier.count = 0
WithWorker == queue = << >> /\ worker # "idle" /\ notifier.count = 0
InNotifier == queue = << >> /\ worker = "idle" /\ notifier.count = 1
GivenUp == queue = << >> /\ worker = "idle" /\ notifier.count = 0
Answered(r) ==
    /\ r.transaction = serving
    /\ Allocated = RequestBlocks \cup {"response"} \cup Output(r)
RequestFollowed ==
    /\ InQueue => Head(queue).transaction = serving /\ Allocated = RequestBlocks
    /\ WithWorker /\ worker = "process" =>
          task.transaction = serving /\ Allocated = RequestBlocks
    /\ WithWorker /\ worker # "process" => Answered(response)
    /\ WithWorker /\ worker = "signal" => notifier.value = response
    /\ InNotifier => Answered(notifier.value)
FlowInv ==
    /\ ~freedTwice
    /\ server = "idle" => serving = NoClient /\ Allocated = {}
    /\ server = "push" => Allocated = {"output"}
    /\ server # "idle" => serving \in Clients
    /\ server # "wait" => GivenUp
    /\ server = "wait" => (InQueue \/ WithWorker \/ InNotifier \/ GivenUp) /\ RequestFollowed

\* A client has one message, request or reply, on its way.
From(c) == {m \in ToSet(inbox) : m.from = c}
OnePerClient == \A i, j \in DOMAIN inbox : inbox[i].from = inbox[j].from => i = j
Stage(c) ==
    /\ call[c] \in {"idle", "push"} => From(c) = {} /\ serving # c /\ reply[c] = NoReply
    /\ From(c) # {} => serving # c /\ reply[c] = NoReply
    /\ serving = c \/ call[c] = "dead" => reply[c] = NoReply
StageInv == OnePerClient /\ \A c \in Clients : Stage(c)

\* Until a segment is misread, whatever is on its way for a client is of its
\* current input, and every segment has one message or is lost.
Input(c) == <<c, calls[c]>>
Carries(parcel, c) ==
    /\ parcel.size = "empty" => parcel.data = NoData /\ parcel.key = NoKey
    /\ parcel.size = "inline" => parcel.data = Input(c) /\ parcel.key = NoKey
    /\ parcel.key # NoKey => shm[parcel.key] = Input(c) /\ parcel.key \notin lost
ResultOf(r, c) == r.data = IF r.size = "empty" THEN NoData ELSE Input(c)
PushingOwn ==
    /\ \A c \in Clients : call[c] = "push" =>
          pushing[c].size \in {"shared", "huge"} /\ pushing[c].data = Input(c)
    /\ server = "push" =>
          pushing[Server].size \in {"shared", "huge"} /\ pushing[Server].data = Input(serving)
MessagesOwn ==
    /\ \A m \in ToSet(inbox) : m.parcel.size # "empty" /\ Carries(m.parcel, m.from)
    /\ \A c \in Clients : Carries(reply[c].parcel, c)
RequestOwn ==
    server = "wait" =>
        /\ InQueue => Head(queue).msg = Input(serving)
        /\ WithWorker /\ worker = "process" => task.msg = Input(serving)
        /\ WithWorker /\ worker # "process" => ResultOf(response, serving)
        /\ InNotifier => ResultOf(notifier.value, serving)
SegmentsHeld ==
    \A k \in Key : shm[k] # NoData <=>
        \/ k \in lost
        \/ \E m \in ToSet(inbox) : m.parcel.key = k
        \/ \E c \in Clients : reply[c].parcel.key = k
HeardOwn ==
    \A c \in Clients : heard[c].ret = "success" => heard[c].data \in {NoData, Input(c)}
ContentInv == PushingOwn /\ MessagesOwn /\ RequestOwn /\ SegmentsHeld /\ HeardOwn

SyncInv == TypeOK /\ FlowInv /\ StageInv /\ (~misread => ContentInv)

=============================================================================
