--------------------------------- MODULE Queue ---------------------------------
(***************************************************************************)
(* Queue<TYPE> (common/platform/queuepool/queue.inl), the ring buffer      *)
(* between the thread that submits tasks to an engine and the engine's     *)
(* worker thread.  It takes no lock: PushBack and PopFront are sequences   *)
(* of separate atomic operations on four size_t counters and on the slots, *)
(* so each of them is split here into one step per access to shared state. *)
(* The server runs all its IPC handlers on one task (sa_server.c,          *)
(* GetTaskConfig), hence one pusher; an engine has one worker, hence one   *)
(* popper.                                                                 *)
(***************************************************************************)
EXTENDS Integers, Sequences

CONSTANTS
    Msg,        \* the tasks
    NullTask,   \* a default-constructed Task
    TotalNum,   \* totalNum_, the number of slots
    SizeMod     \* 2^w, w the width of size_t: the counters wrap there

ASSUME QueueAssumption ==
    /\ NullTask \notin Msg
    /\ TotalNum \in Nat \ {0}
    /\ SizeMod \in Nat \ {0}
    /\ SizeMod > TotalNum
    /\ SizeMod % TotalNum = 0

Slots == 0 .. (TotalNum - 1)
Size_t == 0 .. (SizeMod - 1)

VARIABLES
    pushPos,    \* pushPos_
    popPos,     \* popPos_
    writeAble,  \* writeAbleCount_
    readAble,   \* readAbleCount_
    filled,     \* the slots i with queue_[i].empty = false
    node,       \* node[i] = queue_[i].node
    pushPc,     \* the next step of the pusher inside PushBack
    pushAt,     \* PushBack's local pushPos
    pushMsg,    \* PushBack's argument
    popPc,      \* the next step of the popper inside PopFront
    popAt,      \* PopFront's local popPos
    popMsg      \* PopFront's output argument

ringVars == <<pushPos, popPos, writeAble, readAble, filled, node>>
pushVars == <<pushPc, pushAt, pushMsg>>
popVars  == <<popPc, popAt, popMsg>>
queueVars == <<pushPos, popPos, writeAble, readAble, filled, node,
              pushPc, pushAt, pushMsg, popPc, popAt, popMsg>>

PushPc == {"idle", "reserve", "claim", "store", "mark", "publish"}
PopPc  == {"idle", "take", "locate", "advance", "load", "clear", "release"}

QueueInit ==
    /\ pushPos = 0 /\ popPos = 0
    /\ writeAble = TotalNum /\ readAble = 0
    /\ filled = {}
    /\ node = [i \in Slots |-> NullTask]
    /\ pushPc = "idle" /\ pushAt = 0 /\ pushMsg = NullTask
    /\ popPc = "idle" /\ popAt = 0 /\ popMsg = NullTask

-------------------------------------------------------------------------------
(* PushBack, one action per access to shared state. *)

\* CHK_RET(writeAbleCount_ == 0, RETCODE_QUEUE_FULL)
PushCheck(m) ==
    /\ pushPc = "idle"
    /\ pushMsg' = m
    /\ pushPc' = IF writeAble = 0 THEN "idle" ELSE "reserve"
    /\ UNCHANGED <<ringVars, pushAt, popVars>>

PushReserve ==
    /\ pushPc = "reserve"
    /\ writeAble' = (writeAble - 1) % SizeMod
    /\ pushPc' = "claim"
    /\ UNCHANGED <<pushPos, popPos, readAble, filled, node, pushAt, pushMsg, popVars>>

\* mutant: the slot is computed from the other counter
PushClaimWrongCounter ==
    /\ pushPc = "claim"
    /\ pushAt' = popPos % TotalNum
    /\ pushPos' = (pushPos + 1) % SizeMod
    /\ pushPc' = "store"
    /\ UNCHANGED <<popPos, writeAble, readAble, filled, node, pushMsg, popVars>>

PushClaim ==
    /\ pushPc = "claim"
    /\ pushAt' = pushPos % TotalNum
    /\ pushPos' = (pushPos + 1) % SizeMod
    /\ pushPc' = "store"
    /\ UNCHANGED <<popPos, writeAble, readAble, filled, node, pushMsg, popVars>>

PushStore ==
    /\ pushPc = "store"
    /\ node' = [node EXCEPT ![pushAt] = pushMsg]
    /\ pushPc' = "mark"
    /\ UNCHANGED <<pushPos, popPos, writeAble, readAble, filled, pushAt, pushMsg, popVars>>

\* mutant: the slot is not marked as filled
PushMarkForgotten ==
    /\ pushPc = "mark"
    /\ pushPc' = "publish"
    /\ UNCHANGED <<ringVars, pushAt, pushMsg, popVars>>

PushMark ==
    /\ pushPc = "mark"
    /\ filled' = filled \cup {pushAt}
    /\ pushPc' = "publish"
    /\ UNCHANGED <<pushPos, popPos, writeAble, readAble, node, pushAt, pushMsg, popVars>>

PushPublish ==
    /\ pushPc = "publish"
    /\ readAble' = (readAble + 1) % SizeMod
    /\ pushPc' = "idle"
    /\ UNCHANGED <<pushPos, popPos, writeAble, filled, node, pushAt, pushMsg, popVars>>

PushBack ==
    \/ \E m \in Msg : PushCheck(m)
    \/ PushReserve \/ PushClaim \/ PushStore \/ PushMark \/ PushPublish

-------------------------------------------------------------------------------
(* PopFront, one action per access to shared state. *)

\* mutant: off by one, a single task counts as an empty queue
PopCheckOffByOne ==
    /\ popPc = "idle"
    /\ readAble > 1
    /\ popPc' = "take"
    /\ UNCHANGED <<ringVars, pushVars, popAt, popMsg>>

\* CHK_RET(readAbleCount_ == 0, RETCODE_QUEUE_EMPTY)
PopCheck ==
    /\ popPc = "idle"
    /\ readAble # 0
    /\ popPc' = "take"
    /\ UNCHANGED <<ringVars, pushVars, popAt, popMsg>>

PopTake ==
    /\ popPc = "take"
    /\ readAble' = (readAble - 1) % SizeMod
    /\ popPc' = "locate"
    /\ UNCHANGED <<pushPos, popPos, writeAble, filled, node, pushVars, popAt, popMsg>>

\* size_t popPos = popPos_ % totalNum_; an empty slot there gives the task
\* back (++readAbleCount_) and returns RETCODE_QUEUE_NODE_INVALID
PopLocate ==
    /\ popPc = "locate"
    /\ popAt' = popPos % TotalNum
    /\ IF popAt' \in filled
         THEN popPc' = "advance" /\ UNCHANGED readAble
         ELSE popPc' = "idle" /\ readAble' = (readAble + 1) % SizeMod
    /\ UNCHANGED <<pushPos, popPos, writeAble, filled, node, pushVars, popMsg>>

PopAdvance ==
    /\ popPc = "advance"
    /\ popPos' = (popPos + 1) % SizeMod
    /\ popPc' = "load"
    /\ UNCHANGED <<pushPos, writeAble, readAble, filled, node, pushVars, popAt, popMsg>>

\* mutant: the slot is computed again after popPos_ was advanced
PopLoadRecomputed ==
    /\ popPc = "load"
    /\ popMsg' = node[popPos % TotalNum]
    /\ popPc' = "clear"
    /\ UNCHANGED <<ringVars, pushVars, popAt>>

PopLoad ==
    /\ popPc = "load"
    /\ popMsg' = node[popAt]
    /\ popPc' = "clear"
    /\ UNCHANGED <<ringVars, pushVars, popAt>>

PopClear ==
    /\ popPc = "clear"
    /\ filled' = filled \ {popAt}
    /\ popPc' = "release"
    /\ UNCHANGED <<pushPos, popPos, writeAble, readAble, node, pushVars, popAt, popMsg>>

\* mutant: the slot is not given back
PopReleaseForgotten ==
    /\ popPc = "release"
    /\ popPc' = "idle"
    /\ UNCHANGED <<ringVars, pushVars, popAt, popMsg>>

PopRelease ==
    /\ popPc = "release"
    /\ writeAble' = (writeAble + 1) % SizeMod
    /\ popPc' = "idle"
    /\ UNCHANGED <<pushPos, popPos, readAble, filled, node, pushVars, popAt, popMsg>>

PopFront ==
    \/ PopCheck \/ PopTake \/ PopLocate \/ PopAdvance
    \/ PopLoad \/ PopClear \/ PopRelease

-------------------------------------------------------------------------------
(* Reset runs in QueuePool::Push, after the engine has stopped and joined  *)
(* its worker, on the thread that pushes: nobody is inside the queue.      *)

Reset ==
    /\ pushPc = "idle" /\ popPc = "idle"
    /\ pushPos' = 0 /\ popPos' = 0
    /\ writeAble' = TotalNum /\ readAble' = 0
    /\ filled' = {}
    /\ UNCHANGED <<node, pushVars, popVars>>

QueueNext == PushBack \/ PopFront \/ Reset

QueueSpec == QueueInit /\ [][QueueNext]_queueVars

\* The worker polls the queue as long as its engine runs, and a push that has
\* begun runs to its end; nobody is obliged to push or to reset.
QueueFairness ==
    /\ WF_queueVars(PopFront)
    /\ WF_queueVars(PushReserve \/ PushClaim \/ PushStore \/ PushMark \/ PushPublish)

FairSpec == QueueSpec /\ QueueFairness
-------------------------------------------------------------------------------
(* Properties *)

\* Types and widths.  Not by construction: writeAbleCount_ and readAbleCount_
\* are unsigned, and a decrement below zero would leave 0 .. TotalNum.
QueueTypeOK ==
    /\ pushPos \in Size_t /\ popPos \in Size_t
    /\ writeAble \in 0 .. TotalNum /\ readAble \in 0 .. TotalNum
    /\ filled \subseteq Slots
    /\ node \in [Slots -> Msg \cup {NullTask}]
    /\ pushPc \in PushPc /\ pushAt \in Slots /\ pushMsg \in Msg \cup {NullTask}
    /\ popPc \in PopPc /\ popAt \in Slots /\ popMsg \in Msg \cup {NullTask}

\* The slot k places after slot i.
Wrap(i, k) == IF i + k < TotalNum THEN i + k ELSE i + k - TotalNum

\* The slot of the oldest task that has not been handed out yet, and how many
\* such tasks are published.
FrontSlot == IF popPc = "load" THEN popAt ELSE popPos % TotalNum
Occupied == readAble + (IF popPc \in {"locate", "advance", "load"} THEN 1 ELSE 0)

PushHolds == IF pushPc \in {"claim", "store", "mark", "publish"} THEN 1 ELSE 0
PopHolds  == IF popPc \in {"clear", "release"} THEN 1 ELSE 0

\* No slot is lost or created: what PushBack may still reserve, what is
\* published and what the two threads hold in the middle of a call always
\* add up to the size of the ring.
CapacityConserved == writeAble + Occupied + PushHolds + PopHolds = TotalNum

\* PushBack never writes a slot that holds a task not yet handed out, nor the
\* slot PopFront is reading or clearing: the plain (non-atomic) accesses to
\* node and empty never race.
SlotsNotShared ==
    pushPc \in {"store", "mark"} =>
        /\ pushAt \notin filled
        /\ popPc \in {"advance", "load", "clear"} => popAt # pushAt

\* PopFront never takes its error exit: readAbleCount_ is raised only after
\* the slot is marked, so a popper that saw a readable task finds it there and
\* RETCODE_QUEUE_NODE_INVALID is never returned.
NeverNodeInvalid == popPc = "locate" => (popPos % TotalNum) \in filled

\* How many places slot s is after slot i.
Dist(i, s) == IF s >= i THEN s - i ELSE s - i + TotalNum

\* Where the two threads are in the ring, between their steps.
PushPlace ==
    IF pushPc \in {"store", "mark", "publish"}
      THEN /\ pushAt = Wrap(FrontSlot, Occupied)
           /\ pushPos % TotalNum = Wrap(pushAt, 1)
      ELSE pushPos % TotalNum = Wrap(FrontSlot, Occupied)

PopPlace ==
    /\ popPc = "advance" => popAt = popPos % TotalNum
    /\ popPc \in {"load", "clear"} => popPos % TotalNum = Wrap(popAt, 1)

\* A slot is marked filled exactly when it holds a published task, or the
\* pusher is about to publish it, or the popper is about to clear it.
FilledExact ==
    \A s \in Slots :
        s \in filled <=> \/ Dist(FrontSlot, s) < Occupied
                         \/ pushPc = "publish" /\ s = pushAt
                         \/ popPc = "clear" /\ s = popAt

Promise ==
    /\ pushPc # "idle" => pushMsg \in Msg
    /\ pushPc = "reserve" => writeAble > 0
    /\ popPc = "take" => readAble > 0
    /\ pushPc \in {"mark", "publish"} => node[pushAt] = pushMsg

\* The inductive invariant: it also says where the published tasks lie, which
\* is what makes the other properties hold in every step.
RingInv ==
    /\ QueueTypeOK /\ CapacityConserved /\ PushPlace /\ PopPlace /\ FilledExact /\ Promise

\* The published tasks in order, as the abstract channel sees them.
Contents == [i \in 1 .. Occupied |-> node[Wrap(FrontSlot, i - 1)]]

F == INSTANCE Fifo WITH Capacity <- TotalNum, queue <- Contents, delivered <- popMsg

\* The ring buffer implements the bounded FIFO channel: what PopFront hands
\* out is what PushBack accepted, each task once, in order, also when size_t
\* wraps around.
ImplementsFifo == F!Spec

\* A task that is in the queue keeps being handed out while the worker polls.
ImplementsLiveFifo == F!LiveSpec
===============================================================================
