------------------------------ MODULE WorkerThread ------------------------------
(***************************************************************************)
(* Thread and ThreadPool: how a pthread and the task that starts and stops *)
(* it agree through running_ and status_, two volatile members without a   *)
(* lock, and how Thread objects go round between their owners.             *)
(*                                                                         *)
(* One task (the server's IPC task) makes all the calls, for owners that   *)
(* each keep a Thread and a worker: the engines, whose EngineWorker runs   *)
(* until it is stopped, and the ClientListenerHandlers, whose              *)
(* AsyncProcessWorker also ends by itself when a result cannot be sent.    *)
(* Every access of a pthread to shared state is a step of its own.  A      *)
(* worker object is named by the pthread it was made for.                  *)
(***************************************************************************)
EXTENDS Integers, Sequences, FiniteSets, SequencesExt

CONSTANTS
    Owners,         \* the engines and ClientListenerHandlers
    SelfEnding,     \* those whose OneAction may return false
    Threads,        \* Thread objects
    Pthreads,       \* bound: the pthreads that are created
    None,
    Faults          \* a subset of FaultKinds

FaultKinds == {"create",    \* pthread_create fails
               "init"}      \* the worker's Initialize returns false

ASSUME ThreadAssumption ==
    /\ SelfEnding \subseteq Owners
    /\ None \notin Owners \cup Threads \cup Pthreads
    /\ Faults \subseteq FaultKinds

VARIABLES
    running,    \* Thread::running_
    status,     \* Thread::status_
    handle,     \* Thread::thread_, the pthread it has created; None is 0
    busy, idle, \* busyThreads_ and idleThreads_
    owned,      \* the Thread and the worker each owner keeps
    workers,    \* the worker objects that exist
    at,         \* where each pthread is
    on, by,     \* the Thread each pthread executes, for which owner
    quit,       \* the pthreads that ended by themselves
    call,       \* the step of the call in progress
    arg, who,   \* and the Thread and the owner it is about
    late        \* ghost: a pthread wrote the status_ of a Thread given out again

threadVars == <<running, status, handle>>
poolVars   == <<busy, idle, owned, workers>>
ptVars     == <<at, on, by, quit, late>>
callVars   == <<call, arg, who>>
vars == <<running, status, handle, busy, idle, owned, workers, at, on, by, quit, late,
          call, arg, who>>

Nothing == [thread |-> None, worker |-> None]

Init ==
    /\ running = [t \in Threads |-> FALSE]
    /\ status = [t \in Threads |-> "STOPPED"]
    /\ handle = [t \in Threads |-> None]
    /\ busy = << >> /\ idle = << >>
    /\ owned = [o \in Owners |-> Nothing]
    /\ workers = {}
    /\ at = [p \in Pthreads |-> "none"]
    /\ on = [p \in Pthreads |-> None]
    /\ by = [p \in Pthreads |-> None]
    /\ quit = {}
    /\ call = "none" /\ arg = None /\ who = None
    /\ late = FALSE

Goto(step) == call' = step /\ UNCHANGED <<arg, who>>
Return == call' = "none" /\ arg' = None /\ who' = None

-------------------------------------------------------------------------------
(* Pop, a new worker, StartThread. *)

\* A new Thread, any that is not in the pool, or the first idle one
Pop(t) ==
    /\ IF idle = << >> THEN /\ Threads \ ToSet(busy) # {}
                            /\ t = CHOOSE u \in Threads \ ToSet(busy) : TRUE
                            /\ UNCHANGED idle
                       ELSE t = Head(idle) /\ idle' = Tail(idle)
    /\ busy' = Append(busy, t)

\* CreateOneThread makes one of the pthreads that do not exist yet.
CreateOneThread(p) ==
    /\ \E q \in Pthreads : at[q] = "none"
    /\ p = CHOOSE q \in Pthreads : at[q] = "none"

MayStart(o) == call = "none" /\ owned[o] = Nothing

\* StartThread up to CreateOneThread
Start(o) ==
    /\ MayStart(o)
    /\ \E t \in Threads, p \in Pthreads :
        /\ CreateOneThread(p)
        /\ Pop(t)
        /\ status[t] # "RUNNING"
        /\ status' = [status EXCEPT ![t] = "PREPARED"]
        /\ handle' = [handle EXCEPT ![t] = p]
        /\ owned' = [owned EXCEPT ![o] = [thread |-> t, worker |-> p]]
        /\ workers' = workers \cup {p}
        /\ at' = [at EXCEPT ![p] = "created"]
        /\ on' = [on EXCEPT ![p] = t]
        /\ by' = [by EXCEPT ![p] = o]
        /\ call' = "starting" /\ arg' = t /\ who' = o
    /\ UNCHANGED <<running, quit, late>>

\* StartThread refuses a Thread that runs, or pthread_create fails: the owner
\* pushes the Thread and deletes the worker.
StartFails(o) ==
    /\ MayStart(o)
    /\ \E t \in Threads :
        /\ Pop(t)
        /\ \/ status[t] = "RUNNING" /\ UNCHANGED status
           \/ /\ "create" \in Faults /\ status[t] # "RUNNING"
              /\ status' = [status EXCEPT ![t] = "STOPPED"]
        /\ call' = "push" /\ arg' = t /\ who' = None
    /\ UNCHANGED <<running, handle, owned, workers, ptVars>>

\* while (status_ == PREPARED)
Started ==
    /\ call = "starting"
    /\ status[arg] # "PREPARED"
    /\ Return
    /\ UNCHANGED <<threadVars, poolVars, ptVars>>

-------------------------------------------------------------------------------
(* StopThread, then Push, which stops the thread once more. *)

Stop(o) ==
    /\ call = "none" /\ owned[o] # Nothing
    /\ call' = "stop" /\ arg' = owned[o].thread /\ who' = o
    /\ UNCHANGED <<threadVars, poolVars, ptVars>>

IsActive(t) == status[t] = "RUNNING"

\* What follows a StopThread, and the labels of its loop and of WaitForEnd.
After(step) == IF step = "stop" THEN "push" ELSE "erase"
Waits(step) == IF step = "stop" THEN "stopWait" ELSE "pushWait"
Joins(step) == IF step = "stop" THEN "stopJoin" ELSE "pushJoin"

StopThread ==
    /\ call \in {"stop", "push"}
    /\ IF IsActive(arg)
         THEN running' = [running EXCEPT ![arg] = FALSE] /\ Goto(Waits(call))
         ELSE Goto(After(call)) /\ UNCHANGED running
    /\ UNCHANGED <<status, handle, poolVars, ptVars>>

\* mutant: the thread counts as ended when its status says so
StopWaitNoJoin(step) ==
    /\ call = Waits(step)
    /\ status[arg] # "RUNNING"
    /\ Goto(After(step))
    /\ UNCHANGED <<threadVars, poolVars, ptVars>>

\* while (status_ == RUNNING)
StopWait(step) ==
    /\ call = Waits(step)
    /\ status[arg] # "RUNNING"
    /\ Goto(Joins(step))
    /\ UNCHANGED <<threadVars, poolVars, ptVars>>

\* pthread_join returns
Joined(t) == handle[t] # None => at[handle[t]] = "done"

WaitForEnd(step) ==
    /\ call = Joins(step)
    /\ Joined(arg)
    /\ handle' = [handle EXCEPT ![arg] = None]
    /\ Goto(After(step))
    /\ UNCHANGED <<running, status, poolVars, ptVars>>

\* mutant: the Thread stays among the busy ones
EraseBusyNot(t) == IF t \in ToSet(busy) THEN busy ELSE << >>

\* The first busy Thread with the same thread id is taken out.
EraseBusy(t) ==
    LET i == SelectInSeq(busy, LAMBDA u : handle[u] = handle[t])
    IN  IF i = 0 THEN busy ELSE RemoveAt(busy, i)

\* The rest of Push; the owner deletes the worker.
Push ==
    /\ call = "erase"
    /\ busy' = EraseBusy(arg)
    /\ idle' = Append(idle, arg)
    /\ IF who = None
         THEN UNCHANGED <<owned, workers>>
         ELSE /\ workers' = workers \ {owned[who].worker}
              /\ owned' = [owned EXCEPT ![who] = Nothing]
    /\ Return
    /\ UNCHANGED <<threadVars, ptVars>>

-------------------------------------------------------------------------------
(* StopThreads, when the pool is deleted, which no part of the services does. *)

StopThreads ==
    /\ call = "none"
    /\ running' = [t \in Threads |-> running[t] /\ t \notin ToSet(busy)]
    /\ call' = "stopAll"
    /\ UNCHANGED <<status, handle, poolVars, ptVars, arg, who>>

\* Every busy thread has stopped and is joined, or the time is over.
StopThreadsEnds ==
    /\ call = "stopAll"
    /\ \/ /\ \A t \in ToSet(busy) : ~IsActive(t) /\ Joined(t)
          /\ handle' = [t \in Threads |-> IF t \in ToSet(busy) THEN None ELSE handle[t]]
          /\ idle' = idle \o busy /\ busy' = << >>
       \/ (\E t \in ToSet(busy) : IsActive(t)) /\ UNCHANGED <<handle, idle, busy>>
    /\ call' = "closed"
    /\ UNCHANGED <<running, status, owned, workers, ptVars, arg, who>>

-------------------------------------------------------------------------------
(* A pthread: Execute and Run. *)

PtGoto(p, from, to) == at[p] = from /\ at' = [at EXCEPT ![p] = to]

\* mutant: status_ is set before running_
ExecuteOrderSwapped == <<"status", "running">>

\* Execute: running_ = true, then status_ = RUNNING
ExecuteOrder == <<"running", "status">>

Sets(p, member) ==
    IF member = "running" THEN running' = [running EXCEPT ![on[p]] = TRUE] /\ UNCHANGED status
                          ELSE status' = [status EXCEPT ![on[p]] = "RUNNING"] /\ UNCHANGED running

Execute(p) ==
    /\ \/ PtGoto(p, "created", "armed") /\ Sets(p, ExecuteOrder[1])
       \/ PtGoto(p, "armed", "init") /\ Sets(p, ExecuteOrder[2])
    /\ UNCHANGED <<handle, poolVars, on, by, quit, late, callVars>>

\* Run: Initialize; without it there is no loop, and status_ is still RUNNING
Initialize(p) ==
    /\ \/ PtGoto(p, "init", "loop")
       \/ "init" \in Faults /\ PtGoto(p, "init", "uninit")
    /\ UNCHANGED <<threadVars, poolVars, on, by, quit, late, callVars>>

\* The loop ends when running_ is false after an action
LoopEnds(p) ==
    /\ PtGoto(p, "loop", "ended")
    /\ ~running[on[p]]
    /\ UNCHANGED <<threadVars, poolVars, on, by, quit, late, callVars>>

\* or when OneAction returns false.
Quits(p) ==
    /\ PtGoto(p, "loop", "ended")
    /\ running[on[p]] /\ by[p] \in SelfEnding
    /\ quit' = quit \cup {p}
    /\ UNCHANGED <<threadVars, poolVars, on, by, late, callVars>>

\* status_ = STOPPED, by Run before Uninitialize and by Execute after it
SetsStopped(p) ==
    /\ \/ PtGoto(p, "ended", "uninit")
       \/ PtGoto(p, "exit", "done")
    /\ status' = [status EXCEPT ![on[p]] = "STOPPED"]
    /\ late' = (late \/ handle[on[p]] # p)
    /\ UNCHANGED <<running, handle, poolVars, on, by, quit, callVars>>

Uninitialize(p) ==
    /\ PtGoto(p, "uninit", "exit")
    /\ UNCHANGED <<threadVars, poolVars, on, by, quit, late, callVars>>

Pthread(p) == Execute(p) \/ Initialize(p) \/ LoopEnds(p) \/ SetsStopped(p) \/ Uninitialize(p)

-------------------------------------------------------------------------------
Calls == \E o \in Owners : Start(o) \/ StartFails(o) \/ Stop(o)

CallGoesOn ==
    \/ Started \/ StopThread \/ Push \/ StopThreadsEnds
    \/ \E step \in {"stop", "push"} : StopWait(step) \/ WaitForEnd(step)

Next == Calls \/ StopThreads \/ CallGoesOn \/ \E p \in Pthreads : Pthread(p) \/ Quits(p)

\* The task and the pthreads run, and OneAction returns; no worker has to end
\* by itself and nobody has to call.
Fairness == WF_vars(CallGoesOn) /\ \A p \in Pthreads : WF_vars(Pthread(p))

Spec == Init /\ [][Next]_vars /\ Fairness
-------------------------------------------------------------------------------
(* Properties *)

\* A Thread is in the pool once, among the busy or the idle ones, and the
\* Thread of an owner is a busy one that no other owner has: Push finds the
\* entry to erase by the thread id, which is 0 for every thread joined.
PoolPartition ==
    /\ IsInjective(busy \o idle)
    /\ call # "closed" => \A o \in Owners :
          owned[o] # Nothing => /\ owned[o].thread \in ToSet(busy)
                                /\ \A u \in Owners \ {o} : owned[u].thread # owned[o].thread

\* A worker that has been deleted and a Thread that is idle are not used by a
\* pthread any more.  A pthread that ended by itself is not joined and may
\* still be on its way out; and when it writes the status_ of a Thread that has
\* been given out again (thread.cpp:224), nothing is certain any more.
StoppedIsOver == ~late =>
    \A p \in Pthreads :
        (at[p] # "none" /\ (p \notin workers \/ on[p] \in ToSet(idle))) =>
            at[p] = "done" \/ (p \in quit /\ at[p] \in {"uninit", "exit"})

\* StartThread and StopThread return: the two threads never wait for each
\* other, and no request to stop is overwritten by the start before it.
ThreadCallsReturn == call \notin {"none", "closed"} ~> (call \in {"none", "closed"} \/ late)

\* The inductive invariant behind the first two, in two parts.
TypeOK ==
    /\ running \in [Threads -> BOOLEAN]
    /\ status \in [Threads -> {"STOPPED", "PREPARED", "RUNNING"}]
    /\ handle \in [Threads -> Pthreads \cup {None}]
    /\ busy \in Seq(Threads) /\ idle \in Seq(Threads)
    /\ owned \in [Owners -> [thread : Threads, worker : Pthreads] \cup {Nothing}]
    /\ at \in [Pthreads -> {"none", "created", "armed", "init", "loop", "ended", "uninit", "exit", "done"}]
    /\ on \in [Pthreads -> Threads \cup {None}]
    /\ by \in [Pthreads -> Owners \cup {None}]
    /\ quit \subseteq Pthreads /\ late \in BOOLEAN
    /\ call \in {"none", "starting", "stop", "stopWait", "stopJoin",
                 "push", "pushWait", "pushJoin", "erase", "stopAll", "closed"}
    /\ arg \in Threads \cup {None} /\ who \in Owners \cup {None}

\* Whatever has happened: an owner keeps a Thread and a worker that nobody else
\* has, a thread id is that of one Thread, and the busy Threads are those of the
\* owners and one whose start has failed.
Has(o) == owned[o] # Nothing
OfOwner == call \in {"starting", "stop", "stopWait", "stopJoin"}
Pushing == call \in {"push", "pushWait", "pushJoin", "erase"}
OwnersApart ==
    /\ \A o \in Owners : Has(o) =>
          LET t == owned[o].thread
              p == owned[o].worker
          IN  at[p] # "none" /\ on[p] = t /\ by[p] = o
    /\ \A o, u \in Owners : (o # u /\ Has(o) /\ Has(u)) => owned[o].thread # owned[u].thread
    /\ workers = {owned[o].worker : o \in {u \in Owners : Has(u)}}
CallFits ==
    /\ call \in {"none", "stopAll", "closed"} => arg = None /\ who = None
    /\ OfOwner => who \in Owners
    /\ OfOwner \/ Pushing => arg \in Threads
    /\ who \in Owners => Has(who) /\ arg = owned[who].thread
    /\ who = None => \A o \in Owners : Has(o) => arg # owned[o].thread
HandlesApart ==
    /\ \A t \in Threads : handle[t] # None => at[handle[t]] # "none" /\ on[handle[t]] = t
    /\ \A o \in Owners : Has(o) =>
          \/ handle[owned[o].thread] = owned[o].worker
          \/ handle[owned[o].thread] = None /\ (call = "closed" \/ (who = o /\ Pushing))
BusyOwned ==
    call # "closed" =>
        ToSet(busy) = {owned[o].thread : o \in {u \in Owners : Has(u)}}
                      \cup (IF Pushing THEN {arg} ELSE {})
PoolInv == TypeOK /\ OwnersApart /\ CallFits /\ HandlesApart /\ BusyOwned /\ IsInjective(busy \o idle)

\* Until a pthread comes late: one that has not left serves the owner it was
\* made for; status_ says how far it is, and the loop goes on until it is told
\* to stop; and a Thread that no such pthread executes is STOPPED.
Left(p) == at[p] = "done" \/ (p \in quit /\ at[p] \in {"uninit", "exit"})
Told(o) == call \in {"stopAll", "closed"} \/ (who = o /\ call \in {"stopWait", "stopJoin"})
Follows(o) ==
    LET t == owned[o].thread
        p == owned[o].worker
    IN  /\ at[p] \in {"created", "armed"} =>
              status[t] = "PREPARED" /\ call = "starting" /\ who = o
        /\ at[p] \in {"init", "loop", "ended"} => status[t] = "RUNNING"
        /\ at[p] = "ended" => p \in quit \/ Told(o)
        /\ at[p] \in {"uninit", "exit"} =>
              status[t] = "RUNNING" \/ (status[t] = "STOPPED" /\ (p \in quit \/ Told(o)))
        /\ at[p] = "done" => status[t] = "STOPPED"
        /\ at[p] \in {"armed", "init", "loop"} => running[t] \/ Told(o)
        /\ p \in quit /\ at[p] \in {"uninit", "exit"} => status[t] = "STOPPED"
        /\ who = o /\ call = "stopJoin" => status[t] = "STOPPED"
        /\ who = o /\ Pushing => status[t] = "STOPPED" /\ Left(p)
QuitOver == \A p \in quit : at[p] \in {"ended", "uninit", "exit", "done"}
Serves(p) == by[p] \in Owners /\ owned[by[p]] = [thread |-> on[p], worker |-> p]
NoneStray == \A p \in Pthreads : at[p] = "none" \/ Left(p) \/ Serves(p)
FreeStopped ==
    \A t \in Threads : (\A o \in Owners : Has(o) => owned[o].thread # t) => status[t] = "STOPPED"
ClosedOver ==
    call = "closed" =>
        \A o \in Owners : Has(o) => owned[o].thread \in ToSet(busy) \/ at[owned[o].worker] = "done"
LeftInv ==
    /\ QuitOver /\ NoneStray /\ FreeStopped /\ ClosedOver
    /\ \A o \in Owners : Has(o) => Follows(o)
    /\ call \notin {"pushWait", "pushJoin"}
ThreadInv == PoolInv /\ (~late => LeftInv)
===============================================================================
