-------------------------------- MODULE RwLock ---------------------------------
(***************************************************************************)
(* RwLock, the reader-writer lock that EngineManager and SaAsyncHandler    *)
(* put around their tables (ReadGuard, WriteGuard).  Two counters and a    *)
(* flag under a mutex, and a condition variable for each kind of waiter.   *)
(*                                                                         *)
(* A step is what a thread does in one go under the mutex.  A thread that  *)
(* waits is asleep on its condition until a notification wakes it, or, as  *)
(* the standard allows, without one; awake, it has to get the mutex and to *)
(* test its predicate again, and others may come before it.                *)
(***************************************************************************)
EXTENDS Integers, FiniteSets

CONSTANTS
    Users,          \* the threads that take guards
    MaxGuards       \* bound: how many guards a thread takes

ASSUME LockAssumption == IsFiniteSet(Users) /\ MaxGuards \in Nat

VARIABLES
    readCnt,    \* readCnt_
    writeCnt,   \* writeCnt_: the writers that hold the lock or wait for it
    writeFlag,  \* writeFlag_
    state,      \* where each thread is
    guards      \* how many guards each thread has taken

lockVars == <<readCnt, writeCnt, writeFlag, state, guards>>

\* "sleepRead" and "sleepWrite": in condRead_.wait and condWrite_.wait;
\* "wakeRead" and "wakeWrite": woken there, the predicate not tested yet.
States == {"out", "sleepRead", "wakeRead", "reading", "sleepWrite", "wakeWrite", "writing"}

LockInit ==
    /\ readCnt = 0 /\ writeCnt = 0 /\ writeFlag = FALSE
    /\ state = [t \in Users |-> "out"]
    /\ guards = [t \in Users |-> 0]

In(s) == {t \in Users : state[t] = s}

\* A thread goes on to s, and those of sleepers wake up in state w.
Move(t, s, sleepers, w) ==
    state' = [u \in Users |-> IF u = t THEN s ELSE IF u \in sleepers THEN w ELSE state[u]]
Go(t, s) == Move(t, s, {}, "out")

NotifyAll(cond) == {In(cond)}
NotifyOne(cond) == IF In(cond) = {} THEN {{}} ELSE {{u} : u \in In(cond)}

TakeGuard(t) ==
    /\ state[t] = "out"
    /\ guards[t] < MaxGuards
    /\ guards' = [guards EXCEPT ![t] = @ + 1]

-------------------------------------------------------------------------------
(* The two predicates, and what follows when one holds or does not. *)

MayRead == writeCnt = 0
\* mutant: a writer does not wait for the readers
MayWriteReaders == ~writeFlag
MayWrite == readCnt = 0 /\ ~writeFlag

TestRead(t) ==
    /\ IF MayRead THEN readCnt' = readCnt + 1 /\ Go(t, "reading")
                  ELSE Go(t, "sleepRead") /\ UNCHANGED readCnt
    /\ UNCHANGED <<writeCnt, writeFlag>>

TestWrite(t) ==
    /\ IF MayWrite THEN writeFlag' = TRUE /\ Go(t, "writing")
                   ELSE Go(t, "sleepWrite") /\ UNCHANGED writeFlag
    /\ UNCHANGED readCnt

LockRead(t) == TakeGuard(t) /\ TestRead(t)

LockWrite(t) ==
    /\ TakeGuard(t)
    /\ writeCnt' = writeCnt + 1
    /\ TestWrite(t)

WakeRead(t) == state[t] = "wakeRead" /\ TestRead(t) /\ UNCHANGED guards

WakeWrite(t) ==
    /\ state[t] = "wakeWrite"
    /\ TestWrite(t)
    /\ UNCHANGED <<writeCnt, guards>>

\* A wait may return without a notification.
WakeSpurious(t) ==
    /\ \/ state[t] = "sleepRead" /\ Go(t, "wakeRead")
       \/ state[t] = "sleepWrite" /\ Go(t, "wakeWrite")
    /\ UNCHANGED <<readCnt, writeCnt, writeFlag, guards>>

-------------------------------------------------------------------------------
\* mutant: the last reader wakes no writer
UnLockReadSilent(t) ==
    /\ state[t] = "reading"
    /\ readCnt' = readCnt - 1
    /\ Go(t, "out")
    /\ UNCHANGED <<writeCnt, writeFlag, guards>>

UnLockRead(t) ==
    /\ state[t] = "reading"
    /\ readCnt' = readCnt - 1
    /\ \E woken \in IF readCnt' = 0 /\ writeCnt > 0 THEN NotifyOne("sleepWrite") ELSE {{}} :
        Move(t, "out", woken, "wakeWrite")
    /\ UNCHANGED <<writeCnt, writeFlag, guards>>

UnLockWrite(t) ==
    /\ state[t] = "writing"
    /\ writeCnt' = writeCnt - 1
    /\ IF writeCnt' = 0
         THEN \E woken \in NotifyAll("sleepRead") : Move(t, "out", woken, "wakeRead")
         ELSE \E woken \in NotifyOne("sleepWrite") : Move(t, "out", woken, "wakeWrite")
    /\ writeFlag' = FALSE
    /\ UNCHANGED <<readCnt, guards>>

-------------------------------------------------------------------------------
\* The destructors of ReadGuard and WriteGuard run on every way out.
Proceeds(t) == WakeRead(t) \/ WakeWrite(t) \/ UnLockRead(t) \/ UnLockWrite(t)

LockNext == \E t \in Users : LockRead(t) \/ LockWrite(t) \/ Proceeds(t) \/ WakeSpurious(t)

\* A thread that is awake or holds the lock goes on; nobody has to take a
\* guard, and nothing wakes a sleeper but a notification.
LockFairness == \A t \in Users : WF_lockVars(Proceeds(t))

LockSpec == LockInit /\ [][LockNext]_lockVars /\ LockFairness
-------------------------------------------------------------------------------
(* Properties *)

\* The type of the variables.
LockTypeOK ==
    /\ readCnt \in Nat /\ writeCnt \in Nat /\ writeFlag \in BOOLEAN
    /\ state \in [Users -> States]
    /\ guards \in [Users -> 0 .. MaxGuards]

Writers == In("sleepWrite") \cup In("wakeWrite") \cup In("writing")

\* A writer is alone, and the counters say who is there: readCnt_ the threads
\* that read, writeCnt_ those that write or want to, writeFlag_ whether one
\* writes.
LockExclusive ==
    /\ Cardinality(In("writing")) <= 1
    /\ In("writing") # {} => In("reading") = {}
    /\ readCnt = Cardinality(In("reading"))
    /\ writeCnt = Cardinality(Writers)
    /\ writeFlag = (In("writing") # {})

\* Every thread that asks for the lock gets it, as long as the others take it
\* a bounded number of times each: writers go before readers, so a reader may
\* be passed by writers for ever.
LocksGranted ==
    \A t \in Users : state[t] # "out" ~> state[t] \in {"reading", "writing", "out"}
===============================================================================
