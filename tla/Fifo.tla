--------------------------------- MODULE Fifo ---------------------------------
(***************************************************************************)
(* What Queue<TYPE> promises its two users, the thread that pushes tasks   *)
(* and the engine worker that pops them: a bounded first-in first-out      *)
(* channel.  A push that is refused and a pop that finds nothing are       *)
(* stuttering steps here.                                                  *)
(***************************************************************************)
EXTENDS Naturals, Sequences

CONSTANTS
    Msg,        \* the tasks that are pushed
    Capacity    \* the bound of the channel

VARIABLES
    queue,      \* the tasks that are in the channel, oldest first
    delivered   \* the task the last successful pop handed out

vars == <<queue, delivered>>

Init ==
    /\ queue = << >>
    /\ delivered \notin Msg

Enqueue(m) ==
    /\ Len(queue) < Capacity
    /\ queue' = Append(queue, m)
    /\ UNCHANGED delivered

Dequeue ==
    /\ queue # << >>
    /\ delivered' = Head(queue)
    /\ queue' = Tail(queue)

Discard ==
    /\ queue' = << >>
    /\ UNCHANGED delivered

Next == (\E m \in Msg : Enqueue(m)) \/ Dequeue \/ Discard

Spec == Init /\ [][Next]_vars

LiveSpec == Spec /\ WF_vars(Dequeue)
===============================================================================
