--------------------------- MODULE MCAsyncPipeline -----------------------------
(* AsyncPipeline with two sessions and a queue that overflows. *)
EXTENDS AsyncPipeline

CONSTANTS t1, t2, r1, r2, r3

\* r1 from one session, the others from a second
TwoSessions == [r \in Reqs |-> IF r = r1 THEN t1 ELSE t2]
===============================================================================
