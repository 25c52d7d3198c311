----------------------------- MODULE MCWorkerThread -----------------------------
(* WorkerThread with an engine, a ClientListenerHandler and three pthreads, so  *)
(* that a Thread whose pthread ended by itself is given out again.              *)
EXTENDS WorkerThread
===============================================================================
