-------------------------------- MODULE MCQueue --------------------------------
(* Queue with a ring of three slots and counters that wrap after six: every  *)
(* position of the ring and every wrap-around of size_t is reached.          *)
EXTENDS Queue
===============================================================================
