------------------------------- MODULE MCRwLock --------------------------------
(* RwLock with enough threads for a writer and a reader to wait while another *)
(* thread holds the lock and a fourth comes in between.                       *)
EXTENDS RwLock
===============================================================================
