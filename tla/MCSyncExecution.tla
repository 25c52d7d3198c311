-------------------------- MODULE MCSyncExecution --------------------------
(* Instance of SyncExecution for TLC; the values are in the configuration. *)
EXTENDS SyncExecution
=============================================================================
