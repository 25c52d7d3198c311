---------------------------- MODULE MCEngineManager ----------------------------
(* EngineManager with more algorithms than the pool has queues, so that the  *)
(* pool runs out, one of them unknown to PluginLabel, and two transactions    *)
(* that share an engine or have one each.  The objects are interchangeable.           *)
EXTENDS EngineManager, TLC

Objects == Permutations(EngineIds) \cup Permutations(ThreadIds) \cup Permutations(QueueIds)
===============================================================================
