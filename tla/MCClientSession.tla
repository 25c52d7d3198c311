---------------------------- MODULE MCClientSession ----------------------------
(* ClientSession with two application threads and a session limit they exceed. *)
EXTENDS ClientSession
===============================================================================
