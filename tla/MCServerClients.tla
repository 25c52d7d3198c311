--------------------------- MODULE MCServerClients -----------------------------
(* ServerClients with two processes and ids that wrap after three clients. *)
EXTENDS ServerClients
===============================================================================
