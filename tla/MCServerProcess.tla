--------------------------- MODULE MCServerProcess ---------------------------
(* Model values for ServerProcess. *)
EXTENDS ServerProcess
=============================================================================
