---------------------------- MODULE MCUpdateLog -----------------------------
(* Clients read the log and change nothing in it: one of them is enough. *)
EXTENDS UpdateLog

OneClient == {"client"}
=============================================================================
