--------------------------- MODULE MCRequestCleanup ---------------------------
(* Model values for RequestCleanup. *)
EXTENDS RequestCleanup
=============================================================================
