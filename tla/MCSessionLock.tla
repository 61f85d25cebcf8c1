--------------------------- MODULE MCSessionLock ----------------------------
(* Small instances of SessionLock. *)
EXTENDS SessionLock
=============================================================================
