---------------------------- MODULE MCWorkerPool ----------------------------
(* Model-checking instances of WorkerPool; liveness is checked, so no         *)
(* symmetry.                                                                  *)
EXTENDS WorkerPool
=============================================================================
