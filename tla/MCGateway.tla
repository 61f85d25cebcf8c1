------------------------------ MODULE MCGateway ------------------------------
(* Model-checking instances of Gateway; liveness is checked, so no symmetry.  *)
EXTENDS Gateway
=============================================================================
