----------------------------- MODULE MCBedrock ------------------------------
(* Small instances of BedrockClient: calls are interchangeable. *)
EXTENDS BedrockClient, TLC

Symmetry == Permutations(Call)
=============================================================================
