--------------------------- MODULE MCAgenticLoop ----------------------------
(* A streaming loop, with turns of up to two and one tool uses in turn, beside *)
(* a loop of one tool use: the long one shows the conversation, both of them   *)
(* the breaker they share.                                                     *)
EXTENDS AgenticLoop

Uses(l, t) == IF l \in Streaming THEN 2 - (t % 2) ELSE IF t = 0 THEN 1 ELSE 0
=============================================================================
