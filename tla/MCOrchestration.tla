--------------------------- MODULE MCOrchestration ---------------------------
(* The requests of a session, and the conclusion of an investigation.  The two     *)
(* share no variable, so that any order of their steps has what each of them does   *)
(* by itself: a behaviour is of the one or of the other.                            *)
EXTENDS Conversation, Investigation

CONSTANTS a, b

\* The second agent has no MCP tools.
Agents == <<a, b>>
MessageTokens == [user |-> 1, assistant |-> 2]

\* Evidence of every layer, on two fault domains, at three times: pairs that derive from
\* one another by subtype, by link and by trace, a chain of them, a contradiction, and
\* evidence as the agents' answers are parsed.
Plain == [signal |-> "a", layer |-> Unset, domain |-> Unset, subtype |-> Unset, stamp |-> 0,
          trace |-> Unset, id |-> Unset, from |-> Unset, unexplained |-> FALSE]

Pieces ==
  {Plain,
   [Plain EXCEPT !.signal = "b"],
   [Plain EXCEPT !.signal = "c", !.layer = "change", !.stamp = 2, !.id = "c1"],
   [Plain EXCEPT !.layer = "change", !.domain = "x", !.stamp = 1],
   [Plain EXCEPT !.layer = "mechanism", !.domain = "x", !.subtype = "memory_growth", !.stamp = 2],
   [Plain EXCEPT !.signal = "b", !.layer = "mechanism", !.subtype = "OOMKill", !.trace = "t"],
   [Plain EXCEPT !.layer = "mechanism", !.domain = "y", !.from = "c1"],
   [Plain EXCEPT !.layer = "impact", !.domain = "x", !.subtype = "pod_restart", !.stamp = 3],
   [Plain EXCEPT !.signal = "b", !.layer = "impact", !.trace = "t", !.stamp = 1],
   [Plain EXCEPT !.layer = "temporal", !.domain = "x"],
   [Plain EXCEPT !.signal = "c", !.layer = "elimination", !.unexplained = TRUE]}

\* What _parse_evidence makes of the answers of three agents.
Parsed == {[Plain EXCEPT !.signal = agent] : agent \in {"a", "b", "c"}}

BothInit == Init /\ RcaInit

BothNext ==
  \/ RcaInit /\ Next /\ UNCHANGED rcaVars
  \/ (\A r \in Request : pc[r] = "new" /\ ask[r] = "symptom") /\ RcaNext /\ UNCHANGED vars

BothSpec == BothInit /\ [][BothNext]_<<vars, rcaVars>> /\ RequestFairness
=============================================================================
