----------------------------- MODULE Conversation -----------------------------
(***************************************************************************)
(* What the program reads back of a session's history: the two queries of  *)
(* core/state_store.py and the cut to a number of tokens of                *)
(* core/token_budget.py, over the history the requests of Supervisor       *)
(* write.  A message's sort key is its agent's name followed by the time   *)
(* it was put; agents are compared by their place in the Roster, which the *)
(* registry keeps in alphabetical order.  No agent's name is the beginning *)
(* of another's, so begins_with is equality.                               *)
(*                                                                         *)
(* A read changes nothing and every read is awaited before the next step   *)
(* of its request, so what a prompt shows is a function of the history.  A *)
(* failed query shows nothing and is left out.                             *)
(***************************************************************************)
EXTENDS Supervisor, SequencesExt

CONSTANTS AgentLimit,       \* messages fetch_chat reads
          SessionLimit,     \* messages fetch_all_chats reads
          Tokens,           \* the tokens of a message of either role
          AgentTokens,      \* history_max_tokens, for an agent's prompt
          ClassifierTokens  \* the classifier's window

ASSUME ConversationAssumption ==
  /\ AgentLimit \in Nat /\ SessionLimit \in Nat
  /\ Tokens \in [{"user", "assistant"} -> Nat \ {0}]
  /\ \A i, j \in DOMAIN Roster : Roster[i] = Roster[j] => i = j
  /\ AgentTokens \in Nat /\ ClassifierTokens \in Nat

\* Mutant: ScanIndexForward is left at its default, and the page starts at the front.
FirstPage(items, limit) == SubSeq(items, 1, IF Len(items) < limit THEN Len(items) ELSE limit)

\* A query backwards with a limit, reversed: the last items in key order.
LastPage(items, limit) ==
  SubSeq(items, IF Len(items) > limit THEN Len(items) - limit + 1 ELSE 1, Len(items))

\* The session's messages of the agent, in the order they were put.
Of(agent) ==
  LET kept[k \in 0..Len(history)] ==
        IF k = 0 THEN <<>>
        ELSE IF history[k].agent = agent THEN Append(kept[k - 1], history[k]) ELSE kept[k - 1]
  IN  kept[Len(history)]

FetchChat(agent) == LastPage(Of(agent), AgentLimit)

\* The whole partition in the order of its sort key: agent by agent.
FetchAllChats == LastPage(FlattenSeq([i \in DOMAIN Roster |-> Of(Roster[i])]), SessionLimit)

\* The tokens of the messages, accumulated from the last one back.
Cost(messages) ==
  LET total[k \in 0..Len(messages)] ==
        IF k = 0 THEN 0 ELSE total[k - 1] + Tokens[messages[Len(messages) + 1 - k].role]
  IN  total[Len(messages)]

\* Walk from the end and stop at the first message that does not fit.
TruncateByTokens(messages, window) ==
  LET fits == {i \in 1..Len(messages) + 1 : Cost(SubSeq(messages, i, Len(messages))) <= window}
  IN  SubSeq(messages, Min(fits), Len(messages))

\* What the prompt of a single agent and the classifier's show.  The agents of a
\* fan-out and of an investigation are shown no history.
AgentPrompt(agent) == TruncateByTokens(FetchChat(agent), AgentTokens)
ClassifierPrompt == TruncateByTokens(FetchAllChats, ClassifierTokens)

-----------------------------------------------------------------------------
At(m) == CHOOSE i \in DOMAIN history : history[i] = m
Own(agent) == {i \in DOMAIN history : history[i].agent = agent}
Hidden(agent, prompt) == {i \in Own(agent) : \A j \in DOMAIN prompt : prompt[j] # history[i]}

\* Of this agent the prompt shows the most recent messages, in the order they were saved.
ShowsRecent(prompt, agent) ==
  LET places == {i \in DOMAIN prompt : prompt[i].agent = agent}
  IN  /\ \A i, j \in places : i < j => At(prompt[i]) < At(prompt[j])
      /\ \A i \in Hidden(agent, prompt), j \in Own(agent) \ Hidden(agent, prompt) : i < j

(***************************************************************************)
(* "Keeps the most recent messages that fit (drops oldest first)"          *)
(* (token_budget.py): whatever the requests of a session saved in whatever *)
(* order, an agent is shown only messages of its own, in the order they    *)
(* were saved, none of them newer than one it is not shown, within both    *)
(* limits, and one more would break a limit.                               *)
(***************************************************************************)
AgentSeesRecent ==
  \A agent \in Agent :
    LET prompt == AgentPrompt(agent)
        hidden == Hidden(agent, prompt)
    IN  /\ \A i \in DOMAIN prompt : prompt[i].agent = agent
        /\ ShowsRecent(prompt, agent)
        /\ Len(prompt) <= AgentLimit /\ Cost(prompt) <= AgentTokens
        /\ \A i \in hidden : (\A j \in hidden : j <= i) =>
             Len(prompt) = AgentLimit \/ Cost(prompt) + Tokens[history[i].role] > AgentTokens

\* What the key order leaves to the classifier: the most recent of each agent.
ClassifierSeesEachRecent == \A agent \in Agent : ShowsRecent(ClassifierPrompt, agent)

\* "Conversation History (most recent last)" (classifier.py line 70): the
\* classifier's messages are in the order they were saved, and none it is not
\* shown is newer than one it is.
ClassifierSeesRecent ==
  LET prompt == ClassifierPrompt
      shown == {i \in DOMAIN history : \E j \in DOMAIN prompt : prompt[j] = history[i]}
  IN  /\ \A i, j \in DOMAIN prompt : i < j => At(prompt[i]) < At(prompt[j])
      /\ \A i \in DOMAIN history \ shown, j \in shown : i < j
=============================================================================
