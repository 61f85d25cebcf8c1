---------------------------- MODULE AgenticLoop -----------------------------
(***************************************************************************)
(* The bounded tool-calling loop: run_agentic_loop of                      *)
(* core/agentic_loop.py, its streaming twin in agentic_loop_streaming.py,  *)
(* and trim_message_history of core/truncation.py.  The loops of several   *)
(* requests run on one event loop and share one breaker per MCP server.    *)
(*                                                                         *)
(* A message is its role and the tool-use ids it carries; a toolResult     *)
(* message also knows how often its text was replaced by a summary.        *)
(***************************************************************************)
EXTENDS CircuitBreaker, Sequences, FiniteSets

CONSTANTS Loop,           \* running loops
          Streaming,      \* those of run_agentic_loop_streaming
          Server,         \* MCP servers
          MaxToolSteps,   \* MAX_TOOL_STEPS
          MaxLoopTokens,  \* MAX_LOOP_TOKENS
          KeepLast,       \* CONTEXT_KEEP_LAST_N, at least 1
          MaxUses(_, _),  \* bound: the tool uses of each turn of each loop
          MaxTurnTokens   \* bound: tokens of one turn

ASSUME LoopAssumption ==
  /\ Streaming \subseteq Loop
  /\ {MaxToolSteps, MaxLoopTokens, MaxTurnTokens} \subseteq Nat
  /\ KeepLast \in Nat \ {0}
  /\ \A l \in Loop, t \in 0..MaxToolSteps : MaxUses(l, t) \in Nat

VARIABLES
  pc,        \* where the loop is suspended, or how it ended
  routed,    \* servers whose tools are in the router
  step,      \* turns with tools so far
  tokens,    \* total_tokens_used
  messages,  \* the Converse messages
  uses,      \* servers the toolUse blocks of the present turn ask for
  results,   \* ids of the toolResults collected for it
  breaker,   \* _server_breakers
  streak     \* ghost: calls to the server that failed in a row, up to Threshold

turnVars == <<messages, uses, results>>
serverVars == <<breaker, streak>>
vars == <<pc, routed, step, tokens, turnVars, serverVars>>

Ended == {"answered", "degraded", "failed", "crashed", "abandoned"}

\* Every tool use has an id of its own, Bedrock's toolUseId: its turn and place.
Id == Nat \X Nat

Message == [role : {"user", "assistant"}, ids : Seq(Id), trims : 0..2]

TypeOK ==
  /\ pc \in [Loop -> Ended \cup {"listing", "top", "asking", "tools", "calling"}]
  /\ routed \in [Loop -> SUBSET Server]
  /\ step \in [Loop -> 0..MaxToolSteps]
  /\ tokens \in [Loop -> Nat]
  /\ messages \in [Loop -> Seq(Message)]
  /\ uses \in [Loop -> Seq(Server)]
  /\ results \in [Loop -> Seq(Id)]
  /\ breaker \in [Server -> Breaker]
  /\ streak \in [Server -> 0..Threshold]

\* The user's question is the first message.
Question == [role |-> "user", ids |-> <<>>, trims |-> 0]

Init ==
  /\ pc = [l \in Loop |-> "listing"]
  /\ routed = [l \in Loop |-> {}]
  /\ step = [l \in Loop |-> 0]
  /\ tokens = [l \in Loop |-> 0]
  /\ messages = [l \in Loop |-> <<Question>>]
  /\ uses = [l \in Loop |-> <<>>]
  /\ results = [l \in Loop |-> <<>>]
  /\ breaker = [s \in Server |-> NewBreaker]
  /\ streak = [s \in Server |-> 0]

Goto(l, p) == pc' = [pc EXCEPT ![l] = p]

-----------------------------------------------------------------------------
(* trim_message_history *)

IsResults(m) == m.role = "user" /\ m.ids # <<>>

\* Mutated: the turn that was just answered is trimmed like the others.
EligibleToTheEnd(ms) == {i \in 2..Len(ms) : IsResults(ms[i])}

\* The toolResult messages between the question and the last two messages.
Eligible(ms) == {i \in 2..(Len(ms) - 2) : IsResults(ms[i])}

\* All but the last KeepLast of them.
ToTrim(ms) ==
  {i \in Eligible(ms) : Cardinality({k \in Eligible(ms) : k > i}) >= KeepLast}

\* The text of a trimmed message is replaced by a summary of what it was, and by
\* a summary of the summary the next time.
Summarised(m) == [m EXCEPT !.trims = IF @ < 2 THEN @ + 1 ELSE @]

Trim(ms) ==
  [i \in DOMAIN ms |-> IF i \in ToTrim(ms) THEN Summarised(ms[i]) ELSE ms[i]]

-----------------------------------------------------------------------------
(* One turn *)

\* list_tool_specs of every adapter; a server that fails contributes no tools.
ListTools(l) ==
  /\ pc[l] = "listing"
  /\ \E r \in SUBSET Server : routed' = [routed EXCEPT ![l] = r]
  /\ Goto(l, "top")
  /\ UNCHANGED <<step, tokens, turnVars, serverVars>>

\* Mutated: one turn too many.
WithinBudgetInclusive(l) == step[l] <= MaxToolSteps /\ tokens[l] < MaxLoopTokens

\* The budgets that are counted, read before each converse().
WithinBudget(l) == step[l] < MaxToolSteps /\ tokens[l] < MaxLoopTokens

Ask(l) ==
  /\ pc[l] = "top"
  /\ WithinBudget(l)
  /\ messages' = [messages EXCEPT ![l] = Trim(@)]
  /\ Goto(l, "asking")
  /\ UNCHANGED <<routed, step, tokens, uses, results, serverVars>>

\* A budget has run out: one that is counted or, at any reading of the clock,
\* MAX_LOOP_DURATION_MS, and the first reading that finds it so is the last.
\* The degraded answer reads content_blocks, which run_agentic_loop assigns
\* after its first converse() only; the streaming twin assigns it before.
Exhaust(l) ==
  /\ pc[l] = "top"
  /\ Goto(l, IF l \in Streaming \/ Len(messages[l]) > 1 THEN "degraded" ELSE "crashed")
  /\ UNCHANGED <<routed, step, tokens, turnVars, serverVars>>

UseIds(l, n) == [k \in 1..n |-> <<step[l], k>>]

\* converse() returns: a final answer, or a turn with tool uses.
ModelAnswers(l) ==
  /\ pc[l] = "asking"
  /\ \E t \in 0..MaxTurnTokens : tokens' = [tokens EXCEPT ![l] = @ + t]
  /\ \/ Goto(l, "answered") /\ UNCHANGED turnVars
     \/ \E n \in 1..MaxUses(l, step[l]) : \E u \in [1..n -> Server] :
          /\ messages' = [messages EXCEPT ![l] =
                Append(@, [role |-> "assistant", ids |-> UseIds(l, n), trims |-> 0])]
          /\ uses' = [uses EXCEPT ![l] = u]
          /\ results' = [results EXCEPT ![l] = <<>>]
          /\ Goto(l, "tools")
  /\ UNCHANGED <<routed, step, serverVars>>

\* converse() raises (guardrail, open breaker, Bedrock): the request fails.
ModelRaises(l) ==
  /\ pc[l] = "asking"
  /\ Goto(l, "failed")
  /\ UNCHANGED <<routed, step, tokens, turnVars, serverVars>>

-----------------------------------------------------------------------------
(* The tool uses of a turn, one after another *)

NextUse(l) == Len(results[l]) + 1
UsesLeft(l) == NextUse(l) <= Len(uses[l])
Target(l) == uses[l][NextUse(l)]

\* A toolResult with the use's id; the next use follows.
AddResult(l) ==
  /\ results' = [results EXCEPT ![l] =
       Append(@, messages[l][Len(messages[l])].ids[NextUse(l)])]
  /\ Goto(l, "tools")

\* Mutated: a refused use is dropped and gets no result.
AnswerInlineSilently(l) ==
  /\ pc[l] = "tools" /\ UsesLeft(l)
  /\ uses' = [uses EXCEPT ![l] = SubSeq(@, 1, Len(@) - 1)]
  /\ UNCHANGED <<pc, routed, step, tokens, messages, results, serverVars>>

\* The guardrail refuses the arguments, no adapter has the tool, the capability
\* gate denies it, or the server's breaker is open: an error text is the result.
AnswerInline(l) ==
  /\ pc[l] = "tools" /\ UsesLeft(l)
  /\ AddResult(l)
  /\ UNCHANGED <<routed, step, tokens, messages, uses, serverVars>>

SendCall(l) ==
  /\ pc[l] = "tools" /\ UsesLeft(l)
  /\ Target(l) \in routed[l]
  /\ CanExecute(breaker[Target(l)])
  /\ breaker' = [breaker EXCEPT ![Target(l)] = AfterCanExecute(@)]
  /\ Goto(l, "calling")
  /\ UNCHANGED <<routed, step, tokens, turnVars, streak>>

FailedOnce(s) == streak' = [streak EXCEPT ![s] = IF @ < Threshold THEN @ + 1 ELSE @]

\* adapter.call_tool returns: what the tool said, or the text of the transport
\* error it caught.  The pool's own "except Exception", which records a failure, is
\* never reached: McpAdapter.call_tool raises nothing but PermissionError.
CallReturns(l) ==
  /\ pc[l] = "calling"
  /\ breaker' = [breaker EXCEPT ![Target(l)] = AfterSuccess(@)]
  /\ \/ streak' = [streak EXCEPT ![Target(l)] = 0]
     \/ FailedOnce(Target(l))
  /\ AddResult(l)
  /\ UNCHANGED <<routed, step, tokens, messages, uses>>

\* Mutated: the streaming twin awaits the tool without wait_for.
CallTimesOutUnlessStreaming(l) ==
  /\ pc[l] = "calling" /\ l \notin Streaming
  /\ breaker' = [breaker EXCEPT ![Target(l)] = AfterFailure(@)]
  /\ FailedOnce(Target(l))
  /\ AddResult(l)
  /\ UNCHANGED <<routed, step, tokens, messages, uses>>

\* wait_for gives up after 5 s.
CallTimesOut(l) ==
  /\ pc[l] = "calling"
  /\ breaker' = [breaker EXCEPT ![Target(l)] = AfterFailure(@)]
  /\ FailedOnce(Target(l))
  /\ AddResult(l)
  /\ UNCHANGED <<routed, step, tokens, messages, uses>>

\* Mutated: PermissionError falls into the handler of transport errors.
CallDeniedAsFailure(l) ==
  /\ pc[l] = "calling"
  /\ breaker' = [breaker EXCEPT ![Target(l)] = AfterFailure(@)]
  /\ AddResult(l)
  /\ UNCHANGED <<routed, step, tokens, messages, uses, streak>>

\* PermissionError: the tool is not in the allowlist.
CallDenied(l) ==
  /\ pc[l] = "calling"
  /\ AddResult(l)
  /\ UNCHANGED <<routed, step, tokens, messages, uses, serverVars>>

\* The toolResults of the turn become one user message.
FinishTurn(l) ==
  /\ pc[l] = "tools" /\ ~UsesLeft(l)
  /\ messages' = [messages EXCEPT ![l] =
        Append(@, [role |-> "user", ids |-> results[l], trims |-> 0])]
  /\ step' = [step EXCEPT ![l] = @ + 1]
  /\ Goto(l, "top")
  /\ UNCHANGED <<routed, tokens, uses, results, serverVars>>

-----------------------------------------------------------------------------
\* The client of a streaming request goes away: CancelledError at an await, or
\* GeneratorExit at a yield.  The breaker learns nothing.
Abandon(l) ==
  /\ l \in Streaming
  /\ pc[l] \in {"listing", "asking", "tools", "calling"}
  /\ Goto(l, "abandoned")
  /\ UNCHANGED <<routed, step, tokens, turnVars, serverVars>>

\* A breaker's recovery timeout passes.
Cool(s) ==
  /\ ~breaker[s].cooled
  /\ breaker' = [breaker EXCEPT ![s] = AfterCooling(@)]
  /\ UNCHANGED <<pc, routed, step, tokens, turnVars, streak>>

Turn(l) ==
  \/ ListTools(l) \/ Ask(l) \/ Exhaust(l) \/ ModelAnswers(l) \/ ModelRaises(l)
  \/ AnswerInline(l) \/ SendCall(l) \/ FinishTurn(l)

Call(l) == CallReturns(l) \/ CallTimesOut(l) \/ CallDenied(l)

Next ==
  \/ \E l \in Loop : Turn(l) \/ Call(l) \/ Abandon(l)
  \/ \E s \in Server : Cool(s)

Spec == Init /\ [][Next]_vars

\* Listing and converse() have timeouts of their own, and the event loop runs
\* what is ready.  An MCP server need not answer: the timer of wait_for fires.
FairSpec == Spec /\ \A l \in Loop : WF_vars(Turn(l)) /\ WF_vars(CallTimesOut(l))
-----------------------------------------------------------------------------
(* Properties *)

\* A conversation as Converse accepts it: the question, then assistant turns
\* whose tool uses are all answered, in order, by the user message after them.
Paired(ms) ==
  /\ Len(ms) % 2 = 1
  /\ ms[1] = Question
  /\ \A k \in 1..(Len(ms) \div 2) :
       /\ ms[2 * k].role = "assistant" /\ ms[2 * k].ids # <<>>
       /\ ms[2 * k + 1].role = "user" /\ ms[2 * k + 1].ids = ms[2 * k].ids

\* Whatever is blocked, unknown, timed out or trimmed, the model is only asked
\* with such a conversation, and the caller only gets one
\* (agentic_loop.py:415-519, "correct toolUseId correlation").
ContextPaired ==
  \A l \in Loop : pc[l] \in {"asking", "answered", "degraded"} => Paired(messages[l])

\* Trimming in place, turn by turn, keeps a window: asked, the model sees the last
\* KeepLast + 1 tool turns verbatim and none before them (truncation.py:242-263).
VerbatimWindow ==
  \A l \in Loop : pc[l] = "asking" =>
    LET ms == messages[l]
    IN  \A k \in 1..(Len(ms) \div 2) :
          ms[2 * k + 1].trims = 0 <=> k + KeepLast >= Len(ms) \div 2

\* The budgets are read before a turn and spent in it: a loop overspends by one
\* turn's tokens, never by more, and asks the model at most MaxToolSteps times.
BudgetOverspend ==
  \A l \in Loop :
    /\ MaxLoopTokens > 0 => tokens[l] <= MaxLoopTokens - 1 + MaxTurnTokens
    /\ Len(messages[l]) <= 2 * MaxToolSteps + 1

\* A server is cut off only after Threshold failures in a row, counted over all
\* the loops that use it: refusals, denials and abandoned calls do not count.
OpenHasCause == \A s \in Server : breaker[s].state # "closed" => streak[s] = Threshold

\* Every loop ends: neither a silent server, nor a model that always wants one
\* more tool, keeps it going.
LoopEnds == \A l \in Loop : pc[l] = "listing" ~> pc[l] \in Ended
=============================================================================
