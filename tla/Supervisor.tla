------------------------------ MODULE Supervisor ------------------------------
(***************************************************************************)
(* The supervisor's orchestration: process_request and                     *)
(* process_request_streaming of supervisor/agent.py, with the fan-out, the *)
(* investigation of supervisor/investigation.py and the streaming endpoint *)
(* that falls back from the second to the first.  The requests are those   *)
(* of one session; nothing here keeps two of them apart, because the       *)
(* streaming endpoint takes no session lock.                               *)
(*                                                                         *)
(* What the session's history says reaches the program only inside         *)
(* prompts, so the reads of it are not modelled; an agent call is its      *)
(* outcome.                                                                *)
(***************************************************************************)
EXTENDS Sequences, Naturals, FiniteSets

CONSTANTS Request,         \* requests of one session
          Streams,         \* those that arrive at /internal/process/stream
          Roster,          \* the registry's agents, in order
          Agentic,         \* those with MCP tools
          MaxAgents,       \* SupervisorAgent.max_agents
          MaxInvestigators,\* RCA_MAX_AGENTS
          MaxMatches,      \* bound: agents the classifier names
          None

Agent == {Roster[i] : i \in DOMAIN Roster}

ASSUME SupervisorAssumption ==
  /\ Streams \subseteq Request
  /\ Roster \in Seq(Agent) /\ Roster # <<>> /\ Agentic \subseteq Agent
  /\ {None, "free", "symptom"} \cap Agent = {}
  /\ MaxAgents \in Nat \ {0} /\ MaxInvestigators \in Nat \ {0} /\ MaxMatches \in Nat

\* What a request asks: the agent it forces, an investigation (should_investigate),
\* or neither.
Ask == Agent \cup {"symptom", "free"}

VARIABLES
  ask,      \* what the request asks
  pc,       \* where the request is, "done" once it is answered
  handler,  \* the function that serves it: "stream" or "process"
  plan,     \* the agents it is routed to, the primary one first
  calls,    \* how each of their calls stands
  outcome,  \* what the caller gets, None until then
  history,  \* the session's saved messages, oldest first
  over,     \* the session is over its token budget
  counted,  \* additions to request_counter
  unsaved   \* ghost: requests one of whose messages DynamoDB did not take

requestVars == <<ask, pc, handler, plan, calls, outcome, counted>>
vars == <<requestVars, history, over, unsaved>>

Message == [agent : Agent, role : {"user", "assistant"}, req : Request]
CallState == {"running", "ok", "raised", "refused"}
Outcome == {"over_budget", "blocked", "unknown", "answered", "agent_error", "error", "rca",
            "streamed", "unread", "server_error"}

TypeOK ==
  /\ ask \in [Request -> Ask]
  /\ pc \in [Request -> {"new", "entry", "classify", "save", "opening", "opened", "streaming",
                         "calling", "investigating", "synthesize", "explain", "answer", "done"}]
  /\ handler \in [Request -> {"stream", "process"}]
  /\ plan \in [Request -> Seq(Agent)]
  /\ calls \in [Request -> Seq(CallState)]
  /\ outcome \in [Request -> Outcome \cup {None}]
  /\ history \in Seq(Message)
  /\ over \in BOOLEAN
  /\ counted \in [Request -> Nat]
  /\ unsaved \subseteq Request

Init ==
  /\ ask \in [Request -> Ask]
  /\ pc = [r \in Request |-> "new"]
  /\ handler = [r \in Request |-> IF r \in Streams THEN "stream" ELSE "process"]
  /\ plan = [r \in Request |-> <<>>]
  /\ calls = [r \in Request |-> <<>>]
  /\ outcome = [r \in Request |-> None]
  /\ history = <<>>
  /\ over = FALSE
  /\ counted = [r \in Request |-> 0]
  /\ unsaved = {}

-----------------------------------------------------------------------------
\* The ways on from a step of request r.

Goto(r, place) == pc' = [pc EXCEPT ![r] = place]

Answer(r, result) ==
  /\ Goto(r, "done")
  /\ outcome' = [outcome EXCEPT ![r] = result]

\* An exception other than a guardrail refusal: process_request turns it into
\* an answer, the streaming endpoint into a status 500.
Fail(r) == Answer(r, IF handler[r] = "stream" THEN "server_error" ELSE "error")

\* process_request_streaming returns None: the endpoint starts again with
\* process_request.
FallBack(r) ==
  /\ Goto(r, "entry")
  /\ handler' = [handler EXCEPT ![r] = "process"]
  /\ UNCHANGED <<plan, calls, outcome, counted>>

Route(r, agents) ==
  /\ Goto(r, "save")
  /\ plan' = [plan EXCEPT ![r] = agents]
  /\ UNCHANGED <<handler, calls, outcome, counted>>

Ends(r, result) ==
  /\ Answer(r, result)
  /\ UNCHANGED <<handler, plan, calls, counted>>

Count(r) == counted' = [counted EXCEPT ![r] = @ + 1]

\* A model call may take the session over its budget.
Spend == over' \in {over, TRUE}

Start(r, agents) == calls' = [calls EXCEPT ![r] = [i \in DOMAIN agents |-> "running"]]

\* Mutant: the answer is filed under the last agent instead of the primary one.
SaveUnderLast(r, role) ==
  /\ history' = Append(history, [agent |-> plan[r][IF role = "user" THEN 1 ELSE Len(plan[r])],
                                 role |-> role, req |-> r])
  /\ UNCHANGED unsaved

\* save_chat_message is fail-open: whether or not the item is put, the request goes on.
Save(r, role) ==
  \/ /\ history' = Append(history, [agent |-> plan[r][1], role |-> role, req |-> r])
     /\ UNCHANGED unsaved
  \/ /\ unsaved' = unsaved \cup {r}
     /\ UNCHANGED history

Prefix(s, n) == SubSeq(s, 1, IF Len(s) < n THEN Len(s) ELSE n)

\* What the classifier may name: any agents, one of them twice if the model says so.
Verdict == UNION {[1..n -> Agent] : n \in 0..MaxMatches}

-----------------------------------------------------------------------------
\* Both functions, up to the choice of a path: budget, input scanner and
\* ingress guardrail, then the forced agent, an investigation or the classifier.

Arrive(r) ==
  /\ pc[r] = "new"
  /\ Goto(r, "entry")
  /\ UNCHANGED <<handler, plan, calls, outcome, counted, history, over, unsaved>>

OverBudget(r) ==
  /\ pc[r] = "entry" /\ over
  /\ IF handler[r] = "stream" THEN FallBack(r) ELSE Ends(r, "over_budget")
  /\ UNCHANGED <<history, over, unsaved>>

\* The scanner or the ingress guardrail refuses, or cannot decide.
Refuse(r) ==
  /\ pc[r] = "entry" /\ ~over
  /\ Ends(r, "blocked")
  /\ UNCHANGED <<history, over, unsaved>>

Admit(r) ==
  /\ pc[r] = "entry" /\ ~over
  /\ \/ /\ ask[r] \in Agent
        /\ IF handler[r] = "stream" /\ ask[r] \notin Agentic
           THEN FallBack(r)
           ELSE Route(r, <<ask[r]>>)
     \/ /\ ask[r] = "symptom"
        /\ \/ handler[r] = "stream" /\ FallBack(r)
           \/ /\ handler[r] = "process"
              /\ Goto(r, "investigating")
              /\ Start(r, Prefix(Roster, MaxInvestigators))
              /\ UNCHANGED <<handler, plan, outcome, counted>>
     \/ /\ ask[r] = "free"
        /\ Goto(r, "classify")
        /\ UNCHANGED <<handler, plan, calls, outcome, counted>>
  /\ UNCHANGED <<history, over, unsaved>>

\* The model's verdict, or the keyword fallback's.
Classify(r) ==
  /\ pc[r] = "classify"
  /\ \E v \in Verdict :
       LET agents == Prefix(v, MaxAgents) IN
       \/ /\ v = <<>>
          /\ IF handler[r] = "stream" THEN FallBack(r) ELSE Ends(r, "unknown")
       \/ /\ v # <<>>
          /\ IF handler[r] = "stream" /\ ~(Len(agents) = 1 /\ agents[1] \in Agentic)
             THEN FallBack(r)
             ELSE Route(r, agents)
  /\ Spend
  /\ UNCHANGED <<history, unsaved>>

\* The classifier's call is refused by the guardrail, or its answer is JSON of
\* another shape than the parser expects.
ClassifyFails(r) ==
  /\ pc[r] = "classify"
  /\ Answer(r, "blocked") \/ Fail(r)
  /\ Spend
  /\ UNCHANGED <<handler, plan, calls, counted, history, unsaved>>

\* The question is saved under the primary agent; then the agents are called.
SaveQuestion(r) ==
  /\ pc[r] = "save"
  /\ Save(r, "user")
  /\ \/ /\ handler[r] = "stream"
        /\ Goto(r, "opening")
        /\ UNCHANGED calls
     \/ /\ handler[r] = "process"
        /\ Goto(r, "calling")
        /\ Start(r, plan[r])
  /\ UNCHANGED <<handler, plan, outcome, counted, over>>

-----------------------------------------------------------------------------
\* Agent calls of process_request: one, a fan-out, or an investigation's.

AgentEnds(r) ==
  /\ pc[r] \in {"calling", "investigating"}
  /\ \E i \in DOMAIN calls[r], how \in CallState \ {"running"} :
       /\ calls[r][i] = "running"
       /\ calls' = [calls EXCEPT ![r][i] = how]
  /\ Spend
  /\ UNCHANGED <<pc, handler, plan, outcome, counted, history, unsaved>>

AllEnded(r) == \A i \in DOMAIN calls[r] : calls[r][i] # "running"
Some(r, how) == \E i \in DOMAIN calls[r] : calls[r][i] = how

\* Mutant: gather without return_exceptions, the first refusal ends the request.
JoinRefusedAtOnce(r) ==
  /\ pc[r] \in {"calling", "investigating"} /\ Some(r, "refused")
  /\ Ends(r, "blocked")
  /\ UNCHANGED <<history, over, unsaved>>

\* A refusal of any agent refuses the request, whatever the others answered.
JoinRefused(r) ==
  /\ pc[r] \in {"calling", "investigating"} /\ AllEnded(r) /\ Some(r, "refused")
  /\ Ends(r, "blocked")
  /\ UNCHANGED <<history, over, unsaved>>

\* _single_agent_call: the answer is counted; an error is answered, uncounted.
JoinSingle(r) ==
  /\ pc[r] = "calling" /\ Len(plan[r]) = 1 /\ AllEnded(r) /\ ~Some(r, "refused")
  /\ \/ /\ Some(r, "raised")
        /\ Ends(r, "agent_error")
     \/ /\ Some(r, "ok")
        /\ Goto(r, "answer")
        /\ Count(r)
        /\ UNCHANGED <<handler, plan, calls, outcome>>
  /\ UNCHANGED <<history, over, unsaved>>

\* Mutant: a fan-out that waits for an answer.
JoinFanOutSomeOk(r) ==
  /\ pc[r] = "calling" /\ Len(plan[r]) > 1 /\ Some(r, "ok") /\ ~Some(r, "refused")
  /\ AllEnded(r)
  /\ Goto(r, "synthesize")
  /\ UNCHANGED <<handler, plan, calls, outcome, counted, history, over, unsaved>>

\* _fan_out: with no answer at all the synthesizer returns its fixed text.
JoinFanOut(r) ==
  /\ pc[r] = "calling" /\ Len(plan[r]) > 1 /\ AllEnded(r) /\ ~Some(r, "refused")
  /\ \/ /\ Some(r, "ok")
        /\ Goto(r, "synthesize")
        /\ UNCHANGED counted
     \/ /\ ~Some(r, "ok")
        /\ Goto(r, "answer")
        /\ Count(r)
  /\ UNCHANGED <<handler, plan, calls, outcome, history, over, unsaved>>

\* run_investigation synthesizes even from no evidence.
JoinInvestigation(r) ==
  /\ pc[r] = "investigating" /\ AllEnded(r) /\ ~Some(r, "refused")
  /\ Goto(r, "explain")
  /\ UNCHANGED <<handler, plan, calls, outcome, counted, history, over, unsaved>>

\* The synthesizing call of a fan-out or an investigation.
Synthesize(r) ==
  /\ pc[r] \in {"synthesize", "explain"}
  /\ IF pc[r] = "synthesize" THEN Goto(r, "answer") /\ UNCHANGED outcome ELSE Answer(r, "rca")
  /\ Count(r)
  /\ Spend
  /\ UNCHANGED <<handler, plan, calls, history, unsaved>>

SynthesisFails(r) ==
  /\ pc[r] \in {"synthesize", "explain"}
  /\ Answer(r, "blocked") \/ Fail(r)
  /\ Spend
  /\ UNCHANGED <<handler, plan, calls, counted, history, unsaved>>

SaveAnswer(r) ==
  /\ pc[r] = "answer"
  /\ Save(r, "assistant")
  /\ Ends(r, "answered")
  /\ UNCHANGED over

-----------------------------------------------------------------------------
\* The stream of process_request_streaming.

\* The agent scans its input and collects its context, then hands out the generator.
OpenStream(r) ==
  /\ pc[r] = "opening"
  /\ \/ /\ Goto(r, "opened")
        /\ UNCHANGED outcome
     \/ Answer(r, "blocked")
     \/ Fail(r)
  /\ UNCHANGED <<handler, plan, calls, counted, history, over, unsaved>>

\* The encoder sends the role prelude before it first asks the wrapper; a client
\* that is gone by then leaves a generator whose body, and finally, never ran.
StreamBegins(r) ==
  /\ pc[r] = "opened"
  /\ \/ /\ Goto(r, "streaming")
        /\ UNCHANGED outcome
     \/ Answer(r, "unread")
  /\ UNCHANGED <<handler, plan, calls, counted, history, over, unsaved>>

\* Mutant: the metrics are recorded after the loop, not in a finally.
StreamEndsUncounted(r) ==
  /\ pc[r] = "streaming"
  /\ Answer(r, "streamed")
  /\ Count(r) \/ UNCHANGED counted
  /\ Spend
  /\ UNCHANGED <<handler, plan, calls, history, unsaved>>

\* The loop ends, raises, or its client goes away: the wrapper's finally counts it.
StreamEnds(r) ==
  /\ pc[r] = "streaming"
  /\ Answer(r, "streamed")
  /\ Count(r)
  /\ Spend
  /\ UNCHANGED <<handler, plan, calls, history, unsaved>>

\* The key of the budget counter expires.
BudgetExpires ==
  /\ over
  /\ over' = FALSE
  /\ UNCHANGED <<requestVars, history, unsaved>>

RequestStep(r) ==
  /\ UNCHANGED ask
  /\ \/ Arrive(r) \/ OverBudget(r) \/ Refuse(r) \/ Admit(r) \/ Classify(r) \/ ClassifyFails(r)
     \/ SaveQuestion(r) \/ AgentEnds(r)
     \/ JoinRefused(r) \/ JoinSingle(r) \/ JoinFanOut(r) \/ JoinInvestigation(r)
     \/ Synthesize(r) \/ SynthesisFails(r) \/ SaveAnswer(r) \/ OpenStream(r) \/ StreamBegins(r) \/ StreamEnds(r)

Next == BudgetExpires \/ \E r \in Request : RequestStep(r)

Spec == Init /\ [][Next]_vars

\* The request waits for a call of an agent, or for the stream of one.
Waiting(r) ==
  \/ pc[r] \in {"opening", "streaming"}
  \/ pc[r] \in {"calling", "investigating"} /\ ~AllEnded(r)

\* The event loop runs what is ready, and the calls to Bedrock, DynamoDB and the
\* budget's Redis have timeouts.  An agent's call need not end: the Redis client of
\* cache.py has no socket timeout, nor have the Kubernetes calls of adapters.py.
RequestFairness == \A r \in Request : WF_vars(pc[r] # "new" /\ ~Waiting(r) /\ RequestStep(r))
FairSpec == Spec /\ RequestFairness

-----------------------------------------------------------------------------
Places(r, role) == {i \in DOMAIN history : history[i].req = r /\ history[i].role = role}

(***************************************************************************)
(* Whatever the requests of a session interleave, and although a stream    *)
(* may start over as a plain request, a question is saved at most once, an *)
(* answer at most once, and an answer stands after its question, under the *)
(* same agent, unless DynamoDB did not take the question.                  *)
(***************************************************************************)
HistoryPaired ==
  \A r \in Request :
    /\ Cardinality(Places(r, "user")) <= 1 /\ Cardinality(Places(r, "assistant")) <= 1
    /\ \A i \in Places(r, "assistant") :
         r \in unsaved \/ \E j \in Places(r, "user") : j < i /\ history[j].agent = history[i].agent

(***************************************************************************)
(* gather waits for every agent and any refusal among them wins: when a    *)
(* request is answered none of its agents runs on, and if one of them was  *)
(* refused by a guardrail the caller gets the refusal, and no answer is in *)
(* the history.                                                            *)
(***************************************************************************)
RefusalWins ==
  \A r \in Request :
    /\ pc[r] = "done" => AllEnded(r) /\ (Some(r, "refused") => outcome[r] = "blocked")
    /\ Some(r, "refused") => Places(r, "assistant") = {}

(***************************************************************************)
(* "Streaming requests are counted identically to non-streaming ones"      *)
(* (agent.py, FIX 1): an answer of an agent, of a fan-out or of an         *)
(* investigation, and a stream that began, however it ended, is counted    *)
(* exactly once; a refusal or an error is not, and nothing is counted      *)
(* twice although a stream may start over as a plain request.  Of a stream *)
(* whose client leaves before its first event nothing is required here.    *)
(***************************************************************************)
CountedOnce ==
  \A r \in Request :
    /\ counted[r] <= 1
    /\ pc[r] = "done" /\ outcome[r] # "unread" =>
         (counted[r] = 1 <=> outcome[r] \in {"answered", "rca", "streamed"})

\* Every request that was taken up is answered, or its stream ends: no path of
\* either function waits for an event that another outcome of its calls rules out.
\* An agent's call that never ends holds its request, and by a synchronous client
\* may hold all the others of its replica.
RequestsEnd ==
  \/ \A r \in Request : pc[r] = "entry" ~> pc[r] = "done"
  \/ \E q \in Request : <>[]Waiting(q)
=============================================================================
