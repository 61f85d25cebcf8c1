------------------------------ MODULE Specialist ------------------------------
(***************************************************************************)
(* A request inside one specialist agent, core/generic_agent.py, over the  *)
(* adapters of Datasources: the input scanner, the context, the tool loop  *)
(* or the single call of an agent without tools, the canary, the output    *)
(* filter and the quality guard, and the answer as a completion or as the  *)
(* frames of supervisor/openai_compat.py.  Budgets, trimming and breakers  *)
(* of the loop are AgenticLoop's; here it asks for tools at most MaxSteps  *)
(* times.  All requests belong to one session.                             *)
(***************************************************************************)
EXTENDS Datasources

CONSTANTS
  Streamed,    \* the slots whose requests have stream: true
  TraceOff,    \* AIGENT_TRACE_STYLE=off
  MaxSteps,    \* bound: tools a loop asks for
  Threshold,   \* canary_escalation_threshold
  MaxRestarts  \* bound: restarts of replicas

ASSUME SpecialistAssumption ==
  /\ Streamed \subseteq Request /\ IsFiniteSet(Replica) /\ TraceOff \in BOOLEAN
  /\ {MaxSteps, Threshold, MaxRestarts} \subseteq Nat

VARIABLES
  tools,     \* has_agentic_tools() of the agent
  stage,     \* where a request is, or how it ended
  turn,      \* whose turn it is in its loop
  steps,     \* tools its loop has asked for
  frames,    \* what the client of a stream has been sent
  leaks,     \* _detection_counts of the session, in each replica
  restarts,
  redacted   \* ghost: answers given with a canary redacted

own == <<tools, stage, turn, steps, frames, leaks, restarts, redacted>>
allVars == <<vars, own>>

\* "ended" stands for an answer, a refusal, an error and a broken connection; a stream
\* that came to its end is "done", one that raised is "broken".
Over == {"ended", "done", "broken"}
Stage == {"working", "looping"} \cup Over
Turn == {"model", "thought", "tool"}
Frame == {"role", "open", "step", "call", "result", "close", "text", "finish", "done"}

SpecialistTypeOK ==
  /\ TypeOK
  /\ tools \in BOOLEAN
  /\ stage \in [Request -> Stage]
  /\ turn \in [Request -> Turn]
  /\ steps \in [Request -> 0..MaxSteps]
  /\ frames \in [Request -> Seq(Frame)]
  /\ leaks \in [Replica -> Nat]
  /\ restarts \in 0..MaxRestarts
  /\ redacted \in Nat

SpecialistInit ==
  /\ Init
  /\ tools \in BOOLEAN
  /\ stage = [q \in Request |-> "ended"]
  /\ turn = [q \in Request |-> "model"]
  /\ steps = [q \in Request |-> 0]
  /\ frames = [q \in Request |-> <<>>]
  /\ leaks = [r \in Replica |-> 0]
  /\ restarts = 0
  /\ redacted = 0

To(q, s) == stage' = [stage EXCEPT ![q] = s]
Rest(qs) ==
  /\ turn' = [q \in Request |-> IF q \in qs THEN "model" ELSE turn[q]]
  /\ steps' = [q \in Request |-> IF q \in qs THEN 0 ELSE steps[q]]
Hangup(qs) == frames' = [q \in Request |-> IF q \in qs THEN <<>> ELSE frames[q]]
session == <<tools, leaks, restarts, redacted>>

-----------------------------------------------------------------------------
(* sse_stream_agentic: the frames of an event, after the frames f *)

Sent(f, e) == \E i \in 1..Len(f) : f[i] = e

Traced(f, e) ==
  IF TraceOff THEN f
  ELSE f \o (IF Sent(f, "open") THEN <<>> ELSE <<"open">>) \o <<e>>

\* An encoder that closes the block only in front of an answer text.
ConcludedAfterText(f, text) ==
  f \o (IF text /\ Sent(f, "open") THEN <<"close">> ELSE <<>>)
    \o (IF text THEN <<"text">> ELSE <<>>)
    \o <<"finish", "done">>

\* The final answer, which may be empty, and StepDone.
Concluded(f, text) ==
  f \o (IF Sent(f, "open") THEN <<"close">> ELSE <<>>)
    \o (IF text THEN <<"text">> ELSE <<>>)
    \o <<"finish", "done">>

Emit(q, f) == frames' = [frames EXCEPT ![q] = IF q \in Streamed THEN f ELSE @]

-----------------------------------------------------------------------------
(* The screening of a complete answer, without an await *)

\* What an answer may hold: a canary, a secret, scaffolding of the tools, and a resource
\* id that no tool has returned.
Answer == [canary : BOOLEAN, secret : BOOLEAN, scaffold : BOOLEAN, invented : BOOLEAN]

\* OutputFilter.scan raises.
Filtered(a) == a.secret

\* ResponseQualityGuard.scan raises; without evidence it does not look at ids.
Defective(a, evidence) == a.scaffold \/ (evidence /\ a.invented)

Blocked(q, a) == Filtered(a) \/ Defective(a, steps[q] > 0)

AtMost(n, bound) == IF n < bound THEN n ELSE bound

\* A guard that counts only the answers it lets pass.
ScreenedCountingAnswers(q) ==
  \E a \in Answer :
    LET n == leaks[home[q]] + (IF a.canary /\ ~Blocked(q, a) THEN 1 ELSE 0)
        given == ~Blocked(q, a) /\ ~(a.canary /\ leaks[home[q]] > Threshold)
    IN  /\ leaks' = [leaks EXCEPT ![home[q]] = AtMost(n, Threshold)]
        /\ redacted' = redacted + (IF a.canary /\ given THEN 1 ELSE 0)
        /\ To(q, IF given /\ q \in Streamed THEN "done" ELSE "ended")

\* CanaryGuard.detect redacts and counts, then the two scans look at what is left.  The
\* count saturates at Threshold: from there on every detection is a refusal.
Screened(q) ==
  \E a \in Answer :
    LET n == leaks[home[q]] + (IF a.canary THEN 1 ELSE 0)
        given == ~Blocked(q, a) /\ ~(a.canary /\ n > Threshold)
    IN  /\ leaks' = [leaks EXCEPT ![home[q]] = AtMost(n, Threshold)]
        /\ redacted' = redacted + (IF a.canary /\ given THEN 1 ELSE 0)
        /\ To(q, IF given /\ q \in Streamed THEN "done" ELSE "ended")

\* bedrock raises, or its own guardrail refuses the answer.
Raised(q) ==
  /\ To(q, "ended")
  /\ UNCHANGED <<leaks, redacted>>

-----------------------------------------------------------------------------
(* The steps of a request *)

\* InputScanner.scan raises, on an error of its own too, or the request goes on.
Scanned(q) == \E s \in {"working", "ended"} : To(q, s)

\* A request comes in; a refused one asks no adapter and no model.
Receive(q) ==
  /\ stage[q] \in Over /\ pc[q] = "idle"
  /\ Scanned(q)
  /\ Hangup({q})
  /\ UNCHANGED <<vars, turn, steps, session>>

Gather(q) == stage[q] = "working" /\ Collect(q) /\ UNCHANGED own

\* sse_stream: a complete answer, which may be empty, as frames.
AtOnce(text) == <<"role">> \o (IF text THEN <<"text">> ELSE <<>>) \o <<"finish", "done">>

\* Without tools: one call of the model; a stream gets the answer in one piece.
SingleCall(q) ==
  /\ stage[q] = "working" /\ pc[q] = "ready" /\ ~tools
  /\ Screened(q) \/ Raised(q)
  /\ \E text \in BOOLEAN : Emit(q, IF stage'[q] = "done" THEN AtOnce(text) ELSE <<>>)
  /\ Finish(q)
  /\ UNCHANGED <<tools, turn, steps, restarts>>

\* With tools: the loop, whose first event is the route if the supervisor chose it.
StartLoop(q) ==
  /\ stage[q] = "working" /\ pc[q] = "ready" /\ tools
  /\ To(q, "looping")
  /\ \E f \in {<<"role">>, Traced(<<"role">>, "step")} : Emit(q, f)
  /\ UNCHANGED <<vars, turn, steps, session>>

ListTools(q) == stage[q] = "looping" /\ List(q) /\ UNCHANGED own

InTurn(q, ts) == stage[q] = "looping" /\ pc[q] = "running" /\ turn[q] \in ts

\* Reasoning, or the text that comes with a tool use.
Think(q) ==
  /\ q \in Streamed /\ InTurn(q, {"model"})
  /\ turn' = [turn EXCEPT ![q] = "thought"]
  /\ Emit(q, Traced(frames[q], "step"))
  /\ UNCHANGED <<vars, stage, steps, session>>

AskTool(q) ==
  /\ InTurn(q, {"model", "thought"})
  /\ offer[q] # Empty /\ steps[q] < MaxSteps
  /\ turn' = [turn EXCEPT ![q] = "tool"]
  /\ steps' = [steps EXCEPT ![q] = @ + 1]
  /\ Emit(q, Traced(frames[q], "call"))
  /\ UNCHANGED <<vars, stage, session>>

\* Blocked arguments, an unknown or refused name, a timeout, an error and an answer
\* each give a result.
ToolReturns(q) ==
  /\ InTurn(q, {"tool"})
  /\ turn' = [turn EXCEPT ![q] = "model"]
  /\ Emit(q, Traced(frames[q], "result"))
  /\ UNCHANGED <<vars, stage, steps, session>>

\* The model answers, or a budget is exhausted.
Conclude(q) ==
  /\ InTurn(q, {"model", "thought"})
  /\ \/ q \notin Streamed /\ Screened(q) /\ UNCHANGED frames
     \/ /\ q \in Streamed
        /\ \E text \in BOOLEAN : Emit(q, Concluded(frames[q], text))
        /\ To(q, "done")
        /\ UNCHANGED <<leaks, redacted>>
  /\ Finish(q) /\ Rest({q})
  /\ UNCHANGED <<tools, restarts>>

\* converse() raises: a stream just ends, with the block open if it was.
Break(q) ==
  /\ InTurn(q, {"model"})
  /\ IF q \in Streamed THEN To(q, "broken") /\ UNCHANGED <<leaks, redacted>> ELSE Raised(q)
  /\ Finish(q) /\ Rest({q})
  /\ UNCHANGED <<tools, frames, restarts>>

\* A cancellation that leaves what the loop held.
LeaveHolding(q) ==
  /\ q \in Streamed /\ stage[q] = "looping"
  /\ To(q, "ended")
  /\ Goto(q, "idle")
  /\ Rest({q}) /\ Hangup({q})
  /\ UNCHANGED <<now, home, exposed, row, catalogue, asked, loop, session>>

\* The client of a stream goes away; the task is cancelled wherever it awaits.
Leave(q) ==
  /\ q \in Streamed /\ stage[q] = "looping"
  /\ To(q, "ended")
  /\ Finish(q) /\ Rest({q}) /\ Hangup({q})
  /\ UNCHANGED session

Crash(r) ==
  /\ restarts < MaxRestarts
  /\ restarts' = restarts + 1
  /\ Restart(r)
  /\ stage' = [q \in Request |-> IF home[q] = r THEN "ended" ELSE stage[q]]
  /\ Rest({q \in Request : home[q] = r}) /\ Hangup({q \in Request : home[q] = r})
  /\ leaks' = [leaks EXCEPT ![r] = 0]
  /\ UNCHANGED <<tools, redacted>>

Step(q) == \/ Gather(q) \/ SingleCall(q) \/ StartLoop(q) \/ ListTools(q) \/ Think(q)
           \/ AskTool(q) \/ ToolReturns(q) \/ Conclude(q) \/ Break(q)

SpecialistNext ==
  \/ Environment /\ UNCHANGED own
  \/ \E r \in Replica : Crash(r)
  \/ \E q \in Request : Receive(q) \/ Step(q) \/ Leave(q)

SpecialistSpec == SpecialistInit /\ [][SpecialistNext]_allVars

\* The request waits for the cache or a source, or for the listing of a server.
AtSource(q) ==
  \/ stage[q] = "working" /\ pc[q] \in {"idle", "collecting", "collected"}
  \/ stage[q] = "looping" /\ pc[q] \in {"connecting", "closing"}

\* The event loop resumes whoever is ready; a call to the model has the timeouts of
\* its client, a tool call those of the loop.  The waits at a source have none: the
\* Redis client of cache.py has no socket timeout, the Kubernetes calls no request
\* timeout, and list_tool_specs none of its own.  Nobody need ask anything, and no
\* server need be up.
FairSpecialistSpec ==
  SpecialistSpec /\ \A q \in Request : WF_allVars(~AtSource(q) /\ Step(q))

-----------------------------------------------------------------------------
(* The pipeline, its cancellations and restarts included, does to the adapters'     *)
(* caches only what Datasources allows.                                             *)
DatasourcesRefined == Spec

(* A session gets at most Threshold answers with a canary redacted out of each life *)
(* of a replica, however its requests overlap and whatever else refuses an answer:  *)
(* canary.py counts detections in the process.                                      *)
ProbesBounded == redacted <= Threshold * (Cardinality(Replica) + restarts)

At(f, e) == {i \in 1..Len(f) : f[i] = e}

\* The role comes first, the trace is one block, closed in front of the answer, and every
\* call is followed by its result.
WellFormed(f) ==
  /\ f # <<>> => At(f, "role") = {1}
  /\ \A e \in {"open", "close", "text", "finish", "done"} : Cardinality(At(f, e)) <= 1
  /\ \A i \in At(f, "step") \cup At(f, "call") \cup At(f, "result") :
       \E o \in At(f, "open") : o < i /\ \A c \in At(f, "close") : i < c
  /\ \A i \in At(f, "text") \cup At(f, "finish"), o \in At(f, "open") :
       \E c \in At(f, "close") : o < c /\ c < i
  /\ \A i \in At(f, "call") : i < Len(f) => f[i + 1] = "result"
  /\ \A i \in At(f, "result") : f[i - 1] = "call"

(* What the client has read is well formed at any moment; the finish and [DONE]     *)
(* come last, and the stream lacks them only if it broke off or has not ended.      *)
StreamWellFormed ==
  \A q \in Request : LET f == frames[q] IN
    /\ WellFormed(f)
    /\ stage[q] = "done" => At(f, "done") = {Len(f)} /\ At(f, "finish") = {Len(f) - 1}
    /\ stage[q] # "done" => At(f, "finish") = {}

(* Every request that was taken up ends: no event of its loop, and no outcome of a  *)
(* collection, a listing or a tool, leaves it without a next step, whether the      *)
(* server is up or not.  Only a source that never answers holds a request, and by a *)
(* synchronous client perhaps the others of its replica.                            *)
AnswerEnds ==
  \/ \A q \in Request : stage[q] \in {"working", "looping"} ~> stage[q] \in Over
  \/ \E q \in Request : <>[]AtSource(q)
=============================================================================
