------------------------------ MODULE Gateway ------------------------------
(***************************************************************************)
(* The request handlers of src/gateway/main.py on top of the worker pool:  *)
(* POST /query and the non-streaming POST /v1/chat/completions run their   *)
(* call to the supervisor in the pool; the streaming one calls the         *)
(* supervisor from the handler itself and falls back to a second call.     *)
(*                                                                         *)
(* A request is identified with the job it would submit.  Whether the      *)
(* admission guards let it pass is their business (rate_limiter.py).       *)
(***************************************************************************)
EXTENDS WorkerPool

CONSTANT Streaming   \* the requests with stream: true

ASSUME GatewayAssumption ==
  /\ Streaming \subseteq Job
  /\ MaxChunks = 1

VARIABLES
  stage,   \* where the request's handler is
  answer   \* the HTTP answer given

gwVars == <<stage, answer>>
allVars == <<vars, gwVars>>

Stage == {"new", "admission", "probing", "pooled", "opening", "proxying",
          "fallback", "answered"}
Answer == {"ok", "rate_limited", "budget_exhausted", "overloaded", "unavailable",
           "backend_error", "dropped"}

GwTypeOK ==
  /\ TypeOK
  /\ stage \in [Job -> Stage]
  /\ answer \in [Job -> Answer \cup {"none"}]

GwInit ==
  /\ Init
  /\ stage = [j \in Job |-> "new"]
  /\ answer = [j \in Job |-> "none"]

Goto(j, s) == stage' = [stage EXCEPT ![j] = s]
Reply(j, a) == Goto(j, "answered") /\ answer' = [answer EXCEPT ![j] = a]

-----------------------------------------------------------------------------
(* Preflight *)

Receive(j) ==
  /\ stage[j] = "new"
  /\ Goto(j, "admission")
  /\ UNCHANGED <<vars, answer>>

\* _check_admission returns; the capacity check follows without an await.
Admission(j) ==
  /\ stage[j] = "admission"
  /\ \/ \E a \in {"rate_limited", "budget_exhausted"} : Reply(j, a)
     \/ ~HasCapacity(home[j]) /\ Reply(j, "overloaded")
     \/ HasCapacity(home[j]) /\ Goto(j, "probing") /\ UNCHANGED answer
  /\ UNCHANGED vars

\* is_supervisor_ready: no answer within 2 s or not a 200.
ProbeFails(j) ==
  /\ stage[j] = "probing"
  /\ Reply(j, "unavailable")
  /\ UNCHANGED vars

\* A handler that trusts the capacity it saw before the probe.
ProbeOkTrusting(j) ==
  /\ stage[j] = "probing"
  /\ \/ /\ j \in Streaming
        /\ Goto(j, "opening")
        /\ UNCHANGED vars
     \/ /\ j \notin Streaming
        /\ Enter(j)
        /\ Goto(j, "pooled")
        /\ UNCHANGED <<home, item, chunks, outcome, signalled, flag, request, status>>
  /\ UNCHANGED answer

\* The probe succeeds.  A pooled request submits its job, which checks the
\* capacity again and starts the call; a streaming one starts its call here.
ProbeOk(j) ==
  /\ stage[j] = "probing"
  /\ \/ /\ j \in Streaming
        /\ Goto(j, "opening")
        /\ UNCHANGED <<vars, answer>>
     \/ /\ j \notin Streaming
        /\ Submit(j)
        /\ Goto(j, "pooled")
        /\ UNCHANGED answer
     \/ /\ j \notin Streaming
        /\ Reject(j)
        /\ Reply(j, "overloaded")

-----------------------------------------------------------------------------
(* The pooled path: _one_shot yields one chunk, then ends *)

\* The await of _one_shot's __anext__: the supervisor's answer, an error, or the
\* first-byte timeout; after the chunk the generator ends at once.
OneShotAwait(j) ==
  /\ IF chunks[j] = 0
     THEN AwaitStep(j) /\ item'[j] # "end"
     ELSE StreamAnswers(j) /\ item'[j] = "end"
  /\ UNCHANGED gwVars

\* Every other step of the pool.
PoolStep(j) ==
  /\ \/ Consume(j) \/ WriteStatus(j) \/ Finish(j) \/ ClearFlag(j)
     \/ CancelStep(j)
  /\ UNCHANGED gwVars

\* A handler that swallows the cancellation and answers nothing.
PooledAnswerNotCancelled(j) ==
  /\ stage[j] = "pooled"
  /\ pc[j] = "ended"
  /\ \/ outcome[j] = "completed" /\ Reply(j, "ok")
     \/ outcome[j] \in {"failed", "first_byte_timeout", "idle_timeout"}
        /\ Reply(j, "backend_error")
  /\ UNCHANGED vars

\* The generator is exhausted or raised.  SupervisorUnavailableError gives 503,
\* an HTTP status is passed on, everything else (both timeouts too) is a 500;
\* CancelledError is not an Exception and drops the request.
PooledAnswer(j) ==
  /\ stage[j] = "pooled"
  /\ pc[j] = "ended"
  /\ \/ outcome[j] = "completed" /\ Reply(j, "ok")
     \/ outcome[j] = "failed" /\ \E a \in {"unavailable", "backend_error"} : Reply(j, a)
     \/ outcome[j] \in {"first_byte_timeout", "idle_timeout"} /\ Reply(j, "backend_error")
     \/ outcome[j] = "cancelled" /\ Reply(j, "dropped")
  /\ UNCHANGED vars

-----------------------------------------------------------------------------
(* The streaming path *)

\* process_stream returns a response with a status below 400.
StreamOpens(j) ==
  /\ stage[j] = "opening"
  /\ Goto(j, "proxying")
  /\ UNCHANGED <<vars, answer>>

\* process_stream raises: a transport error, a timeout or a status from 400 on,
\* whatever it is.  The handler calls process().
StreamOpenFails(j) ==
  /\ stage[j] = "opening"
  /\ Goto(j, "fallback")
  /\ UNCHANGED <<vars, answer>>

\* The body of the supervisor's answer ends or breaks.
StreamEnds(j) ==
  /\ stage[j] = "proxying"
  /\ \E a \in {"ok", "dropped"} : Reply(j, a)
  /\ UNCHANGED vars

FallbackReturns(j) ==
  /\ stage[j] = "fallback"
  /\ \E a \in {"ok", "unavailable", "backend_error"} : Reply(j, a)
  /\ UNCHANGED vars

-----------------------------------------------------------------------------
Handler(j) ==
  \/ Receive(j) \/ Admission(j) \/ ProbeFails(j) \/ ProbeOk(j) \/ PooledAnswer(j)
  \/ StreamOpens(j) \/ StreamOpenFails(j) \/ StreamEnds(j) \/ FallbackReturns(j)

GwNext == \E j \in Job : Handler(j) \/ OneShotAwait(j) \/ PoolStep(j)

\* The event loop runs every scheduled task, and the calls to the supervisor have
\* timeouts (supervisor_client.py).  The Redis client has none, so the commands of
\* the admission and the pool's SET and DELETE may be answered never.  Clients
\* need not send or cancel anything.
GwFairness ==
  \A j \in Job :
    /\ WF_allVars(Handler(j) /\ stage[j] \notin {"new", "admission"})
    /\ WF_allVars(OneShotAwait(j))
    /\ WF_allVars((Consume(j) \/ Finish(j)) /\ UNCHANGED gwVars)

GwSpec == GwInit /\ [][GwNext]_allVars
FairGwSpec == GwSpec /\ GwFairness

-----------------------------------------------------------------------------
(* Properties *)

\* What the handlers do to the pool is what the pool allows: the check that ran
\* before the probe may be stale, the one in submit decides (main.py:180, 198).
PoolRefined == Spec

\* The request waits for an answer of Redis.
AtRedis(j) == stage[j] = "admission" \/ pc[j] \in {"status", "clearing"}

\* Every request that was received is answered: no handler waits forever on the
\* probe, the pool, a stream or the fallback, whatever the supervisor does and
\* whoever cancels.  Only a Redis that never answers can hold a request.
RequestAnswered ==
  \A j \in Job : stage[j] = "admission" ~> (stage[j] = "answered" \/ []AtRedis(j))
=============================================================================
