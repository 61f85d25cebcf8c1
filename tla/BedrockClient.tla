--------------------------- MODULE BedrockClient ----------------------------
(***************************************************************************)
(* BedrockClient.invoke and converse of src/core/bedrock.py: the breaker   *)
(* check, the semaphore, the worker thread with its retries, and what each *)
(* outcome does to the breaker.  The coroutine is on the event loop; the   *)
(* body (_invoke_sync, _converse_sync) is in a thread of the default       *)
(* executor, which a cancelled coroutine leaves behind.                    *)
(***************************************************************************)
EXTENDS CircuitBreaker, FiniteSets

CONSTANTS Call,        \* calls of invoke and converse
          Limit,       \* bedrock_max_concurrent
          Threads,     \* threads of the default executor
          MaxRetries   \* max_retries

ASSUME ClientAssumption ==
  /\ IsFiniteSet(Call)
  /\ Limit \in Nat \ {0}
  /\ Threads \in Nat \ {0}
  /\ MaxRetries \in Nat \ {0}

VARIABLES
  pc,         \* where the coroutine is
  ahead,      \* the waiters of the semaphore it queued behind
  free,       \* the semaphore's _value
  thread,     \* its item of the executor
  attempt,    \* index of the retry loop
  cached,     \* its request carries cache_control
  cacheOk,    \* _cache_supported is not False
  breaker     \* circuit_breaker

loopVars   == <<pc, ahead, free>>
threadVars == <<thread, attempt, cached, cacheOk>>
vars == <<loopVars, threadVars, breaker>>

\* How the body ends: an answer, a GuardrailBlockedError, any other exception.
Result == {"ok", "blocked", "error"}
Ended == Result \cup {"refused", "cancelled"}

\* A permit is held from the moment a waiter is woken.
Holding == {"granted", "calling"}
Holders == {c \in Call : pc[c] \in Holding}
Queued(p) == {c \in Call : p[c] = "queued"}
Running == {c \in Call : thread[c] = "running"}

TypeOK ==
  /\ pc \in [Call -> Ended \cup Holding \cup {"new", "queued"}]
  /\ ahead \in [Call -> SUBSET Call]
  /\ free \in 0..Limit
  /\ thread \in [Call -> Result \cup {"none", "submitted", "running"}]
  /\ attempt \in [Call -> 0..MaxRetries]
  /\ cached \in [Call -> BOOLEAN]
  /\ cacheOk \in BOOLEAN
  /\ breaker \in Breaker

Init ==
  /\ pc = [c \in Call |-> "new"]
  /\ ahead = [c \in Call |-> {}]
  /\ free = Limit
  /\ thread = [c \in Call |-> "none"]
  /\ attempt = [c \in Call |-> 0]
  /\ cached = [c \in Call |-> FALSE]
  /\ cacheOk = TRUE
  /\ breaker = NewBreaker

-----------------------------------------------------------------------------
(* The asyncio semaphore of Python 3.11 *)

\* A woken waiter that has not run yet still stands in _waiters.
Locked == free = 0 \/ \E c \in Call : pc[c] \in {"queued", "granted"}

\* _wake_up_next with p for pc and v for _value: the oldest waiter gets a permit.
WakeNext(p, v) ==
  \/ Queued(p) = {} /\ pc' = p /\ free' = v
  \/ \E c \in Queued(p) :
       /\ ahead[c] \cap Queued(p) = {}
       /\ pc' = [p EXCEPT ![c] = "granted"]
       /\ free' = v - 1

\* A release that wakes nobody.
ReleaseSilently(c, end) ==
  /\ pc' = [pc EXCEPT ![c] = end]
  /\ free' = free + 1
  /\ UNCHANGED ahead

\* release(), and the exit of acquire() when a woken waiter is cancelled.
Release(c, end) ==
  /\ WakeNext([pc EXCEPT ![c] = end], free + 1)
  /\ UNCHANGED ahead

-----------------------------------------------------------------------------
(* The coroutine *)

\* The breaker's answer is read before the semaphore is awaited.
Refuse(c) ==
  /\ pc[c] = "new"
  /\ ~CanExecute(breaker)
  /\ pc' = [pc EXCEPT ![c] = "refused"]
  /\ UNCHANGED <<ahead, free, threadVars, breaker>>

Enter(c) ==
  /\ pc[c] = "new"
  /\ CanExecute(breaker)
  /\ breaker' = AfterCanExecute(breaker)
  /\ IF Locked
       THEN /\ pc' = [pc EXCEPT ![c] = "queued"]
            /\ ahead' = [ahead EXCEPT ![c] = Queued(pc)]
            /\ UNCHANGED <<free, thread>>
       ELSE /\ pc' = [pc EXCEPT ![c] = "calling"]
            /\ free' = free - 1
            /\ thread' = [thread EXCEPT ![c] = "submitted"]
            /\ UNCHANGED ahead
  /\ UNCHANGED <<attempt, cached, cacheOk>>

\* A woken waiter that does not pass a spare permit on.
ResumeAlone(c) ==
  /\ pc[c] = "granted"
  /\ pc' = [pc EXCEPT ![c] = "calling"]
  /\ thread' = [thread EXCEPT ![c] = "submitted"]
  /\ UNCHANGED <<ahead, free, attempt, cached, cacheOk, breaker>>

\* A woken waiter runs; if permits are left it wakes the next one.
Resume(c) ==
  /\ pc[c] = "granted"
  /\ LET p == [pc EXCEPT ![c] = "calling"]
     IN  IF free > 0 THEN WakeNext(p, free) ELSE pc' = p /\ UNCHANGED free
  /\ thread' = [thread EXCEPT ![c] = "submitted"]
  /\ UNCHANGED <<ahead, attempt, cached, cacheOk, breaker>>

\* No try/finally around the thread: an exception keeps the permit.
ReturnNoFinally(c) ==
  /\ pc[c] = "calling"
  /\ thread[c] \in Result
  /\ \/ thread[c] = "ok" /\ breaker' = AfterSuccess(breaker)
     \/ thread[c] = "error" /\ breaker' = AfterFailure(breaker)
     \/ thread[c] = "blocked" /\ UNCHANGED breaker
  /\ IF thread[c] = "ok" THEN Release(c, "ok")
     ELSE pc' = [pc EXCEPT ![c] = thread[c]] /\ UNCHANGED <<ahead, free>>
  /\ UNCHANGED threadVars

\* The await of to_thread returns: record_success, record_failure, or neither
\* for a guardrail refusal; the permit is released in every case.
Return(c) ==
  /\ pc[c] = "calling"
  /\ thread[c] \in Result
  /\ \/ thread[c] = "ok" /\ breaker' = AfterSuccess(breaker)
     \/ thread[c] = "error" /\ breaker' = AfterFailure(breaker)
     \/ thread[c] = "blocked" /\ UNCHANGED breaker
  /\ Release(c, thread[c])
  /\ UNCHANGED threadVars

\* The client of the streaming endpoint goes away and the task is cancelled.
\* CancelledError is no Exception: the breaker is left alone.  An item the
\* executor has not started is withdrawn, one that runs is left running.
Cancel(c) ==
  /\ \/ /\ pc[c] = "queued"
        /\ pc' = [pc EXCEPT ![c] = "cancelled"]
        /\ UNCHANGED <<ahead, free>>
     \/ /\ pc[c] \in Holding
        /\ Release(c, "cancelled")
  /\ thread' = [thread EXCEPT ![c] = IF @ = "submitted" THEN "none" ELSE @]
  /\ UNCHANGED <<attempt, cached, cacheOk, breaker>>

-----------------------------------------------------------------------------
(* The body, in its thread *)

\* The executor starts the body: the request is built, with cache_control when
\* the caller of invoke wants it and no earlier call was told otherwise.  The
\* INPUT guardrail may refuse.
StartThread(c) ==
  /\ thread[c] = "submitted"
  /\ Cardinality(Running) < Threads
  /\ \/ \E k \in IF cacheOk THEN BOOLEAN ELSE {FALSE} :
          /\ cached' = [cached EXCEPT ![c] = k]
          /\ thread' = [thread EXCEPT ![c] = "running"]
     \/ /\ thread' = [thread EXCEPT ![c] = "blocked"]
        /\ UNCHANGED cached
  /\ UNCHANGED <<loopVars, attempt, cacheOk, breaker>>

\* The body returns or raises.
Over(c, r) == thread' = [thread EXCEPT ![c] = r]

\* An answer that the OUTPUT guardrail lets through or not; or an exception
\* that is not retried.
Answer(c) ==
  /\ thread[c] = "running"
  /\ \E r \in Result : Over(c, r)
  /\ UNCHANGED <<loopVars, attempt, cached, cacheOk, breaker>>

\* ThrottlingException and its kin: back off, or give up on the last attempt.
Throttle(c) ==
  /\ thread[c] = "running"
  /\ attempt[c] < MaxRetries
  /\ attempt' = [attempt EXCEPT ![c] = @ + 1]
  /\ IF attempt'[c] = MaxRetries THEN Over(c, "error") ELSE UNCHANGED thread
  /\ UNCHANGED <<loopVars, cached, cacheOk, breaker>>

\* ValidationException on cache_control: drop it for the process and
\* "continue", which takes the next index of the loop.
RejectCache(c) ==
  /\ thread[c] = "running"
  /\ cached[c]
  /\ attempt[c] < MaxRetries
  /\ cacheOk' = FALSE
  /\ cached' = [cached EXCEPT ![c] = FALSE]
  /\ attempt' = [attempt EXCEPT ![c] = @ + 1]
  /\ IF attempt'[c] = MaxRetries THEN Over(c, "error") ELSE UNCHANGED thread
  /\ UNCHANGED <<loopVars, breaker>>

\* Time passes.
Cool ==
  /\ ~breaker.cooled
  /\ breaker' = AfterCooling(breaker)
  /\ UNCHANGED <<loopVars, threadVars>>

-----------------------------------------------------------------------------
LoopStep(c) == Refuse(c) \/ Enter(c) \/ Resume(c) \/ Return(c) \/ Cancel(c)

ThreadStep(c) == StartThread(c) \/ Answer(c) \/ Throttle(c) \/ RejectCache(c)

Next == Cool \/ \E c \in Call : LoopStep(c) \/ ThreadStep(c)

Spec == Init /\ [][Next]_vars
-----------------------------------------------------------------------------
(* Properties *)

\* A permit is either free or in the hands of one woken or calling coroutine,
\* whatever is refused, blocked, cancelled in the queue, or cancelled between
\* being woken and running (bedrock.py:323-353).
PermitsAccounted == free + Cardinality(Holders) = Limit

\* No permit lies idle while a coroutine waits for one, unless a woken waiter
\* is about to pass it on.
NoIdlePermit ==
  free > 0 /\ Queued(pc) # {} => \E c \in Call : pc[c] = "granted"

\* CLOSED is exactly "fewer than Threshold failures since the last success":
\* a half-open breaker that sees one failure opens again at once
\* (circuit_breaker.py:195-209 has no branch for it).
BreakerMatchesCount == breaker.state = "closed" <=> breaker.failures < Threshold

\* Guardrail refusals and cancellations never count against Bedrock: each
\* counted failure is a call of its own that ended in an exception.
FailuresAreFaults ==
  breaker.failures <= Cardinality({c \in Call : pc[c] = "error"})
=============================================================================
