---------------------------- MODULE TokenBudget -----------------------------
(***************************************************************************)
(* The token budget of one session: src/core/token_budget.py with its two  *)
(* callers, the check at the head of supervisor.process_request and the    *)
(* recording after every Bedrock call, in that call's OS thread.  The      *)
(* requests may run on different supervisor replicas; a replica that could *)
(* not reach Redis at startup counts in its own memory until it is         *)
(* restarted.  A replica may die between any two steps.                    *)
(***************************************************************************)
EXTENDS Integers, FiniteSets

CONSTANTS Replica,
          Request,      \* requests of the session
          Budget,       \* session_token_budget
          MaxCalls,     \* bound: Bedrock calls of one request
          MaxTokens,    \* bound: tokens of one call
          Overlap,      \* requests of the session that run at once
          MayDetach,    \* whether a replica may start without Redis
          RedisMayFail  \* whether a Redis command may raise

ASSUME BudgetAssumption ==
  /\ IsFiniteSet(Request)
  /\ {Budget, MaxCalls, MaxTokens, Overlap} \subseteq Nat \ {0}
  /\ {MayDetach, RedisMayFail} \subseteq BOOLEAN

VARIABLES
  home,      \* the replica a request runs on
  attached,  \* the replica's tracker has a Redis client
  total,     \* token_budget:session:<session>; 0 when absent
  ttl,       \* that key has an expiry
  memory,    \* _usage[<session>] of each replica
  pc,        \* where the request is
  calls,     \* Bedrock calls it has made
  spent,     \* ghost: tokens billed since the key was created
  interrupted  \* ghost: a replica died at work, or with a loss in its memory

vars == <<home, attached, total, ttl, memory, pc, calls, spent, interrupted>>

TypeOK ==
  /\ home \in [Request -> Replica]
  /\ attached \in [Replica -> BOOLEAN]
  /\ total \in Nat /\ spent \in Nat
  /\ {ttl, interrupted} \subseteq BOOLEAN
  /\ memory \in [Replica -> Nat]
  /\ pc \in [Request -> {"new", "running", "recording", "refused", "over"}]
  /\ calls \in [Request -> 0..MaxCalls]

Init ==
  /\ home \in [Request -> Replica]
  /\ attached \in IF MayDetach THEN [Replica -> BOOLEAN] ELSE {[r \in Replica |-> TRUE]}
  /\ total = 0
  /\ ttl = FALSE
  /\ memory = [r \in Replica |-> 0]
  /\ pc = [q \in Request |-> "new"]
  /\ calls = [q \in Request |-> 0]
  /\ spent = 0
  /\ interrupted = FALSE

Active == {q \in Request : pc[q] \in {"running", "recording"}}
Goto(q, l) == pc' = [pc EXCEPT ![q] = l]

\* What check_budget compares with the budget when Redis answers.
Used(q) == IF attached[home[q]] THEN total ELSE memory[home[q]]

\* A check that lets the exhausted budget through.
AdmitAtLimit(q) ==
  /\ pc[q] = "new"
  /\ Cardinality(Active) < Overlap
  /\ Used(q) <= Budget
  /\ Goto(q, "running")
  /\ UNCHANGED <<home, attached, total, ttl, memory, calls, spent, interrupted>>

\* check_budget passes.
Admit(q) ==
  /\ pc[q] = "new"
  /\ Cardinality(Active) < Overlap
  /\ Used(q) < Budget
  /\ Goto(q, "running")
  /\ UNCHANGED <<home, attached, total, ttl, memory, calls, spent, interrupted>>

\* TokenBudgetExceeded: over the budget, or Redis raises.
Refuse(q) ==
  /\ pc[q] = "new"
  /\ Used(q) >= Budget \/ (RedisMayFail /\ attached[home[q]])
  /\ Goto(q, "refused")
  /\ UNCHANGED <<home, attached, total, ttl, memory, calls, spent, interrupted>>

-----------------------------------------------------------------------------
(* record_usage, after a Bedrock call of n tokens *)

Bill(q, n) ==
  /\ pc[q] = "running"
  /\ calls[q] < MaxCalls
  /\ calls' = [calls EXCEPT ![q] = @ + 1]
  /\ spent' = spent + n

\* SET where INCRBY is needed.
AddOverwriting(n) == total' = n

\* INCRBY.
Add(n) == total' = total + n

\* The replica counts in its own memory, under its lock.
RecordInMemory(q) ==
  /\ ~attached[home[q]]
  /\ \E n \in 1..MaxTokens :
       /\ Bill(q, n)
       /\ memory' = [memory EXCEPT ![home[q]] = @ + n]
  /\ UNCHANGED <<home, attached, total, ttl, pc, interrupted>>

\* INCRBY returns; EXPIRE is next.
RecordAdds(q) ==
  /\ attached[home[q]]
  /\ \E n \in 1..MaxTokens : Bill(q, n) /\ Add(n)
  /\ Goto(q, "recording")
  /\ UNCHANGED <<home, attached, ttl, memory, interrupted>>

\* The replica's own memory is set to the whole budget.
Pin(q) == memory' = [memory EXCEPT ![home[q]] = Budget]

\* INCRBY raises, applied or not: the request goes on.
RecordFails(q) ==
  /\ RedisMayFail /\ attached[home[q]]
  /\ \E n \in 1..MaxTokens : Bill(q, n) /\ (Add(n) \/ UNCHANGED total)
  /\ Pin(q)
  /\ UNCHANGED <<home, attached, ttl, pc, interrupted>>

\* EXPIRE only renews a key that has an expiry.
RenewOnly(q) ==
  /\ pc[q] = "recording"
  /\ ttl' = ttl /\ UNCHANGED memory
  /\ Goto(q, "running")
  /\ UNCHANGED <<home, attached, total, calls, spent, interrupted>>

\* EXPIRE, or its failure.
Renew(q) ==
  /\ pc[q] = "recording"
  /\ \/ ttl' = TRUE /\ UNCHANGED memory
     \/ RedisMayFail /\ Pin(q) /\ UNCHANGED ttl
  /\ Goto(q, "running")
  /\ UNCHANGED <<home, attached, total, calls, spent, interrupted>>

\* The request is answered.
Finish(q) ==
  /\ pc[q] = "running"
  /\ Goto(q, "over")
  /\ UNCHANGED <<home, attached, total, ttl, memory, calls, spent, interrupted>>

-----------------------------------------------------------------------------
(* What happens to the key and to the replicas *)

\* 24 h without usage: no request lasts that long.  A key that has no expiry stays.
KeyExpires ==
  /\ ttl
  /\ Active = {}
  /\ total' = 0 /\ ttl' = FALSE
  /\ spent' = 0 /\ interrupted' = FALSE
  /\ UNCHANGED <<home, attached, memory, pc, calls>>

\* The requests a replica works for, and those whose next call may be in progress.
WorkOf(r) == {q \in Active : home[q] = r}
InCall(r) == {q \in WorkOf(r) : pc[q] = "running" /\ calls[q] < MaxCalls}

\* A replica dies and starts again: between INCRBY and EXPIRE, or while Bedrock
\* works, whose tokens are billed and recorded nowhere.  _usage begins empty, and
\* the client is created anew.
Crash(r) ==
  /\ pc' = [q \in Request |-> IF q \in WorkOf(r) THEN "over" ELSE pc[q]]
  /\ \E a \in BOOLEAN : /\ a \/ MayDetach
                        /\ attached' = [attached EXCEPT ![r] = a]
  /\ spent' \in spent..(spent + MaxTokens * Cardinality(InCall(r)))
  /\ memory' = [memory EXCEPT ![r] = 0]
  /\ interrupted' = (interrupted \/ WorkOf(r) # {} \/ memory[r] > 0)
  /\ UNCHANGED <<home, total, ttl, calls>>

-----------------------------------------------------------------------------
RequestStep(q) ==
  \/ Admit(q) \/ Refuse(q) \/ Finish(q)
  \/ RecordInMemory(q) \/ RecordAdds(q) \/ RecordFails(q) \/ Renew(q)

Next ==
  \/ \E q \in Request : RequestStep(q)
  \/ \E r \in Replica : Crash(r)
  \/ KeyExpires

Spec == Init /\ [][Next]_vars
-----------------------------------------------------------------------------
(* Properties *)

\* No replica has kept tokens to itself or failed to record some, which leaves a
\* trace in _usage (lines 167-169 and 191), and none died at work or with a trace.
Undisturbed == ~interrupted /\ \A r \in Replica : memory[r] = 0

\* One budget for all replicas: as long as nothing was lost, what the shared
\* counter says is what was billed, whichever replicas and threads recorded it
\* (lines 163-174).  In particular every loss leaves its trace, but for the death
\* of a replica.
CounterIsBill == Undisturbed => total = spent

\* A session is cut one request late, never more: the check at the entrypoint
\* lets through what was below the budget, and each request that runs then may
\* still make all its calls (lines 147-150, agent.py:119-138).
OverspendBounded ==
  Undisturbed => spent <= Budget - 1 + Overlap * MaxCalls * MaxTokens

\* Between requests every counter has an expiry (lines 171-179), unless an EXPIRE
\* failed or a replica died: whoever adds to the key renews it, in whatever order
\* the adding and the renewing of several requests and replicas take place.
CounterExpires == Undisturbed /\ Active = {} /\ total > 0 => ttl
=============================================================================
