----------------------------- MODULE WorkerPool -----------------------------
(***************************************************************************)
(* The gateway's worker pool: src/gateway/worker_pool.py.                  *)
(*                                                                         *)
(* Every gateway replica owns one pool.  A job runs in the asyncio task of *)
(* its request; a side task polls the Redis key "cancel:<job>" and cancels *)
(* the job's task when it sees the key.  A step is the code one task runs  *)
(* between two suspensions, so whatever the code does without an await is  *)
(* one step here: the capacity check, the acquisition of the semaphore and *)
(* the entry in _active, and the synchronous head of the finally block.    *)
(***************************************************************************)
EXTENDS Integers, FiniteSets

CONSTANTS Replica,       \* gateway replicas
          Job,           \* job ids; uuid4, so no id is used twice
          Max,           \* max_concurrent, per replica
          MaxChunks,     \* bound: chunks a stream yields
          RedisMayFail   \* whether a Redis call may raise

ASSUME PoolAssumption ==
  /\ IsFiniteSet(Job)
  /\ Max \in Nat \ {0}
  /\ MaxChunks \in Nat
  /\ RedisMayFail \in BOOLEAN

VARIABLES
  home,       \* the replica that receives the job's request
  pc,         \* where the job's task is suspended
  item,       \* what stream.__anext__ returned, not consumed yet
  chunks,     \* chunks yielded so far; first_byte_seen is chunks > 0
  outcome,    \* how the job's generator ends
  free,       \* value of the semaphore, per replica
  active,     \* keys of _active, per replica
  poll,       \* the job's _poll_cancel task
  signalled,  \* the poll task called task.cancel()
  flag,       \* Redis: cancel:<job>
  status,     \* Redis: job:<job>
  request     \* the POST /jobs/<job>/cancel request, one per job

jobVars    == <<pc, item, chunks, outcome>>
slotVars   == <<free, active>>
cancelVars == <<poll, signalled, flag, request>>
vars == <<home, jobVars, slotVars, cancelVars, status>>

Outcome == {"completed", "cancelled", "failed",
            "first_byte_timeout", "idle_timeout", "rejected"}

\* The job holds a slot from the entry in _active to the finally block.
Holding == {"waiting", "ready", "status", "reported"}
Holders(r) == {j \in Job : home[j] = r /\ pc[j] \in Holding}

TypeOK ==
  /\ home \in [Job -> Replica]
  /\ pc \in [Job -> Holding \cup {"new", "clearing", "ended"}]
  /\ item \in [Job -> {"none", "chunk", "end", "error"}]
  /\ chunks \in [Job -> 0..MaxChunks]
  /\ outcome \in [Job -> Outcome \cup {"none"}]
  /\ free \in [Replica -> 0..Max]
  /\ active \in [Replica -> SUBSET Job]
  /\ poll \in [Job -> {"off", "running", "over"}]
  /\ signalled \in [Job -> BOOLEAN]
  /\ flag \in [Job -> BOOLEAN]
  /\ status \in [Job -> Outcome \cup {"none"}]
  /\ request \in [Job -> {"none", "setting", "accepted", "not_found"}]

Init ==
  /\ home \in [Job -> Replica]
  /\ pc = [j \in Job |-> "new"]
  /\ item = [j \in Job |-> "none"]
  /\ chunks = [j \in Job |-> 0]
  /\ outcome = [j \in Job |-> "none"]
  /\ free = [r \in Replica |-> Max]
  /\ active = [r \in Replica |-> {}]
  /\ poll = [j \in Job |-> "off"]
  /\ signalled = [j \in Job |-> FALSE]
  /\ flag = [j \in Job |-> FALSE]
  /\ status = [j \in Job |-> "none"]
  /\ request = [j \in Job |-> "none"]

HasCapacity(r) == Max - Cardinality(active[r]) > 0

-----------------------------------------------------------------------------
(* Admission to the pool *)

\* _run past sem.acquire(): the job enters _active and its poll task starts.
Enter(j) ==
  /\ free' = [free EXCEPT ![home[j]] = @ - 1]
  /\ active' = [active EXCEPT ![home[j]] = @ \cup {j}]
  /\ pc' = [pc EXCEPT ![j] = "waiting"]
  /\ poll' = [poll EXCEPT ![j] = "running"]

\* submit() and the first step of the generator it returns.  Nothing is awaited
\* between the check and sem.acquire(), which suspends only at 0: were the
\* semaphore 0 here, the value below would be -1 (SlotsAccounted excludes it).
Submit(j) ==
  /\ pc[j] = "new"
  /\ HasCapacity(home[j])
  /\ Enter(j)
  /\ UNCHANGED <<home, item, chunks, outcome, signalled, flag, request, status>>

\* PoolFullError.
Reject(j) ==
  /\ pc[j] = "new"
  /\ ~HasCapacity(home[j])
  /\ pc' = [pc EXCEPT ![j] = "ended"]
  /\ outcome' = [outcome EXCEPT ![j] = "rejected"]
  /\ UNCHANGED <<home, item, chunks, slotVars, cancelVars, status>>

-----------------------------------------------------------------------------
(* The loop over the stream *)

\* The inner task of asyncio.wait_for finishes; the job's task is scheduled.
StreamAnswers(j) ==
  /\ pc[j] = "waiting"
  /\ \E i \in {"chunk", "end", "error"} :
       /\ i = "chunk" => chunks[j] < MaxChunks
       /\ item' = [item EXCEPT ![j] = i]
  /\ pc' = [pc EXCEPT ![j] = "ready"]
  /\ UNCHANGED <<home, chunks, outcome, slotVars, cancelVars, status>>

\* The generator leaves the loop with outcome o and awaits _update_status.
Report(j, o) ==
  /\ outcome' = [outcome EXCEPT ![j] = o]
  /\ pc' = [pc EXCEPT ![j] = "status"]

\* The job's task resumes: it yields the chunk and asks for the next one, or
\* leaves the loop.  The consumers in main.py do not suspend between chunks.
Consume(j) ==
  /\ pc[j] = "ready"
  /\ \/ /\ item[j] = "chunk"
        /\ chunks' = [chunks EXCEPT ![j] = @ + 1]
        /\ pc' = [pc EXCEPT ![j] = "waiting"]
        /\ UNCHANGED outcome
     \/ /\ item[j] \in {"end", "error"}
        /\ Report(j, IF item[j] = "end" THEN "completed" ELSE "failed")
        /\ UNCHANGED chunks
  /\ item' = [item EXCEPT ![j] = "none"]
  /\ UNCHANGED <<home, slotVars, cancelVars, status>>

\* No budget once the first chunk was seen.
TimeoutFirstByteOnly(j) ==
  /\ pc[j] = "waiting"
  /\ chunks[j] = 0
  /\ Report(j, "first_byte_timeout")
  /\ UNCHANGED <<home, item, chunks, slotVars, cancelVars, status>>

\* wait_for gives up: the first-byte budget before the first chunk, the idle
\* budget after it.
Timeout(j) ==
  /\ pc[j] = "waiting"
  /\ Report(j, IF chunks[j] > 0 THEN "idle_timeout" ELSE "first_byte_timeout")
  /\ UNCHANGED <<home, item, chunks, slotVars, cancelVars, status>>

\* Redis applies the SET of _update_status, or the call fails and is logged.
WriteStatus(j) ==
  /\ pc[j] = "status"
  /\ \/ status' = [status EXCEPT ![j] = outcome[j]]
     \/ RedisMayFail /\ UNCHANGED status
  /\ pc' = [pc EXCEPT ![j] = "reported"]
  /\ UNCHANGED <<home, item, chunks, outcome, slotVars, cancelVars>>

\* The finally block up to its first await: leave _active, stop the poll task,
\* release the semaphore.
Leave(j) ==
  /\ active' = [active EXCEPT ![home[j]] = @ \ {j}]
  /\ free' = [free EXCEPT ![home[j]] = @ + 1]
  /\ poll' = [poll EXCEPT ![j] = "over"]
  /\ pc' = [pc EXCEPT ![j] = "clearing"]

\* A finally block that leaves _active but keeps the semaphore until after
\* the await of _clear_cancel_flag (never released here).
FinishKeepingSlot(j) ==
  /\ pc[j] = "reported"
  /\ active' = [active EXCEPT ![home[j]] = @ \ {j}]
  /\ poll' = [poll EXCEPT ![j] = "over"]
  /\ pc' = [pc EXCEPT ![j] = "clearing"]
  /\ UNCHANGED <<home, item, chunks, outcome, free, signalled, flag, request, status>>

Finish(j) ==
  /\ pc[j] = "reported"
  /\ Leave(j)
  /\ UNCHANGED <<home, item, chunks, outcome, signalled, flag, request, status>>

\* _clear_cancel_flag and stream.aclose().
ClearFlag(j) ==
  /\ pc[j] = "clearing"
  /\ \/ flag' = [flag EXCEPT ![j] = FALSE]
     \/ RedisMayFail /\ UNCHANGED flag
  /\ pc' = [pc EXCEPT ![j] = "ended"]
  /\ UNCHANGED <<home, item, chunks, outcome, slotVars, poll, signalled, request, status>>

-----------------------------------------------------------------------------
(* Cancellation *)

\* cancel() on replica r: 404 unless the job is active there, else the SET of
\* the cancel key is awaited.
CancelRequest(j, r) ==
  /\ request[j] = "none"
  /\ pc[j] # "new"
  /\ request' = [request EXCEPT ![j] = IF j \in active[r] THEN "setting" ELSE "not_found"]
  /\ UNCHANGED <<home, jobVars, slotVars, poll, signalled, flag, status>>

\* An answer that does not wait for the SET.
CancelAnswerEarly(j) ==
  /\ request[j] = "setting"
  /\ request' = [request EXCEPT ![j] = "accepted"]
  /\ UNCHANGED <<home, jobVars, slotVars, poll, signalled, flag, status>>

\* The SET returns, or fails and is logged; the answer is 202 either way.
CancelAnswer(j) ==
  /\ request[j] = "setting"
  /\ \/ flag' = [flag EXCEPT ![j] = TRUE]
     \/ RedisMayFail /\ UNCHANGED flag
  /\ request' = [request EXCEPT ![j] = "accepted"]
  /\ UNCHANGED <<home, jobVars, slotVars, poll, signalled, status>>

\* CancelledError is thrown where the job's task is suspended.  wait_for of
\* Python 3.11 returns the result of an inner task that is already done and
\* drops the cancellation; in the except blocks of lines 142-147 no handler is
\* left, so the generator goes straight to its finally block.
Throw(j) ==
  \/ /\ pc[j] = "waiting" \/ (pc[j] \in {"status", "reported"} /\ outcome[j] # "failed")
     /\ Report(j, "cancelled")
     /\ poll' = [poll EXCEPT ![j] = "over"]
     /\ UNCHANGED slotVars
  \/ /\ pc[j] = "ready"
     /\ poll' = [poll EXCEPT ![j] = "over"]
     /\ UNCHANGED <<pc, outcome, slotVars>>
  \/ /\ pc[j] \in {"status", "reported"} /\ outcome[j] = "failed"
     /\ outcome' = [outcome EXCEPT ![j] = "cancelled"]
     /\ Leave(j)

\* A poll task that does not look at its own job's key.
PollCancelsAny(j) ==
  /\ poll[j] = "running"
  /\ \E k \in Job : flag[k]
  /\ Throw(j)
  /\ signalled' = [signalled EXCEPT ![j] = TRUE]
  /\ UNCHANGED <<home, item, chunks, flag, request, status>>

\* One round of _poll_cancel that finds the key.
PollCancels(j) ==
  /\ poll[j] = "running"
  /\ flag[j]
  /\ Throw(j)
  /\ signalled' = [signalled EXCEPT ![j] = TRUE]
  /\ UNCHANGED <<home, item, chunks, flag, request, status>>

\* One round of _poll_cancel whose GET raises: the poll task returns.
PollFails(j) ==
  /\ RedisMayFail
  /\ poll[j] = "running"
  /\ poll' = [poll EXCEPT ![j] = "over"]
  /\ UNCHANGED <<home, jobVars, slotVars, signalled, flag, request, status>>

-----------------------------------------------------------------------------
AwaitStep(j) == StreamAnswers(j) \/ Timeout(j)

JobStep(j) ==
  \/ Submit(j) \/ Reject(j) \/ Consume(j)
  \/ WriteStatus(j) \/ Finish(j) \/ ClearFlag(j)

CancelStep(j) ==
  \/ \E r \in Replica : CancelRequest(j, r)
  \/ CancelAnswer(j) \/ PollCancels(j) \/ PollFails(j)

Next == \E j \in Job : AwaitStep(j) \/ JobStep(j) \/ CancelStep(j)

Spec == Init /\ [][Next]_vars

\* The event loop runs every scheduled task; a timer that has expired fires.
\* Nothing is assumed of the stream, of the clients that cancel, or of Redis: the
\* gateway's client has no socket timeout (main.py lines 40-44), so an awaited
\* SET or DELETE may be answered never.
Fairness ==
  \A j \in Job : WF_vars(Consume(j)) /\ WF_vars(Timeout(j)) /\ WF_vars(Finish(j))

FairSpec == Spec /\ Fairness
-----------------------------------------------------------------------------
(* Properties *)

\* The semaphore, _active and the jobs between Enter and Leave agree on every
\* replica: submit's check (len(_active), lines 95 and 104) and sem.acquire()
\* (line 116) never disagree, so an admitted job is never queued, and no path
\* out of _run loses a slot or returns it twice.
SlotsAccounted ==
  \A r \in Replica :
    /\ active[r] = Holders(r)
    /\ free[r] = Max - Cardinality(Holders(r))

\* The pool bounds what runs: never more than Max jobs of a replica are between
\* their admission and their finally block.
BoundedConcurrency == \A r \in Replica : Cardinality(Holders(r)) <= Max

\* A job is cancelled only when a client asked to cancel that very job and was
\* answered 202: no poll task acts on another job's key or on a stale one.
CancelledOnlyOnRequest ==
  \A j \in Job : outcome[j] = "cancelled" => request[j] = "accepted"

\* A 202 is never forgotten while the job runs: either the key is set and the
\* poll task is there to see it, or the cancellation was thrown (lines 89-94,
\* 160-176).  Needs a Redis that answers.
AcceptedCancelIsPending ==
  \A r \in Replica : \A j \in active[r] :
    request[j] = "accepted" => signalled[j] \/ (flag[j] /\ poll[j] = "running")

\* Every job that got a slot gives it back: silence of the stream, at any point,
\* ends in one of the two timeouts, and every way out passes the finally block.
\* The one thing that keeps a slot is a status write that Redis never answers.
SlotReleased ==
  \A j \in Job : pc[j] = "waiting" ~> (pc[j] \notin Holding \/ [](pc[j] = "status"))
=============================================================================
