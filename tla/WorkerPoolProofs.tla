-------------------------- MODULE WorkerPoolProofs --------------------------
(***************************************************************************)
(* Proofs about WorkerPool and about the Gateway on top of it, for any set *)
(* of replicas, any finite set of jobs and any Max.                        *)
(*                                                                         *)
(* The argument: the slots of a replica are the jobs that hold them.  Only *)
(* Enter adds a job to Holders and only Leave removes one; each changes    *)
(* _active and the semaphore in the same step.  SlotsAccounted is then     *)
(* inductive together with the types.  What the handlers of the gateway do *)
(* to the pool are steps of the pool, so every invariant of the pool holds *)
(* for the gateway too.                                                    *)
(***************************************************************************)
EXTENDS Gateway, FiniteSetTheorems, TLAPS

\* TypeOK without the bounds on the semaphore, which follow from SlotsAccounted,
\* and with the room a chunk has been given by StreamAnswers.
Types ==
  /\ home \in [Job -> Replica]
  /\ pc \in [Job -> Holding \cup {"new", "clearing", "ended"}]
  /\ item \in [Job -> {"none", "chunk", "end", "error"}]
  /\ chunks \in [Job -> 0..MaxChunks]
  /\ outcome \in [Job -> Outcome \cup {"none"}]
  /\ free \in [Replica -> Int]
  /\ active \in [Replica -> SUBSET Job]
  /\ poll \in [Job -> {"off", "running", "over"}]
  /\ signalled \in [Job -> BOOLEAN]
  /\ flag \in [Job -> BOOLEAN]
  /\ status \in [Job -> Outcome \cup {"none"}]
  /\ request \in [Job -> {"none", "setting", "accepted", "not_found"}]
  /\ \A j \in Job : item[j] = "chunk" => chunks[j] < MaxChunks

IInv == Types /\ SlotsAccounted /\ BoundedConcurrency

\* The holders of a replica are a finite set.
LEMMA HoldersFinite ==
  ASSUME NEW r \in Replica
  PROVE  IsFiniteSet(Holders(r)) /\ Cardinality(Holders(r)) \in Nat
<1>1. Holders(r) \in SUBSET Job
  BY DEF Holders
<1>2. IsFiniteSet(Holders(r))
  BY <1>1, FS_Subset, PoolAssumption
<1>3. QED
  BY <1>2, FS_CardinalityType

\* A step that moves no job into or out of Holding keeps the slots accounted.
LEMMA SameHolders ==
  ASSUME IInv, UNCHANGED <<home, slotVars>>,
         \A j \in Job : pc'[j] \in Holding <=> pc[j] \in Holding
  PROVE  SlotsAccounted' /\ BoundedConcurrency'
<1>1. \A r \in Replica : Holders(r)' = Holders(r)
  BY DEF Holders
<1>2. QED
  BY <1>1 DEF IInv, SlotsAccounted, BoundedConcurrency, slotVars

\* Entering the pool with capacity left keeps the slots accounted.
LEMMA EnterAccounted ==
  ASSUME IInv, NEW j \in Job, pc[j] = "new", HasCapacity(home[j]), Enter(j),
         UNCHANGED home
  PROVE  SlotsAccounted' /\ BoundedConcurrency'
<1> SUFFICES ASSUME NEW r \in Replica
             PROVE  /\ active'[r] = Holders(r)'
                    /\ free'[r] = Max - Cardinality(Holders(r)')
                    /\ Cardinality(Holders(r)') <= Max
  BY DEF SlotsAccounted, BoundedConcurrency
<1>1. home[j] \in Replica /\ pc \in [Job -> Holding \cup {"new", "clearing", "ended"}]
  BY DEF IInv, Types
<1>2. CASE r = home[j]
  <2>1. Holders(r)' = Holders(r) \cup {j} /\ j \notin Holders(r)
    BY <1>1, <1>2 DEF Holders, Enter, Holding
  <2>2. Cardinality(Holders(r)') = Cardinality(Holders(r)) + 1
    BY <2>1, HoldersFinite, FS_AddElement
  <2>3. active'[r] = Holders(r)' /\ free'[r] = free[r] - 1
    BY <1>2, <2>1 DEF IInv, Types, SlotsAccounted, Enter
  <2>4. Max - Cardinality(Holders(r)) > 0
    BY <1>2 DEF HasCapacity, IInv, SlotsAccounted
  <2>5. free[r] = Max - Cardinality(Holders(r))
    BY DEF IInv, SlotsAccounted
  <2>6. QED
    BY <2>2, <2>3, <2>4, <2>5, HoldersFinite, PoolAssumption
<1>3. CASE r # home[j]
  <2>1. Holders(r)' = Holders(r)
    BY <1>1, <1>3 DEF Holders, Enter
  <2>2. active'[r] = active[r] /\ free'[r] = free[r]
    BY <1>3 DEF IInv, Types, Enter
  <2>3. QED
    BY <2>1, <2>2 DEF IInv, SlotsAccounted, BoundedConcurrency
<1>4. QED
  BY <1>2, <1>3

\* Leaving the pool gives back exactly the slot the job held.
LEMMA LeaveAccounted ==
  ASSUME IInv, NEW j \in Job, pc[j] \in Holding, Leave(j), UNCHANGED home
  PROVE  SlotsAccounted' /\ BoundedConcurrency'
<1> SUFFICES ASSUME NEW r \in Replica
             PROVE  /\ active'[r] = Holders(r)'
                    /\ free'[r] = Max - Cardinality(Holders(r)')
                    /\ Cardinality(Holders(r)') <= Max
  BY DEF SlotsAccounted, BoundedConcurrency
<1>1. home[j] \in Replica /\ pc \in [Job -> Holding \cup {"new", "clearing", "ended"}]
  BY DEF IInv, Types
<1>2. CASE r = home[j]
  <2>1. Holders(r)' = Holders(r) \ {j} /\ j \in Holders(r)
    BY <1>1, <1>2 DEF Holders, Leave, Holding
  <2>2. Cardinality(Holders(r)') = Cardinality(Holders(r)) - 1
    BY <2>1, HoldersFinite, FS_RemoveElement
  <2>3. active'[r] = Holders(r)' /\ free'[r] = free[r] + 1
    BY <1>2, <2>1 DEF IInv, Types, SlotsAccounted, Leave
  <2>4. free[r] = Max - Cardinality(Holders(r)) /\ Cardinality(Holders(r)) <= Max
    BY DEF IInv, SlotsAccounted, BoundedConcurrency
  <2>5. QED
    BY <2>2, <2>3, <2>4, HoldersFinite, PoolAssumption
<1>3. CASE r # home[j]
  <2>1. Holders(r)' = Holders(r)
    BY <1>1, <1>3 DEF Holders, Leave
  <2>2. active'[r] = active[r] /\ free'[r] = free[r]
    BY <1>3 DEF IInv, Types, Leave
  <2>3. QED
    BY <2>1, <2>2 DEF IInv, SlotsAccounted, BoundedConcurrency
<1>4. QED
  BY <1>2, <1>3

\* Every step keeps the types; the semaphore stays an integer here.
LEMMA TypesStep ==
  ASSUME Types, [Next]_vars
  PROVE  Types'
<1> USE PoolAssumption DEF Types, Outcome, Holding
<1>1. ASSUME NEW j \in Job, AwaitStep(j)
      PROVE  Types'
  BY <1>1 DEF AwaitStep, StreamAnswers, Timeout, Report, slotVars, cancelVars
<1>2. ASSUME NEW j \in Job, JobStep(j)
      PROVE  Types'
  <2>1. CASE Submit(j)
    BY <2>1 DEF Submit, Enter
  <2>2. CASE Reject(j)
    BY <2>2 DEF Reject, slotVars, cancelVars
  <2>3. CASE Consume(j)
    <3>1. CASE item[j] = "chunk"
      <4>1. chunks'[j] \in 0..MaxChunks
        BY <2>3, <3>1 DEF Consume
      <4>2. QED
        BY <2>3, <3>1, <4>1 DEF Consume, slotVars, cancelVars
    <3>2. CASE item[j] # "chunk"
      BY <2>3, <3>2 DEF Consume, Report, slotVars, cancelVars
    <3>3. QED
      BY <3>1, <3>2
  <2>4. CASE WriteStatus(j)
    BY <2>4 DEF WriteStatus, slotVars, cancelVars
  <2>5. CASE Finish(j)
    BY <2>5 DEF Finish, Leave
  <2>6. CASE ClearFlag(j)
    BY <2>6 DEF ClearFlag, slotVars
  <2>7. QED
    BY <1>2, <2>1, <2>2, <2>3, <2>4, <2>5, <2>6 DEF JobStep
<1>3. ASSUME NEW j \in Job, CancelStep(j)
      PROVE  Types'
  <2>1. CASE \E r \in Replica : CancelRequest(j, r)
    BY <2>1 DEF CancelRequest, jobVars, slotVars
  <2>2. CASE CancelAnswer(j)
    BY <2>2 DEF CancelAnswer, jobVars, slotVars
  <2>3. CASE PollCancels(j)
    BY <2>3 DEF PollCancels, Throw, Report, Leave, slotVars
  <2>4. CASE PollFails(j)
    BY <2>4 DEF PollFails, jobVars, slotVars
  <2>5. QED
    BY <1>3, <2>1, <2>2, <2>3, <2>4 DEF CancelStep
<1>4. CASE UNCHANGED vars
  BY <1>4 DEF vars, jobVars, slotVars, cancelVars
<1>5. QED
  BY <1>1, <1>2, <1>3, <1>4 DEF Next

\* The inductive invariant holds initially.
LEMMA InitIInv == Init => IInv
<1> SUFFICES ASSUME Init
             PROVE  IInv
  OBVIOUS
<1>1. Types
  BY PoolAssumption DEF Init, Types, Outcome
<1>2. \A r \in Replica : Holders(r) = {}
  BY DEF Init, Holders, Holding
<1>3. \A r \in Replica : Cardinality(Holders(r)) = 0
  BY <1>2, FS_EmptySet
<1>4. SlotsAccounted /\ BoundedConcurrency
  BY <1>2, <1>3, PoolAssumption DEF Init, SlotsAccounted, BoundedConcurrency
<1>5. QED
  BY <1>1, <1>4 DEF IInv

\* Every step keeps it: Submit enters, Finish and a cancellation thrown into the
\* status update of a failed job leave, no other step touches the slots.
LEMMA NextIInv == IInv /\ [Next]_vars => IInv'
<1> SUFFICES ASSUME IInv, [Next]_vars
             PROVE  SlotsAccounted' /\ BoundedConcurrency'
  BY TypesStep DEF IInv
<1>0. pc \in [Job -> Holding \cup {"new", "clearing", "ended"}]
  BY DEF IInv, Types
<1>1. ASSUME NEW j \in Job, AwaitStep(j)
      PROVE  SlotsAccounted' /\ BoundedConcurrency'
  BY <1>0, <1>1, SameHolders DEF AwaitStep, StreamAnswers, Timeout, Report, Holding, slotVars
<1>2. ASSUME NEW j \in Job, JobStep(j)
      PROVE  SlotsAccounted' /\ BoundedConcurrency'
  <2>1. CASE Submit(j)
    BY <2>1, EnterAccounted DEF Submit
  <2>2. CASE Reject(j)
    BY <1>0, <2>2, SameHolders DEF Reject, Holding, slotVars
  <2>3. CASE Consume(j)
    BY <1>0, <2>3, SameHolders DEF Consume, Report, Holding, slotVars
  <2>4. CASE WriteStatus(j)
    BY <1>0, <2>4, SameHolders DEF WriteStatus, Holding, slotVars
  <2>5. CASE Finish(j)
    BY <2>5, LeaveAccounted DEF Finish, Holding
  <2>6. CASE ClearFlag(j)
    BY <1>0, <2>6, SameHolders DEF ClearFlag, Holding, slotVars
  <2>7. QED
    BY <1>2, <2>1, <2>2, <2>3, <2>4, <2>5, <2>6 DEF JobStep
<1>3. ASSUME NEW j \in Job, CancelStep(j)
      PROVE  SlotsAccounted' /\ BoundedConcurrency'
  <2>1. CASE \E r \in Replica : CancelRequest(j, r)
    BY <2>1, SameHolders DEF CancelRequest, jobVars, slotVars
  <2>2. CASE CancelAnswer(j)
    BY <2>2, SameHolders DEF CancelAnswer, jobVars, slotVars
  <2>3. CASE PollCancels(j)
    <3>1. CASE Leave(j) /\ pc[j] \in {"status", "reported"}
      BY <2>3, <3>1, LeaveAccounted DEF PollCancels, Holding
    <3>2. CASE ~(Leave(j) /\ pc[j] \in {"status", "reported"})
      BY <1>0, <2>3, <3>2, SameHolders DEF PollCancels, Throw, Report, Holding, slotVars
    <3>3. QED
      BY <3>1, <3>2
  <2>4. CASE PollFails(j)
    BY <2>4, SameHolders DEF PollFails, jobVars, slotVars
  <2>5. QED
    BY <1>3, <2>1, <2>2, <2>3, <2>4 DEF CancelStep
<1>4. CASE UNCHANGED vars
  BY <1>4, SameHolders DEF vars, jobVars, slotVars
<1>5. QED
  BY <1>1, <1>2, <1>3, <1>4 DEF Next

LEMMA Inductive == Spec => []IInv
<1>1. QED
  BY InitIInv, NextIInv, PTL DEF Spec

\* On every replica the semaphore, _active and the jobs that hold a slot agree in
\* every reachable state (worker_pool.py:96-122, 149-155).
THEOREM SlotsAlwaysAccounted == Spec => []SlotsAccounted
<1>1. IInv => SlotsAccounted
  BY DEF IInv
<1>2. QED
  BY <1>1, Inductive, PTL

\* No replica ever runs more than max_concurrent jobs, however submissions,
\* ends, timeouts and cancellations interleave.
THEOREM NeverOverCapacity == Spec => []BoundedConcurrency
<1>1. IInv => BoundedConcurrency
  BY DEF IInv
<1>2. QED
  BY <1>1, Inductive, PTL

\* The type invariant; the semaphore stays between 0 and Max, so the acquire of an
\* admitted job never suspends and no release exceeds what was acquired.
THEOREM TypeCorrect == Spec => []TypeOK
<1>1. IInv => TypeOK
  <2> SUFFICES ASSUME IInv
               PROVE  TypeOK
    OBVIOUS
  <2>1. ASSUME NEW r \in Replica
        PROVE  free[r] \in 0..Max
    BY HoldersFinite, PoolAssumption DEF IInv, SlotsAccounted, BoundedConcurrency
  <2>2. QED
    BY <2>1 DEF IInv, Types, TypeOK
<1>2. QED
  BY <1>1, Inductive, PTL

-----------------------------------------------------------------------------
(* Cancellation *)

\* The key of a job is set only by a request for that job that found it running.
CancelInv ==
  /\ \A j \in Job : flag[j] => request[j] = "accepted"
  /\ CancelledOnlyOnRequest

LEMMA CancelInvStep == Types /\ CancelInv /\ [Next]_vars => CancelInv'
<1> SUFFICES ASSUME Types, CancelInv, [Next]_vars
             PROVE  CancelInv'
  OBVIOUS
<1> USE DEF Types, CancelInv, CancelledOnlyOnRequest
<1>1. ASSUME NEW j \in Job, AwaitStep(j)
      PROVE  CancelInv'
  BY <1>1 DEF AwaitStep, StreamAnswers, Timeout, Report, cancelVars
<1>2. ASSUME NEW j \in Job, JobStep(j)
      PROVE  CancelInv'
  BY <1>2 DEF JobStep, Submit, Enter, Reject, Consume, Report, WriteStatus,
              Finish, Leave, ClearFlag, cancelVars
<1>3. ASSUME NEW j \in Job, CancelStep(j)
      PROVE  CancelInv'
  <2>1. CASE \E r \in Replica : CancelRequest(j, r)
    BY <2>1 DEF CancelRequest, jobVars
  <2>2. CASE CancelAnswer(j)
    BY <2>2 DEF CancelAnswer, jobVars
  <2>3. CASE PollCancels(j)
    BY <2>3 DEF PollCancels, Throw, Report
  <2>4. CASE PollFails(j)
    BY <2>4 DEF PollFails, jobVars
  <2>5. QED
    BY <1>3, <2>1, <2>2, <2>3, <2>4 DEF CancelStep
<1>4. CASE UNCHANGED vars
  BY <1>4 DEF vars, jobVars, cancelVars
<1>5. QED
  BY <1>1, <1>2, <1>3, <1>4 DEF Next

\* A job ends cancelled only after a client asked for it and got its 202
\* (worker_pool.py:89-94, 160-176): poll tasks never act on another job's key.
THEOREM CancelIsAttributed == Spec => []CancelledOnlyOnRequest
<1>1. Init => CancelInv
  BY DEF Init, CancelInv, CancelledOnlyOnRequest
<1>2. IInv => Types
  BY DEF IInv
<1>3. CancelInv => CancelledOnlyOnRequest
  BY DEF CancelInv
<1>4. QED
  BY <1>1, <1>2, <1>3, CancelInvStep, Inductive, PTL DEF Spec

-----------------------------------------------------------------------------
(* A cancellation that was accepted *)

\* A job that holds a slot is watched until its cancellation is thrown, and a
\* request that was accepted for it has left the key.  A job is asked about only
\* after it was submitted.
Pending ==
  \A j \in Job :
    /\ pc[j] = "new" => request[j] = "none"
    /\ pc[j] \in Holding =>
         /\ signalled[j] \/ poll[j] = "running"
         /\ request[j] = "accepted" => signalled[j] \/ flag[j]

\* With a Redis that answers no step loses the key or the poll task of a job that
\* still runs.
LEMMA PendingStep ==
  ASSUME ~RedisMayFail, Types, Pending, [Next]_vars
  PROVE  Pending'
<1> USE DEF Types, Pending, Holding
<1>1. ASSUME NEW j \in Job, AwaitStep(j)
      PROVE  Pending'
  BY <1>1 DEF AwaitStep, StreamAnswers, Timeout, Report, cancelVars
<1>2. ASSUME NEW j \in Job, JobStep(j)
      PROVE  Pending'
  <2>1. CASE Submit(j)
    BY <2>1 DEF Submit, Enter
  <2>2. CASE Reject(j)
    BY <2>2 DEF Reject, cancelVars
  <2>3. CASE Consume(j) \/ WriteStatus(j)
    BY <2>3 DEF Consume, Report, WriteStatus, cancelVars
  <2>4. CASE Finish(j)
    BY <2>4 DEF Finish, Leave
  <2>5. CASE ClearFlag(j)
    BY <2>5 DEF ClearFlag
  <2>6. QED
    BY <1>2, <2>1, <2>2, <2>3, <2>4, <2>5 DEF JobStep
<1>3. ASSUME NEW j \in Job, CancelStep(j)
      PROVE  Pending'
  <2>1. CASE \E r \in Replica : CancelRequest(j, r)
    BY <2>1 DEF CancelRequest, jobVars
  <2>2. CASE CancelAnswer(j)
    BY <2>2 DEF CancelAnswer, jobVars
  <2>3. CASE PollCancels(j)
    BY <2>3 DEF PollCancels, Throw, Report, Leave
  <2>4. CASE PollFails(j)
    BY <2>4 DEF PollFails
  <2>5. QED
    BY <1>3, <2>1, <2>2, <2>3, <2>4 DEF CancelStep
<1>4. CASE UNCHANGED vars
  BY <1>4 DEF vars, jobVars, cancelVars
<1>5. QED
  BY <1>1, <1>2, <1>3, <1>4 DEF Next

\* As long as Redis answers, a 202 is not forgotten while the job runs: the key and
\* the poll task are there, or the cancellation was thrown (worker_pool.py:89-94,
\* 160-176), whatever the stream, its timeouts and the other jobs do meanwhile.
THEOREM AcceptedCancelStays ==
  ASSUME ~RedisMayFail
  PROVE  Spec => []AcceptedCancelIsPending
<1>1. Init => Pending
  BY DEF Init, Pending, Holding
<1>2. IInv => Types
  BY DEF IInv
<1>3. Types /\ Pending /\ [Next]_vars => Pending'
  BY PendingStep
<1>4. IInv /\ Pending => AcceptedCancelIsPending
  <2> SUFFICES ASSUME IInv, Pending, NEW r \in Replica, NEW j \in active[r],
                      request[j] = "accepted"
               PROVE  signalled[j] \/ (flag[j] /\ poll[j] = "running")
    BY DEF AcceptedCancelIsPending
  <2>1. j \in Job /\ pc[j] \in Holding
    BY DEF IInv, SlotsAccounted, Holders
  <2>2. QED
    BY <2>1 DEF Pending
<1>5. QED
  BY <1>1, <1>2, <1>3, <1>4, Inductive, PTL DEF Spec

-----------------------------------------------------------------------------
(* The gateway *)

\* A handler's own step leaves the pool alone, or submits the job of its request.
LEMMA HandlerKeepsPool ==
  ASSUME NEW j \in Job, Handler(j)
  PROVE  Submit(j) \/ Reject(j) \/ UNCHANGED vars
BY DEF Handler, Receive, Admission, ProbeFails, ProbeOk, PooledAnswer, StreamOpens,
       StreamOpenFails, StreamEnds, FallbackReturns

\* Every step of the gateway is a step of the pool or leaves it alone.
LEMMA GatewayStep == [GwNext]_allVars => [Next]_vars
<1> SUFFICES ASSUME [GwNext]_allVars
             PROVE  [Next]_vars
  OBVIOUS
<1>1. ASSUME NEW j \in Job, Handler(j)
      PROVE  [Next]_vars
  BY <1>1, HandlerKeepsPool DEF Next, JobStep
<1>2. ASSUME NEW j \in Job, OneShotAwait(j)
      PROVE  [Next]_vars
  BY <1>2 DEF OneShotAwait, Next, AwaitStep
<1>3. ASSUME NEW j \in Job, PoolStep(j)
      PROVE  [Next]_vars
  BY <1>3 DEF PoolStep, Next, JobStep
<1>4. CASE UNCHANGED allVars
  BY <1>4 DEF allVars
<1>5. QED
  BY <1>1, <1>2, <1>3, <1>4 DEF GwNext

\* The handlers of main.py use the pool only as it allows, whatever capacity they
\* saw before the probe of the supervisor: submit decides (main.py:180, 198).
THEOREM GatewayImplementsPool == GwSpec => PoolRefined
<1>1. GwInit => Init
  BY DEF GwInit
<1>2. QED
  BY <1>1, GatewayStep, PTL DEF GwSpec, PoolRefined, Spec

\* What is proved of the pool holds in the gateway: its capacity, its slots, and
\* whom a cancellation reaches.
THEOREM GatewayKeepsPoolInvariants ==
  GwSpec => [](SlotsAccounted /\ BoundedConcurrency /\ CancelledOnlyOnRequest)
BY GatewayImplementsPool, SlotsAlwaysAccounted, NeverOverCapacity, CancelIsAttributed, PTL
   DEF PoolRefined

\* A request that got its 202 keeps it while the gateway runs its job.
THEOREM GatewayKeepsAcceptedCancel ==
  ASSUME ~RedisMayFail
  PROVE  GwSpec => []AcceptedCancelIsPending
BY GatewayImplementsPool, AcceptedCancelStays, PTL DEF PoolRefined

\* The handlers' part of the types.
HandlerTypes ==
  /\ stage \in [Job -> Stage]
  /\ answer \in [Job -> Answer \cup {"none"}]

\* Every variable of the gateway keeps its type; an answer is one of those main.py
\* gives.
THEOREM GatewayTypeCorrect == GwSpec => []GwTypeOK
<1>1. GwInit => HandlerTypes
  BY DEF GwInit, HandlerTypes, Stage, Answer
<1>2. HandlerTypes /\ [GwNext]_allVars => HandlerTypes'
  <2> SUFFICES ASSUME HandlerTypes, [GwNext]_allVars
               PROVE  HandlerTypes'
    OBVIOUS
  <2> USE DEF HandlerTypes, Stage, Answer, Goto, Reply
  <2>1. ASSUME NEW j \in Job, Handler(j)
        PROVE  HandlerTypes'
    BY <2>1 DEF Handler, Receive, Admission, ProbeFails, ProbeOk, PooledAnswer, StreamOpens,
                StreamOpenFails, StreamEnds, FallbackReturns
  <2>2. ASSUME NEW j \in Job, OneShotAwait(j) \/ PoolStep(j)
        PROVE  HandlerTypes'
    BY <2>2 DEF OneShotAwait, PoolStep, gwVars
  <2>3. CASE UNCHANGED allVars
    BY <2>3 DEF allVars, gwVars
  <2>4. QED
    BY <2>1, <2>2, <2>3 DEF GwNext
<1>3. TypeOK /\ HandlerTypes => GwTypeOK
  BY DEF GwTypeOK, HandlerTypes
<1>4. QED
  BY <1>1, <1>2, <1>3, GatewayImplementsPool, TypeCorrect, PTL DEF GwSpec, PoolRefined
=============================================================================
