--------------------------- MODULE BedrockProofs ----------------------------
(***************************************************************************)
(* Proofs about BedrockClient, for any finite set of calls, any Limit, any *)
(* Threshold and any number of retries.                                    *)
(*                                                                         *)
(* The argument: a permit changes hands only through the semaphore, and    *)
(* every operation on it is Enter's fast path or ends in WakeNext.  One    *)
(* lemma about WakeNext, for any coroutine states p and any value v of the *)
(* semaphore that add up to Limit, therefore serves Release, Cancel and    *)
(* Resume alike.                                                           *)
(***************************************************************************)
EXTENDS BedrockClient, FiniteSetTheorems, TLAPS

State == Ended \cup Holding \cup {"new", "queued"}

\* The holders of a permit when the coroutines are where p says.
HoldersOf(p) == {c \in Call : p[c] \in Holding}

\* The types with the semaphore's bound left to PermitsAccounted.
LoopTypes ==
  /\ pc \in [Call -> State]
  /\ ahead \in [Call -> SUBSET Call]
  /\ free \in Nat

ThreadTypes ==
  /\ thread \in [Call -> Result \cup {"none", "submitted", "running"}]
  /\ attempt \in [Call -> 0..MaxRetries]
  /\ cached \in [Call -> BOOLEAN]
  /\ cacheOk \in BOOLEAN

Faults == {c \in Call : pc[c] = "error"}

PermitInv == LoopTypes /\ PermitsAccounted /\ NoIdlePermit
BreakerInv == breaker \in Breaker /\ BreakerMatchesCount /\ FailuresAreFaults
IInv == PermitInv /\ ThreadTypes /\ BreakerInv

\* Sets of calls are finite.
LEMMA CallsFinite ==
  ASSUME NEW S \in SUBSET Call
  PROVE  IsFiniteSet(S) /\ Cardinality(S) \in Nat
<1>1. IsFiniteSet(S)
  BY ClientAssumption, FS_Subset
<1>2. QED
  BY <1>1, FS_CardinalityType

\* WakeNext keeps every permit accounted and leaves none idle.
LEMMA WakeAccounted ==
  ASSUME NEW p \in [Call -> State], NEW v \in Nat, v > 0,
         v + Cardinality(HoldersOf(p)) = Limit,
         UNCHANGED ahead, LoopTypes, WakeNext(p, v)
  PROVE  PermitInv'
<1>1. CASE Queued(p) = {} /\ pc' = p /\ free' = v
  <2>1. Holders' = HoldersOf(p) /\ Queued(pc)' = {}
    BY <1>1 DEF Holders, HoldersOf, Queued
  <2>2. QED
    BY <1>1, <2>1 DEF PermitInv, LoopTypes, PermitsAccounted, NoIdlePermit
<1>2. CASE \E c \in Queued(p) : /\ pc' = [p EXCEPT ![c] = "granted"]
                                /\ free' = v - 1
  <2>1. PICK c \in Queued(p) : /\ pc' = [p EXCEPT ![c] = "granted"]
                               /\ free' = v - 1
    BY <1>2
  <2>2. c \in Call /\ p[c] = "queued"
    BY DEF Queued
  <2>3. pc' \in [Call -> State] /\ pc'[c] = "granted" /\ free' \in Nat
    BY <2>1, <2>2 DEF State, Holding
  <2>4. Holders' = HoldersOf(p) \cup {c} /\ c \notin HoldersOf(p)
    BY <2>1, <2>2 DEF Holders, HoldersOf, Holding
  <2>5. HoldersOf(p) \in SUBSET Call
    BY DEF HoldersOf
  <2>6. Cardinality(Holders') = Cardinality(HoldersOf(p)) + 1
    BY <2>4, <2>5, CallsFinite, FS_AddElement
  <2>7. PermitsAccounted'
    BY <2>1, <2>5, <2>6, CallsFinite, ClientAssumption DEF PermitsAccounted
  <2>8. QED
    BY <2>2, <2>3, <2>7 DEF PermitInv, LoopTypes, NoIdlePermit
<1>3. QED
  BY <1>1, <1>2 DEF WakeNext

\* Release gives back exactly the permit its coroutine held.
LEMMA ReleaseAccounted ==
  ASSUME PermitInv, NEW c \in Call, pc[c] \in Holding, NEW end \in Ended,
         Release(c, end)
  PROVE  PermitInv'
<1> DEFINE p == [pc EXCEPT ![c] = end]
<1>1. p \in [Call -> State]
  BY DEF PermitInv, LoopTypes, State
<1>2. HoldersOf(p) = Holders \ {c} /\ c \in Holders /\ Holders \in SUBSET Call
  BY DEF HoldersOf, Holders, Holding, Ended, Result, PermitInv, LoopTypes
<1>3. Cardinality(HoldersOf(p)) = Cardinality(Holders) - 1
  BY <1>2, CallsFinite, FS_RemoveElement
<1>4. free + 1 \in Nat /\ free + 1 > 0 /\ free + 1 + Cardinality(HoldersOf(p)) = Limit
  BY <1>2, <1>3, CallsFinite, ClientAssumption DEF PermitInv, LoopTypes, PermitsAccounted
<1>5. QED
  BY <1>1, <1>4, WakeAccounted DEF Release, PermitInv

\* A step that moves no coroutine keeps the permits.
LEMMA SameLoop ==
  ASSUME PermitInv, UNCHANGED loopVars
  PROVE  PermitInv'
<1>1. Holders' = Holders /\ Queued(pc)' = Queued(pc)
  BY DEF Holders, Queued, loopVars
<1>2. QED
  BY <1>1 DEF PermitInv, LoopTypes, PermitsAccounted, NoIdlePermit, loopVars

LEMMA EnterPermits ==
  ASSUME PermitInv, NEW c \in Call, Enter(c)
  PROVE  PermitInv'
<1>1. pc[c] = "new"
  BY DEF Enter
<1>2. CASE Locked
  <2>1. /\ pc' = [pc EXCEPT ![c] = "queued"]
        /\ ahead' = [ahead EXCEPT ![c] = Queued(pc)]
        /\ free' = free
    BY <1>2 DEF Enter
  <2>2. LoopTypes'
    BY <2>1 DEF PermitInv, LoopTypes, State, Queued
  <2>3. Holders' = Holders
    BY <1>1, <2>1 DEF Holders, Holding, PermitInv, LoopTypes
  <2>4. ASSUME NEW d \in Call, pc[d] = "granted"
        PROVE  pc'[d] = "granted"
    BY <1>1, <2>1, <2>4 DEF PermitInv, LoopTypes
  <2>5. NoIdlePermit'
    BY <1>2, <2>1, <2>4 DEF Locked, PermitInv, LoopTypes, NoIdlePermit, Queued
  <2>6. QED
    BY <2>1, <2>2, <2>3, <2>5 DEF PermitInv, PermitsAccounted
<1>3. CASE ~Locked
  <2>1. pc' = [pc EXCEPT ![c] = "calling"] /\ free' = free - 1 /\ ahead' = ahead
    BY <1>3 DEF Enter
  <2>2. free \in Nat /\ free # 0 /\ \A d \in Call : pc[d] # "queued"
    BY <1>3 DEF Locked, PermitInv, LoopTypes
  <2>3. LoopTypes'
    BY <2>1, <2>2 DEF PermitInv, LoopTypes, State, Holding
  <2>4. Holders' = Holders \cup {c} /\ c \notin Holders /\ Holders \in SUBSET Call
    BY <1>1, <2>1 DEF Holders, Holding, PermitInv, LoopTypes
  <2>5. Cardinality(Holders') = Cardinality(Holders) + 1
    BY <2>4, CallsFinite, FS_AddElement
  <2>6. Queued(pc)' = {}
    BY <2>1, <2>2 DEF Queued, PermitInv, LoopTypes
  <2>7. PermitsAccounted'
    BY <2>1, <2>2, <2>4, <2>5, CallsFinite, ClientAssumption DEF PermitInv, PermitsAccounted
  <2>8. QED
    BY <2>3, <2>6, <2>7 DEF PermitInv, NoIdlePermit
<1>4. QED
  BY <1>2, <1>3

LEMMA ResumePermits ==
  ASSUME PermitInv, NEW c \in Call, Resume(c)
  PROVE  PermitInv'
<1> DEFINE p == [pc EXCEPT ![c] = "calling"]
<1>1. pc[c] = "granted"
  BY DEF Resume
<1>2. p \in [Call -> State]
  BY DEF PermitInv, LoopTypes, State, Holding
<1>3. HoldersOf(p) = Holders
  BY <1>1 DEF HoldersOf, Holders, Holding, PermitInv, LoopTypes
<1>4. CASE free > 0
  <2>1. WakeNext(p, free)
    BY <1>4 DEF Resume
  <2>2. free \in Nat /\ free + Cardinality(HoldersOf(p)) = Limit
    BY <1>3 DEF PermitInv, LoopTypes, PermitsAccounted
  <2>3. UNCHANGED ahead
    BY DEF Resume
  <2>4. QED
    BY <1>2, <1>4, <2>1, <2>2, <2>3, WakeAccounted DEF PermitInv
<1>5. CASE ~(free > 0)
  <2>1. pc' = p /\ free' = free /\ ahead' = ahead
    BY <1>5 DEF Resume
  <2>2. Holders' = Holders
    BY <1>3, <2>1 DEF HoldersOf, Holders
  <2>3. QED
    BY <1>2, <1>5, <2>1, <2>2 DEF PermitInv, LoopTypes, PermitsAccounted, NoIdlePermit
<1>6. QED
  BY <1>4, <1>5

\* A step that moves one coroutine between two states without a permit, neither
\* of them into the queue.
LEMMA WithoutPermit ==
  ASSUME PermitInv, NEW c \in Call, NEW end \in Ended,
         pc[c] \in {"new", "queued"},
         pc' = [pc EXCEPT ![c] = end], UNCHANGED <<ahead, free>>
  PROVE  PermitInv'
<1>1. LoopTypes'
  BY DEF PermitInv, LoopTypes, State
<1>2. Holders' = Holders
  BY DEF Holders, Holding, Ended, Result, PermitInv, LoopTypes
<1>3. Queued(pc)' \in SUBSET Queued(pc)
  BY DEF Queued, Ended, Result, PermitInv, LoopTypes
<1>4. \A d \in Call : pc[d] = "granted" => pc'[d] = "granted"
  BY DEF PermitInv, LoopTypes
<1>5. QED
  BY <1>1, <1>2, <1>3, <1>4 DEF PermitInv, PermitsAccounted, NoIdlePermit

\* Every step keeps the permits.
LEMMA PermitStep ==
  ASSUME IInv, [Next]_vars
  PROVE  PermitInv'
<1>0. PermitInv
  BY DEF IInv
<1>1. ASSUME NEW c \in Call, LoopStep(c)
      PROVE  PermitInv'
  <2>1. CASE Refuse(c)
    <3>1. "refused" \in Ended
      BY DEF Ended
    <3>2. QED
      BY <1>0, <2>1, <3>1, WithoutPermit DEF Refuse
  <2>2. CASE Enter(c)
    BY <1>0, <2>2, EnterPermits
  <2>3. CASE Resume(c)
    BY <1>0, <2>3, ResumePermits
  <2>4. CASE Return(c)
    <3>1. pc[c] \in Holding /\ thread[c] \in Ended /\ Release(c, thread[c])
      BY <2>4 DEF Return, Holding, Ended
    <3>2. QED
      BY <1>0, <3>1, ReleaseAccounted
  <2>5. CASE Cancel(c)
    <3>1. "cancelled" \in Ended
      BY DEF Ended
    <3>2. CASE /\ pc[c] = "queued"
               /\ pc' = [pc EXCEPT ![c] = "cancelled"]
               /\ UNCHANGED <<ahead, free>>
      BY <1>0, <3>1, <3>2, WithoutPermit
    <3>3. CASE pc[c] \in Holding /\ Release(c, "cancelled")
      BY <1>0, <3>1, <3>3, ReleaseAccounted
    <3>4. QED
      BY <2>5, <3>2, <3>3 DEF Cancel
  <2>6. QED
    BY <1>1, <2>1, <2>2, <2>3, <2>4, <2>5 DEF LoopStep
<1>2. ASSUME NEW c \in Call, ThreadStep(c)
      PROVE  PermitInv'
  <2>1. UNCHANGED loopVars
    BY <1>2 DEF ThreadStep, StartThread, Answer, Throttle, RejectCache
  <2>2. QED
    BY <1>0, <2>1, SameLoop
<1>3. CASE Cool \/ UNCHANGED vars
  BY <1>0, <1>3, SameLoop DEF Cool, vars
<1>4. QED
  BY <1>1, <1>2, <1>3 DEF Next

\* Every step keeps the types of the bodies.
LEMMA ThreadTypesStep ==
  ASSUME IInv, [Next]_vars
  PROVE  ThreadTypes'
<1> USE DEF IInv, ThreadTypes, Result
<1>1. ASSUME NEW c \in Call, LoopStep(c)
      PROVE  ThreadTypes'
  <2>1. UNCHANGED <<attempt, cached, cacheOk>>
    BY <1>1 DEF LoopStep, Refuse, Enter, Resume, Return, Cancel, threadVars
  <2>2. \/ UNCHANGED thread
        \/ \E t \in {"submitted", "none"} : thread' = [thread EXCEPT ![c] = t]
    BY <1>1 DEF LoopStep, Refuse, Enter, Resume, Return, Cancel, threadVars
  <2>3. QED
    BY <2>1, <2>2
<1>2. ASSUME NEW c \in Call, ThreadStep(c)
      PROVE  ThreadTypes'
  <2>1. CASE StartThread(c)
    BY <2>1 DEF StartThread, loopVars
  <2>2. CASE Answer(c)
    BY <2>2 DEF Answer, Over
  <2>3. CASE Throttle(c)
    BY <2>3, ClientAssumption DEF Throttle, Over
  <2>4. CASE RejectCache(c)
    <3>1. attempt' = [attempt EXCEPT ![c] = @ + 1] /\ attempt[c] < MaxRetries
      BY <2>4 DEF RejectCache
    <3>2. attempt' \in [Call -> 0..MaxRetries]
      BY <3>1, ClientAssumption
    <3>3. cached' \in [Call -> BOOLEAN] /\ cacheOk' \in BOOLEAN
      BY <2>4 DEF RejectCache
    <3>4. thread' = [thread EXCEPT ![c] = "error"] \/ UNCHANGED thread
      BY <2>4 DEF RejectCache, Over
    <3>5. QED
      BY <3>2, <3>3, <3>4
  <2>5. QED
    BY <1>2, <2>1, <2>2, <2>3, <2>4 DEF ThreadStep
<1>3. CASE Cool \/ UNCHANGED vars
  BY <1>3 DEF Cool, vars, threadVars
<1>4. QED
  BY <1>1, <1>2, <1>3 DEF Next

-----------------------------------------------------------------------------
(* The breaker *)

\* The methods of the breaker keep "closed" and "below the threshold" equal.
LEMMA BreakerMethods ==
  ASSUME NEW b \in Breaker, b.state = "closed" <=> b.failures < Threshold
  PROVE  \A n \in {AfterSuccess(b), AfterFailure(b), AfterCooling(b)}
                  \cup (IF CanExecute(b) THEN {AfterCanExecute(b)} ELSE {}) :
           n \in Breaker /\ (n.state = "closed" <=> n.failures < Threshold)
<1> USE ThresholdAssumption DEF Breaker
<1>1. AfterSuccess(b) \in Breaker /\ AfterSuccess(b).state = "closed" /\ AfterSuccess(b).failures = 0
  BY DEF AfterSuccess
<1>2. /\ AfterFailure(b) \in Breaker
      /\ AfterFailure(b).state = "closed" <=> AfterFailure(b).failures < Threshold
  BY DEF AfterFailure
<1>3. /\ AfterCooling(b) \in Breaker
      /\ AfterCooling(b).state = b.state
      /\ AfterCooling(b).failures = b.failures
  BY DEF AfterCooling
<1>4. /\ AfterCanExecute(b) \in Breaker
      /\ AfterCanExecute(b).state = "closed" <=> b.state = "closed"
      /\ AfterCanExecute(b).failures = b.failures
  BY DEF AfterCanExecute
<1>5. QED
  BY <1>1, <1>2, <1>3, <1>4

\* What a step does to the breaker.
LEMMA BreakerMoves ==
  ASSUME NEW c \in Call, LoopStep(c)
  PROVE  \/ UNCHANGED breaker
         \/ breaker' = AfterCanExecute(breaker) /\ CanExecute(breaker)
         \/ breaker' = AfterSuccess(breaker)
         \/ breaker' = AfterFailure(breaker) /\ pc[c] = "calling" /\ thread[c] = "error"
                                             /\ Release(c, "error")
BY DEF LoopStep, Refuse, Enter, Resume, Return, Cancel

\* A step never takes a call out of "error", and Return puts one there.
LEMMA FaultsGrow ==
  ASSUME IInv, [Next]_vars
  PROVE  /\ Faults \subseteq Faults'
         /\ \A c \in Call : pc[c] = "calling" /\ Release(c, "error") =>
              c \in Faults' /\ c \notin Faults
<1> USE DEF IInv, PermitInv, LoopTypes, Faults
<1>1. ASSUME NEW p \in [Call -> State], NEW v, WakeNext(p, v), NEW d \in Call, p[d] = "error"
      PROVE  pc'[d] = "error"
  BY <1>1 DEF WakeNext, Queued
<1>2. ASSUME NEW c \in Call, NEW end \in Ended, pc[c] \in Holding, Release(c, end),
             NEW d \in Call, d = c => end = "error", d # c => pc[d] = "error"
      PROVE  pc'[d] = "error"
  <2>1. [pc EXCEPT ![c] = end] \in [Call -> State] /\ [pc EXCEPT ![c] = end][d] = "error"
    BY <1>2 DEF State
  <2>2. QED
    BY <1>1, <1>2, <2>1 DEF Release
<1>3. ASSUME NEW c \in Call, LoopStep(c), NEW d \in Call, pc[d] = "error"
      PROVE  pc'[d] = "error"
  <2>1. CASE Refuse(c) \/ Enter(c)
    BY <1>3, <2>1 DEF Refuse, Enter
  <2>2. CASE Resume(c)
    <3>1. pc[c] = "granted" /\ [pc EXCEPT ![c] = "calling"] \in [Call -> State]
      BY <2>2 DEF Resume, State, Holding
    <3>2. [pc EXCEPT ![c] = "calling"][d] = "error"
      BY <1>3, <3>1
    <3>3. QED
      BY <1>1, <2>2, <3>1, <3>2 DEF Resume
  <2>3. CASE Return(c)
    <3>1. pc[c] \in Holding /\ pc[c] # "error" /\ thread[c] \in Ended /\ Release(c, thread[c])
      BY <2>3 DEF Return, Holding, Ended
    <3>2. QED
      BY <1>2, <1>3, <3>1
  <2>4. CASE Cancel(c)
    <3>1. CASE pc[c] = "queued" /\ pc' = [pc EXCEPT ![c] = "cancelled"]
      BY <1>3, <3>1
    <3>2. CASE pc[c] \in Holding /\ Release(c, "cancelled")
      BY <1>2, <1>3, <3>2 DEF Holding, Ended
    <3>3. QED
      BY <2>4, <3>1, <3>2 DEF Cancel
  <2>5. QED
    BY <1>3, <2>1, <2>2, <2>3, <2>4 DEF LoopStep
<1>4. ASSUME NEW d \in Call, pc[d] = "error"
      PROVE  pc'[d] = "error"
  <2>1. CASE \E c \in Call : LoopStep(c)
    BY <1>3, <1>4, <2>1
  <2>2. CASE ~\E c \in Call : LoopStep(c)
    <3>1. UNCHANGED pc
      BY <2>2 DEF Next, ThreadStep, StartThread, Answer, Throttle, RejectCache, Cool, vars, loopVars
    <3>2. QED
      BY <1>4, <3>1
  <2>3. QED
    BY <2>1, <2>2
<1>5. ASSUME NEW c \in Call, pc[c] = "calling", Release(c, "error")
      PROVE  c \in Faults' /\ c \notin Faults
  <2>1. "error" \in Ended /\ pc[c] \in Holding
    BY <1>5 DEF Ended, Result, Holding
  <2>2. pc'[c] = "error"
    BY <1>2, <1>5, <2>1
  <2>3. QED
    BY <1>5, <2>2
<1>6. QED
  BY <1>4, <1>5

\* Every step keeps what is said of the breaker.
LEMMA BreakerStep ==
  ASSUME IInv, [Next]_vars
  PROVE  BreakerInv'
<1>1. Faults \in SUBSET Call /\ Faults' \in SUBSET Call /\ Faults \subseteq Faults'
  BY FaultsGrow DEF Faults
<1>2. Cardinality(Faults) \in Nat /\ Cardinality(Faults') \in Nat
      /\ Cardinality(Faults) <= Cardinality(Faults')
  BY <1>1, CallsFinite, FS_Subset
<1>3. breaker \in Breaker /\ breaker.failures \in Nat
  BY DEF IInv, BreakerInv, Breaker
<1>4. breaker.failures <= Cardinality(Faults)
  BY DEF IInv, BreakerInv, FailuresAreFaults, Faults
<1>5. ASSUME breaker'.failures <= Cardinality(Faults')
      PROVE  FailuresAreFaults'
  BY <1>5 DEF FailuresAreFaults, Faults
<1>6. CASE \/ UNCHANGED breaker
           \/ breaker' = AfterCanExecute(breaker) /\ CanExecute(breaker)
           \/ breaker' = AfterSuccess(breaker)
           \/ breaker' = AfterCooling(breaker)
  <2>1. breaker'.failures \in {breaker.failures, 0}
    BY <1>3, <1>6 DEF AfterCanExecute, AfterSuccess, AfterCooling, Breaker
  <2>2. breaker' \in Breaker /\ BreakerMatchesCount'
    BY <1>6, BreakerMethods DEF IInv, BreakerInv, BreakerMatchesCount
  <2>3. FailuresAreFaults'
    BY <1>2, <1>3, <1>4, <1>5, <2>1
  <2>4. QED
    BY <2>2, <2>3 DEF BreakerInv
<1>7. ASSUME NEW c \in Call, breaker' = AfterFailure(breaker),
             pc[c] = "calling", Release(c, "error")
      PROVE  BreakerInv'
  <2>1. c \in Faults' /\ c \notin Faults
    BY <1>7, FaultsGrow
  <2>2. Cardinality(Faults \cup {c}) = Cardinality(Faults) + 1
    BY <1>1, <2>1, CallsFinite, FS_AddElement
  <2>3. Faults \cup {c} \subseteq Faults'
    BY <1>1, <2>1
  <2>4. Cardinality(Faults) + 1 <= Cardinality(Faults')
    BY <1>1, <2>2, <2>3, CallsFinite, FS_Subset
  <2>5. breaker'.failures = breaker.failures + 1
    BY <1>7 DEF AfterFailure
  <2>6. breaker' \in Breaker /\ BreakerMatchesCount'
    BY <1>7, BreakerMethods DEF IInv, BreakerInv, BreakerMatchesCount
  <2>7. FailuresAreFaults'
    BY <1>2, <1>3, <1>4, <1>5, <2>4, <2>5
  <2>8. QED
    BY <2>6, <2>7 DEF BreakerInv
<1>8. CASE \E c \in Call : LoopStep(c)
  BY <1>6, <1>7, <1>8, BreakerMoves
<1>9. CASE ~\E c \in Call : LoopStep(c)
  <2>1. breaker' = AfterCooling(breaker) \/ UNCHANGED breaker
    BY <1>9 DEF Next, ThreadStep, StartThread, Answer, Throttle, RejectCache, Cool, vars
  <2>2. QED
    BY <1>6, <2>1
<1>10. QED
  BY <1>8, <1>9

-----------------------------------------------------------------------------
LEMMA InitIInv == Init => IInv
<1> SUFFICES ASSUME Init
             PROVE  IInv
  OBVIOUS
<1> USE DEF Init
<1>1. Holders = {} /\ Queued(pc) = {}
  BY DEF Holders, Queued, Holding
<1>2. PermitInv
  BY <1>1, FS_EmptySet, ClientAssumption
  DEF PermitInv, LoopTypes, State, PermitsAccounted, NoIdlePermit
<1>3. ThreadTypes
  BY ClientAssumption DEF ThreadTypes
<1>4. breaker \in Breaker /\ BreakerMatchesCount
  BY ThresholdAssumption DEF NewBreaker, Breaker, BreakerMatchesCount
<1>5. FailuresAreFaults
  <2>1. Cardinality({c \in Call : pc[c] = "error"}) \in Nat
    BY CallsFinite
  <2>2. QED
    BY <2>1 DEF FailuresAreFaults, NewBreaker
<1>6. QED
  BY <1>2, <1>3, <1>4, <1>5 DEF IInv, BreakerInv

LEMMA Inductive == Spec => []IInv
<1>1. IInv /\ [Next]_vars => IInv'
  BY PermitStep, ThreadTypesStep, BreakerStep DEF IInv
<1>2. QED
  BY <1>1, InitIInv, PTL DEF Spec

\* The permits of the semaphore add up to Limit in every reachable state: no
\* path through invoke or converse, a cancellation between two of its steps
\* included, loses a permit or returns one twice (bedrock.py:323-353).
THEOREM PermitsAlwaysAccounted == Spec => []PermitsAccounted
<1>1. IInv => PermitsAccounted
  BY DEF IInv, PermitInv
<1>2. QED
  BY <1>1, Inductive, PTL

\* A permit is never idle while a coroutine waits: someone is always left to
\* pass it on.
THEOREM NoPermitIdles == Spec => []NoIdlePermit
<1>1. IInv => NoIdlePermit
  BY DEF IInv, PermitInv
<1>2. QED
  BY <1>1, Inductive, PTL

\* The breaker is CLOSED exactly while fewer than Threshold failures were seen
\* since the last success (circuit_breaker.py:175-209).
THEOREM BreakerAlwaysMatchesCount == Spec => []BreakerMatchesCount
<1>1. IInv => BreakerMatchesCount
  BY DEF IInv, BreakerInv
<1>2. QED
  BY <1>1, Inductive, PTL

\* Only calls that ended in an exception other than a guardrail refusal or a
\* cancellation are counted as failures (bedrock.py:344-353).
THEOREM OnlyFaultsCount == Spec => []FailuresAreFaults
<1>1. IInv => FailuresAreFaults
  BY DEF IInv, BreakerInv
<1>2. QED
  BY <1>1, Inductive, PTL

\* Every variable keeps its type; the semaphore's bound follows from the
\* permits adding up.
THEOREM TypeCorrect == Spec => []TypeOK
<1>1. IInv => TypeOK
  <2> SUFFICES ASSUME IInv
               PROVE  TypeOK
    OBVIOUS
  <2>1. Holders \in SUBSET Call
    BY DEF Holders
  <2>2. free \in 0..Limit
    BY <2>1, CallsFinite, ClientAssumption DEF IInv, PermitInv, LoopTypes, PermitsAccounted
  <2>3. QED
    BY <2>2 DEF TypeOK, IInv, PermitInv, LoopTypes, State, ThreadTypes, BreakerInv
<1>2. QED
  BY <1>1, Inductive, PTL
=============================================================================
