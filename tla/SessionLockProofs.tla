------------------------- MODULE SessionLockProofs --------------------------
(***************************************************************************)
(* Proofs about SessionLock, for any set of requests.                      *)
(*                                                                         *)
(* Whatever Redis, the TTL and the replicas do, only a key's own request   *)
(* deletes it.  Until a request is let past the lock, a request that works *)
(* holds the key; the key is one value, so the lock implements             *)
(* SessionMutex.                                                           *)
(***************************************************************************)
EXTENDS SessionLock, TLAPS

LEMMA TypeStep == TypeOK /\ [Next]_vars => TypeOK'
<1> SUFFICES ASSUME TypeOK, [Next]_vars
             PROVE  TypeOK'
  OBVIOUS
<1> USE DEF TypeOK
<1>1. CASE Expire
  BY <1>1 DEF Expire, Working
<1>2. ASSUME NEW r \in Request, RequestStep(r)
      PROVE  TypeOK'
  BY <1>2 DEF RequestStep, Acquire, Conflict, AcquireFailsOpen, StreamStarts,
              Processed, Release, Crash, Goto
<1>3. CASE UNCHANGED vars
  BY <1>3 DEF vars
<1>4. QED
  BY <1>1, <1>2, <1>3 DEF Next

\* The key holds a request's token or is absent, and every request is in one of
\* the states of server.py:90-121.
THEOREM TypeCorrect == Spec => []TypeOK
<1>1. Init => TypeOK
  BY DEF Init, TypeOK
<1>2. QED
  BY <1>1, TypeStep, PTL DEF Spec

\* No request deletes a key that is not its own (session_lock.py:29-35, 96-106),
\* with late holders, failing commands, crashes and lock-free streams all
\* allowed.
THEOREM ReleaseIsTokenSafe == Spec => OnlyHolderReleases
<1>1. ASSUME TypeOK, [Next]_vars, lock # "free", lock' # lock
      PROVE  pc' = pc \/ pc'[lock] # pc[lock]
  <2>1. CASE Expire \/ UNCHANGED vars
    BY <2>1 DEF Expire, vars
  <2>2. ASSUME NEW r \in Request, RequestStep(r)
        PROVE  pc'[lock] # pc[lock]
    <3>1. Release(r) /\ lock = r
      BY <1>1, <2>2 DEF RequestStep, Acquire, Conflict, AcquireFailsOpen, StreamStarts,
                        Processed, Release, Crash
    <3>2. pc[r] = "releasing" /\ pc'[r] = "answered"
      BY <1>1, <3>1 DEF Release, Goto, TypeOK
    <3>3. QED
      BY <3>1, <3>2
  <2>3. QED
    BY <1>1, <2>1, <2>2 DEF Next
<1>2. TypeOK /\ [Next]_vars =>
        [lock # "free" /\ lock' # lock => pc' = pc \/ pc'[lock] # pc[lock]]_vars
  BY <1>1
<1>3. Spec => []TypeOK
  BY TypeCorrect
<1>4. QED
  BY <1>2, <1>3, PTL DEF Spec, OnlyHolderReleases

-----------------------------------------------------------------------------
(* Until the lock is bypassed *)

IInv == TypeOK /\ WorkerHoldsLock

LEMMA BypassIsForGood ==
  ASSUME TypeOK, [Next]_vars, bypassed
  PROVE  bypassed'
<1>1. CASE Expire \/ UNCHANGED vars
  BY <1>1 DEF Expire, vars
<1>2. ASSUME NEW r \in Request, RequestStep(r)
      PROVE  bypassed'
  BY <1>2 DEF RequestStep, Acquire, Conflict, AcquireFailsOpen, StreamStarts,
              Processed, Release, Crash
<1>3. QED
  BY <1>1, <1>2 DEF Next

LEMMA WorkerStep == IInv /\ [Next]_vars => IInv'
<1> SUFFICES ASSUME IInv, [Next]_vars
             PROVE  IInv'
  OBVIOUS
<1>1. TypeOK'
  BY TypeStep DEF IInv
<1>2. WorkerHoldsLock'
  <2> SUFFICES ASSUME NEW q \in Request, Working(q)', bypassed' = FALSE
               PROVE  lock' = q
    BY <1>1 DEF WorkerHoldsLock, Inside, TypeOK
  <2>0. bypassed = FALSE /\ \A r \in Request : Working(r) => lock = r
    BY BypassIsForGood DEF IInv, TypeOK, WorkerHoldsLock, Inside
  <2> USE DEF IInv, TypeOK, Working
  <2>1. CASE Expire
    <3>1. pc' = pc /\ ~Working(lock)
      BY <2>1, <2>0 DEF Expire
    <3>2. QED
      BY <3>1, <2>0
  <2>2. ASSUME NEW r \in Request, RequestStep(r)
        PROVE  lock' = q
    <3>1. CASE Acquire(r)
      BY <3>1, <2>0, LockAssumption DEF Acquire, Goto
    <3>2. CASE Conflict(r) \/ Crash(r)
      BY <3>2, <2>0 DEF Conflict, Crash, Goto
    <3>3. CASE Processed(r)
      BY <3>3, <2>0 DEF Processed, Goto
    <3>4. CASE Release(r)
      BY <3>4, <2>0 DEF Release, Goto
    <3>5. ~AcquireFailsOpen(r) /\ ~StreamStarts(r)
      BY DEF AcquireFailsOpen, StreamStarts
    <3>6. QED
      BY <2>2, <3>1, <3>2, <3>3, <3>4, <3>5 DEF RequestStep
  <2>3. CASE UNCHANGED vars
    BY <2>3, <2>0 DEF vars
  <2>4. QED
    BY <2>1, <2>2, <2>3 DEF Next
<1>3. QED
  BY <1>1, <1>2 DEF IInv

LEMMA WorkerInv == Spec => []IInv
<1>1. Init => IInv
  BY DEF Init, IInv, TypeOK, WorkerHoldsLock, Inside, Working
<1>2. QED
  BY <1>1, WorkerStep, PTL DEF Spec

\* Until a request is let past the lock, a request that works holds the key:
\* neither a refused request, the late release of another one, nor the expiry of
\* a dead holder's key takes it away (session_lock.py:75-120).
THEOREM WorkerAlwaysHoldsLock == Spec => []WorkerHoldsLock
<1>1. IInv => WorkerHoldsLock
  BY DEF IInv
<1>2. QED
  BY <1>1, WorkerInv, PTL

Entered == IF bypassed THEN {} ELSE Processing

\* A step of the lock is a step of the mutex or leaves it alone.
LEMMA MutexStep ==
  ASSUME IInv, [Next]_vars
  PROVE  (\E r \in Request : Mutex!Enter(r) \/ Mutex!Leave(r)) \/ Entered' = Entered
<1>1. CASE bypassed
  BY <1>1, BypassIsForGood DEF Entered, IInv
<1>2. CASE ~bypassed /\ bypassed'
  <2>1. Entered' = {}
    BY <1>2 DEF Entered
  <2>2. \A r, s \in Processing : r = s
    BY <1>2 DEF IInv, WorkerHoldsLock, Inside, Working, Processing
  <2>3. CASE Processing = {}
    BY <1>2, <2>1, <2>3 DEF Entered
  <2>4. ASSUME NEW r \in Processing
        PROVE  Mutex!Leave(r)
    <3>1. Entered = {r}
      BY <1>2, <2>2, <2>4 DEF Entered
    <3>2. QED
      BY <2>1, <3>1 DEF Mutex!Leave, Entered
  <2>5. QED
    BY <2>3, <2>4 DEF Processing
<1>3. CASE ~bypassed /\ ~bypassed'
  <2>0. /\ bypassed = FALSE /\ bypassed' = FALSE
        /\ \A r \in Request : Working(r) => lock = r
        /\ Entered = Processing /\ Entered' = Processing'
    BY <1>3, TypeStep DEF IInv, TypeOK, WorkerHoldsLock, Inside, Entered
  <2> USE DEF IInv, TypeOK, Working, Processing
  <2>1. ASSUME NEW r \in Request, Acquire(r)
        PROVE  Mutex!Enter(r)
    <3>1. Processing = {}
      BY <2>0, <2>1, LockAssumption DEF Acquire
    <3>2. Processing' = {r}
      BY <2>1, <3>1 DEF Acquire, Goto
    <3>3. QED
      BY <2>0, <3>1, <3>2 DEF Mutex!Enter, Entered
  <2>2. ASSUME NEW r \in Request, pc[r] = "processing",
               pc' = [pc EXCEPT ![r] = "crashed"] \/ pc' = [pc EXCEPT ![r] = "releasing"]
                 \/ pc' = [pc EXCEPT ![r] = "answered"]
        PROVE  Mutex!Leave(r)
    <3>1. Processing = {r}
      BY <2>0, <2>2
    <3>2. Processing' = {}
      BY <2>2, <3>1
    <3>3. QED
      BY <2>0, <3>1, <3>2 DEF Mutex!Leave, Entered
  <2>3. ASSUME NEW r \in Request, pc[r] # "processing",
               \E l \in {"conflict", "answered", "crashed"} : pc' = [pc EXCEPT ![r] = l]
        PROVE  Entered' = Entered
    BY <2>0, <2>3
  <2>4. ASSUME NEW r \in Request, RequestStep(r)
        PROVE  Mutex!Enter(r) \/ Mutex!Leave(r) \/ Entered' = Entered
    <3>1. CASE Acquire(r)
      BY <2>1, <3>1
    <3>2. CASE Processed(r) \/ (Crash(r) /\ pc[r] = "processing")
      BY <2>2, <3>2 DEF Processed, Crash, Goto
    <3>3. CASE Conflict(r) \/ Release(r) \/ (Crash(r) /\ pc[r] # "processing")
      BY <2>3, <3>3 DEF Conflict, Release, Crash, Goto
    <3>4. ~AcquireFailsOpen(r) /\ ~StreamStarts(r)
      BY <2>0 DEF AcquireFailsOpen, StreamStarts
    <3>5. QED
      BY <2>4, <3>1, <3>2, <3>3, <3>4 DEF RequestStep
  <2>5. CASE Expire \/ UNCHANGED vars
    BY <2>0, <2>5 DEF Expire, vars
  <2>6. QED
    BY <2>4, <2>5 DEF Next
<1>4. QED
  BY <1>1, <1>2, <1>3

\* Until a request is let past it, the lock implements the mutex of SessionMutex,
\* for any number of requests and whatever crashes or fails.
THEOREM LockImplementsMutex == Spec => IsMutex
<1>1. Init => Mutex!Init
  BY DEF Init, Mutex!Init, Processing
<1>2. IInv /\ [Next]_vars => [Mutex!Next]_Entered
  BY MutexStep DEF Mutex!Next
<1>3. QED
  BY <1>1, <1>2, WorkerInv, PTL DEF Spec, IsMutex, Mutex!Spec, Entered
=============================================================================
