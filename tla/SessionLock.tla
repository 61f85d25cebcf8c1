---------------------------- MODULE SessionLock -----------------------------
(***************************************************************************)
(* The lock of one session: src/core/session_lock.py, as                   *)
(* supervisor/server.py uses it in POST /internal/process and does not use *)
(* it in POST /internal/process/stream.  The requests may be on different  *)
(* supervisor replicas.  A Redis command takes effect at one instant; a    *)
(* command that raises may have taken effect or not.                       *)
(***************************************************************************)
EXTENDS FiniteSets

CONSTANTS Request,       \* requests for the session; each has its own token
          Streaming,     \* those that come by /internal/process/stream
          Slow,          \* whether a request may take longer than the TTL
          RedisMayFail   \* whether a Redis command may raise

ASSUME LockAssumption ==
  /\ Streaming \subseteq Request
  /\ {Slow, RedisMayFail} \subseteq BOOLEAN
  /\ "free" \notin Request

VARIABLES
  lock,      \* Redis: the token in session_lock:<session>, or "free"
  pc,        \* where the request is
  bypassed   \* ghost: some request has been processed without holding the key

vars == <<lock, pc, bypassed>>

TypeOK ==
  /\ lock \in Request \cup {"free"}
  /\ pc \in [Request -> {"new", "processing", "releasing", "answered",
                         "conflict", "crashed"}]
  /\ bypassed \in BOOLEAN

Init ==
  /\ lock = "free"
  /\ pc = [r \in Request |-> "new"]
  /\ bypassed = FALSE

Goto(r, l) == pc' = [pc EXCEPT ![r] = l]

\* SET without NX.
AcquireOverwriting(r) ==
  /\ pc[r] = "new" /\ r \notin Streaming
  /\ lock' = r
  /\ Goto(r, "processing")
  /\ UNCHANGED bypassed

\* SET NX EX that finds no key.
Acquire(r) ==
  /\ pc[r] = "new" /\ r \notin Streaming
  /\ lock = "free"
  /\ lock' = r
  /\ Goto(r, "processing")
  /\ UNCHANGED bypassed

\* SET NX EX that finds one: SessionLockConflict, answered 409.  __aexit__ does
\* not run when __aenter__ raised.
Conflict(r) ==
  /\ pc[r] = "new" /\ r \notin Streaming
  /\ lock # "free"
  /\ Goto(r, "conflict")
  /\ UNCHANGED <<lock, bypassed>>

\* acquire() fails open; the SET may have been applied all the same.
AcquireFailsOpen(r) ==
  /\ RedisMayFail
  /\ pc[r] = "new" /\ r \notin Streaming
  /\ \/ UNCHANGED lock
     \/ lock = "free" /\ lock' = r
  /\ Goto(r, "processing")
  /\ bypassed' = TRUE

\* The streaming endpoint takes no lock.
StreamStarts(r) ==
  /\ pc[r] = "new" /\ r \in Streaming
  /\ Goto(r, "processing")
  /\ bypassed' = TRUE
  /\ UNCHANGED lock

\* process_request returns or raises: __aexit__ runs in both cases.
Processed(r) ==
  /\ pc[r] = "processing"
  /\ Goto(r, IF r \in Streaming THEN "answered" ELSE "releasing")
  /\ UNCHANGED <<lock, bypassed>>

\* A release without the token comparison.
ReleaseBlindly(r) ==
  /\ pc[r] = "releasing"
  /\ \/ lock' = "free"
     \/ RedisMayFail /\ UNCHANGED lock
  /\ Goto(r, "answered")
  /\ UNCHANGED bypassed

\* The release script: delete the key if it still holds our token.
Release(r) ==
  /\ pc[r] = "releasing"
  /\ \/ lock' = IF lock = r THEN "free" ELSE lock
     \/ RedisMayFail /\ UNCHANGED lock
  /\ Goto(r, "answered")
  /\ UNCHANGED bypassed

\* The replica dies with the request.
Crash(r) ==
  /\ pc[r] \in {"processing", "releasing"}
  /\ Goto(r, "crashed")
  /\ UNCHANGED <<lock, bypassed>>

Working(r) == pc[r] \in {"processing", "releasing"}

\* A SET without EX: the key of a dead holder never goes away.
ExpireOnlyIfWorking ==
  /\ lock # "free"
  /\ Working(lock) /\ Slow
  /\ lock' = "free"
  /\ bypassed' = TRUE
  /\ UNCHANGED pc

\* The TTL passes.  Without slow requests it never does while the holder works.
Expire ==
  /\ lock # "free"
  /\ Working(lock) => Slow
  /\ lock' = "free"
  /\ bypassed' = (bypassed \/ Working(lock))
  /\ UNCHANGED pc

-----------------------------------------------------------------------------
RequestStep(r) ==
  \/ Acquire(r) \/ Conflict(r) \/ AcquireFailsOpen(r) \/ StreamStarts(r)
  \/ Processed(r) \/ Release(r) \/ Crash(r)

Next == Expire \/ \E r \in Request : RequestStep(r)

Spec == Init /\ [][Next]_vars

\* Redis expires keys, and a request that has its answer releases the lock.
\* Nothing is assumed of how long a request is processed.
FairSpec == Spec /\ WF_vars(Expire) /\ \A r \in Request : WF_vars(Release(r))
-----------------------------------------------------------------------------
(* Properties *)

Inside == {r \in Request : Working(r)}
Processing == {r \in Request : pc[r] = "processing"}

\* Until a request is let past the lock (by the TTL, a failing Redis or the
\* streaming endpoint) the lock is a mutex: also across crashes, conflicts and
\* releases that fail (session_lock.py:75-120, server.py:103-111).
Mutex == INSTANCE SessionMutex WITH inside <- IF bypassed THEN {} ELSE Processing
IsMutex == Mutex!Spec

\* Until then the key is the holder's while it works: it cannot be deleted by a
\* request that was refused, has crashed, or comes late to its release.
WorkerHoldsLock == ~bypassed => \A r \in Inside : lock = r

\* Whatever the TTL, Redis or the replicas do, a key goes away only by expiry,
\* which moves no request, or by the release of the request whose token it is
\* (lines 9-11): a late holder never frees the lock of its successor.
OnlyHolderReleases ==
  [][lock # "free" /\ lock' # lock => pc' = pc \/ pc'[lock] # pc[lock]]_vars

\* A session is never refused for ever: the key of a crashed holder, or of one
\* whose release failed, goes away.
KeyGoesAway == \A r \in Request \ Streaming :
  lock = r /\ ~Working(r) ~> lock # r
=============================================================================
