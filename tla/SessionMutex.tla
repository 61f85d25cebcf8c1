---------------------------- MODULE SessionMutex ----------------------------
(***************************************************************************)
(* What a session lock promises (src/core/session_lock.py, lines 1-11):    *)
(* requests of one session are processed one at a time.  Requests may be   *)
(* refused; that is no step of this specification.                         *)
(***************************************************************************)
CONSTANT Request

VARIABLE inside   \* the requests being processed

Init == inside = {}

Enter(r) == inside = {} /\ inside' = {r}
Leave(r) == inside = {r} /\ inside' = {}

Next == \E r \in Request : Enter(r) \/ Leave(r)

Spec == Init /\ [][Next]_inside
=============================================================================
