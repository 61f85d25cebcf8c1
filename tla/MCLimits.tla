------------------------------- MODULE MCLimits -------------------------------
(* What a user may ask for, and what a session may spend.  The two keep nothing in   *)
(* common, the one at the gateway and the other at the supervisor, so that any order *)
(* of their steps has what each of them does by itself: a behaviour is of the one or *)
(* of the other.                                                                     *)
EXTENDS AdmissionGuard, TokenBudget, TLC

LimitsInit == GuardInit /\ Init

\* One initial state of the budget is enough for the guards.
Somewhere == CHOOSE r \in Replica : TRUE
AtRest ==
  Init /\ home = [q \in Request |-> Somewhere] /\ attached = [r \in Replica |-> TRUE]

LimitsNext ==
  \/ AtRest /\ GuardNext /\ UNCHANGED vars
  \/ GuardInit /\ Next /\ UNCHANGED guardVars

LimitsSpec == LimitsInit /\ [][LimitsNext]_<<guardVars, vars>>

\* Attempts are interchangeable.
Symmetry == Permutations(Attempt)
=============================================================================
