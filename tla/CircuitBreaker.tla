--------------------------- MODULE CircuitBreaker ---------------------------
(***************************************************************************)
(* src/core/circuit_breaker.py without Redis, as bedrock.py and            *)
(* agentic_loop.py construct it.  A breaker is a value; its methods run on *)
(* the event loop and await nothing, so a method is one operator.          *)
(* "cooled" stands for time.time() - last_failure_time >= recovery_timeout.*)
(***************************************************************************)
EXTENDS Integers

CONSTANT Threshold   \* failure_threshold

ASSUME ThresholdAssumption == Threshold \in Nat \ {0}

Breaker == [state : {"closed", "open", "half_open"},
            failures : Nat,
            cooled : BOOLEAN]

\* last_failure_time starts at 0, long ago.
NewBreaker == [state |-> "closed", failures |-> 0, cooled |-> TRUE]

CanExecute(b) == b.state # "open" \/ b.cooled

\* can_execute() moves an OPEN breaker whose timeout has passed to HALF_OPEN.
AfterCanExecute(b) ==
  [b EXCEPT !.state = IF @ = "open" /\ b.cooled THEN "half_open" ELSE @]

AfterSuccess(b) == [b EXCEPT !.state = "closed", !.failures = 0]

AfterFailure(b) ==
  [state    |-> IF b.failures + 1 >= Threshold THEN "open" ELSE b.state,
   failures |-> b.failures + 1,
   cooled   |-> FALSE]

\* The recovery timeout passes.
AfterCooling(b) == [b EXCEPT !.cooled = TRUE]
=============================================================================
