CONSTANTS
  Attempt = {a1, a2, a3}
  Rate = 1
  Window = 3
  Delay = 1
  Day = 4
  Cost = 2
  Cap = 3
  MaxClock = 5
  RedisMayRaise = TRUE
  Replica = {r1, r2}
  Request = {q1, q2, q3}
  Budget = 3
  MaxCalls = 2
  MaxTokens = 2
  Overlap = 2
  MayDetach = TRUE
  RedisMayFail = TRUE
SPECIFICATION LimitsSpec
SYMMETRY Symmetry
INVARIANTS RateHeld BudgetHeld CounterIsBill OverspendBounded CounterExpires
CHECK_DEADLOCK FALSE
