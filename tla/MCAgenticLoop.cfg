CONSTANTS
  Loop = {a, s}
  Streaming = {s}
  Server = {m}
  Threshold = 2
  MaxToolSteps = 5
  MaxLoopTokens = 2
  KeepLast = 1
  MaxUses <- Uses
  MaxTurnTokens = 1
SPECIFICATION FairSpec
INVARIANTS ContextPaired VerbatimWindow BudgetOverspend OpenHasCause
PROPERTY LoopEnds
CHECK_DEADLOCK FALSE
