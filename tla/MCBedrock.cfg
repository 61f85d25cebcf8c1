CONSTANTS
  Call = {c1, c2, c3, c4}
  Limit = 2
  Threads = 2
  Threshold = 2
  MaxRetries = 1
SPECIFICATION Spec
SYMMETRY Symmetry
INVARIANTS
  PermitsAccounted
  NoIdlePermit
CHECK_DEADLOCK FALSE
