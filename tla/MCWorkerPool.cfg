\* Two replicas, two jobs: both on one replica (one is rejected) or one on each.
CONSTANTS
  Replica = {r1, r2}
  Job = {j1, j2}
  Max = 1
  MaxChunks = 1
  RedisMayFail = TRUE
SPECIFICATION FairSpec
INVARIANTS SlotsAccounted CancelledOnlyOnRequest
PROPERTIES SlotReleased
CHECK_DEADLOCK FALSE
