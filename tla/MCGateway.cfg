\* Two pooled requests compete for one slot while a streaming one bypasses it.
CONSTANTS
  Replica = {r1}
  Job = {j1, j2, s1}
  Streaming = {s1}
  Max = 1
  MaxChunks = 1
  RedisMayFail = FALSE
SPECIFICATION FairGwSpec
INVARIANT AcceptedCancelIsPending
PROPERTIES PoolRefined RequestAnswered
CHECK_DEADLOCK FALSE
