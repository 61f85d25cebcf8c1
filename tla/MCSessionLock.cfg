CONSTANTS
  Request = {r1, r2, r3, r4}
  Streaming = {r4}
  Slow = TRUE
  RedisMayFail = TRUE
SPECIFICATION FairSpec
PROPERTIES
  IsMutex
  OnlyHolderReleases
  KeyGoesAway
CHECK_DEADLOCK FALSE
