\* One replica, a streaming and a plain request at a time, a cache entry that holds
\* for one tick of three.
CONSTANTS
  Replica = {r1}
  Request = {q1, s1}
  Streamed = {s1}
  Name <- Names
  Under <- UnderscoreForm
  Hyphen <- HyphenForm
  Allowed <- Tools
  Listing <- Listings
  Ttl = 1
  Delay = 1
  Horizon = 2
  RedisMayFail = TRUE
  TraceOff = FALSE
  MaxSteps = 1
  Threshold = 1
  MaxRestarts = 1
  Down = Down
  None = None
  Refused = Refused
SPECIFICATION FairSpecialistSpec
INVARIANTS OfferedToolCalled CatalogueAge ContextAge ProbesBounded StreamWellFormed
PROPERTIES DatasourcesRefined AnswerEnds
CHECK_DEADLOCK FALSE
