\* The instance of MCOrchestration.cfg, with evidence as it is parsed.
CONSTANTS
  a = a
  b = b
  None = None
  Request = {s, p}
  Streams = {s}
  Roster <- Agents
  Agentic = {a}
  MaxAgents = 2
  MaxInvestigators = 2
  MaxMatches = 3
  AgentLimit = 2
  SessionLimit = 3
  Tokens <- MessageTokens
  AgentTokens = 3
  ClassifierTokens = 2
  Unset = Unset
  Piece <- Parsed
  MaxEvidence = 3
SPECIFICATION BothSpec
INVARIANT ThreeSignalsAreHigh
CHECK_DEADLOCK FALSE
