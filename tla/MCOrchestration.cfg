\* Two agents and a cap of two of them; a classifier that may name three; a streaming and a
\* plain request, each of which may force either agent, ask for an investigation, or
\* neither.  A page and a window are shorter than what two answered requests of one agent
\* leave.  Every sequence of up to four pieces of evidence.
CONSTANTS
  a = a
  b = b
  None = None
  Request = {s, p}
  Streams = {s}
  Roster <- Agents
  Agentic = {a}
  MaxAgents = 2
  MaxInvestigators = 2
  MaxMatches = 3
  AgentLimit = 2
  SessionLimit = 3
  Tokens <- MessageTokens
  AgentTokens = 3
  ClassifierTokens = 2
  Unset = Unset
  Piece <- Pieces
  MaxEvidence = 4
SPECIFICATION BothSpec
INVARIANTS HistoryPaired RefusalWins CountedOnce AgentSeesRecent SignalsAreComponents
PROPERTIES RequestsEnd DropHasCause
CHECK_DEADLOCK FALSE
