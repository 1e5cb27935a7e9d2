SPECIFICATION SummarySpec
CONSTANTS
  a1 = a1
  c1 = c1
  c2 = c2
  Calls <- TwoCalls
  Agents <- OneAgent
  AgentOf <- AllOfOne
  Registered <- OneAgent
  Cancellable <- OnlyC1
  Files <- NoFile
  MaxAgents = 1
  MaxAttempts = 2
  Threshold = 1
  OpenTimeout = 1
  MaxTime = 0
INVARIANTS
  SummaryCountsHistory
  SummaryExplainsOpen
PROPERTY
  CallsReturn
CHECK_DEADLOCK FALSE
