SPECIFICATION Spec
CONSTANTS
  a1 = a1
  a2 = a2
  c1 = c1
  c2 = c2
  c3 = c3
  c4 = c4
  Calls <- FourCalls
  Agents <- TwoAgents
  AgentOf <- OneUnknown
  Registered <- OneAgent
  Cancellable <- ThreeCalls
  MaxAgents = 2
  MaxAttempts = 2
  Threshold = 2
  OpenTimeout = 1
  MaxTime = 2
SYMMETRY CallSymmetry
INVARIANTS
  OpenShutsOut
  RecordsAgree
  SlotsAccounted
  DeadlineIffThreshold
PROPERTY
  ClosedEarlyOnlyByLateAnswer
CHECK_DEADLOCK FALSE
