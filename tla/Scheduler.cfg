SPECIFICATION Spec
CONSTANTS
  a1 = a1
  l1 = l1
  l2 = l2
  t1 = t1
  Agents <- OneAgent
  Interval <- EveryTwoSeconds
  Loops <- TwoLoops
  Triggers <- OneTrigger
  Saves <- Always
  NoLoop = NoLoop
INVARIANTS
  OneLiveLoop
  UnsavedOnlyInRounds
PROPERTIES
  SetBackOnlyInRounds
  StoppedLoopsExit
  AgentsKeepRunning
