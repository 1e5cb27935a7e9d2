SPECIFICATION Spec
CONSTANTS
  g1 = g1
  g2 = g2
  g3 = g3
  home = home
  away = away
  a = a
  b = b
  d = d
  Goroutines <- ThreeGoroutines
  Addresses <- TwoAddresses
  Agents <- ThreeAgents
  Stored <- TwoStored
  Workloads <- NineWorkloads
  MaxTime = 3
  MaxFails = 1
  Window = 2
  Block = 2
  MaxReports = 2
  MaxRecords = 3
  MaxInt = 7
  Keys <- ThreeAgents
  MaxSize = 2
  TTL = 1
  Idle = 1
INVARIANTS
  BlockedIffTooManyFailures
  PrunedAtRest
  LatestUnlessOvertaken
  PagesMissNothing
  RecentlyUsedKept
PROPERTIES
  NewestKept
CHECK_DEADLOCK FALSE
