SPECIFICATION Spec
CONSTANTS
  http = http
  stdio = stdio
  t = t
  u = u
  main = main
  c1 = c1
  c2 = c2
  l1 = l1
  Locks <- TwoLocks
  Servers <- TwoServers
  Stdio <- OneStdio
  Chatty <- OneStdio
  Unstable <- OneStdio
  Configs <- HttpFirst
  Tools <- TwoTools
  Offers <- BothOfferT
  Goroutines <- AllGoroutines
  Main = main
  Calls <- TwoCalls
  Listers <- OneLister
  ToolOf <- AllOfT
INVARIANTS
  OwnAnswers
  ShutdownLetsCallsEnd
PROPERTIES
  CallsAnswered
  ShutdownEnds
  ProcessesEnd
CHECK_DEADLOCK FALSE
