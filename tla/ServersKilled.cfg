SPECIFICATION SafeSpec
CONSTANTS
  http = http
  stdio = stdio
  t = t
  u = u
  main = main
  c1 = c1
  c2 = c2
  l1 = l1
  Locks <- TwoLocks
  Servers <- TwoServers
  Stdio <- OneStdio
  Chatty <- None
  Unstable <- None
  Configs <- HttpFirst
  Tools <- TwoTools
  Offers <- BothOfferT
  Goroutines <- AllGoroutines
  Main = main
  Calls <- TwoCalls
  Listers <- OneLister
  ToolOf <- AllOfT
INVARIANT
  ServersStay
CHECK_DEADLOCK FALSE
