SPECIFICATION ProcessSpec
CONSTANTS
  c1 = c1
  c2 = c2
  c3 = c3
  c4 = c4
  Callers <- FourCallers
  Impatient <- OnlyC4
  Cost <- Costs
  Rate = 1
  Burst = 4
  MaxWindow = 6
  Environments <- SomeEnvironments
  DotEnvs <- SomeEnvironments
  Files <- SomeFiles
INVARIANTS
  WindowBounded
  LimitsLeaveRoom
  EnvironmentWins
PROPERTY
  CallersServed
CHECK_DEADLOCK FALSE
