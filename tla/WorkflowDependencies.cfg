SPECIFICATION SafeSpec
CONSTANTS
  a = a
  b = b
  p = p
  NoName = NoName
  Names <- TwoAgents
  Paths <- OnePath
  Agents <- TwoAgents
  Registries <- Both
  Workflows <- AllTexts
  Outlines <- NoTexts
  CommandLists <- TwoLists
  Answers <- NoTexts
  SelfDriven = FALSE
  Traditional = TRUE
  SelfSummary = FALSE
  Summary = TRUE
  MaxParallel = 2
  Saves <- MayFail
  Skills <- SomeTrees
INVARIANT
  DependenciesHonoured
