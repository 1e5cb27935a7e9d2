SPECIFICATION SafeSpec
CONSTANTS
  a = a
  b = b
  p = p
  NoName = NoName
  Names <- TwoAgents
  Paths <- OnePath
  Agents <- TwoAgents
  Registries <- Both
  Workflows <- NoTexts
  Outlines <- DescriptionsOrNoPlan
  CommandLists <- TwoLists
  Answers <- NoTexts
  SelfDriven = TRUE
  Traditional = TRUE
  SelfSummary = TRUE
  Summary = TRUE
  MaxParallel = 2
  Saves <- MayFail
  Skills <- SomeTrees
INVARIANT
  PlansNameAgents
