SPECIFICATION Spec
CONSTANTS
  a = a
  b = b
  p = p
  NoName = NoName
  Names <- TwoAgents
  Paths <- OnePath
  Agents <- TwoAgents
  Registries <- AllOrNone
  Workflows <- Undemanding
  Outlines <- DescriptionsOrNoPlan
  CommandLists <- TwoLists
  Answers <- AllTexts
  SelfDriven = TRUE
  Traditional = TRUE
  SelfSummary = TRUE
  Summary = TRUE
  MaxParallel = 2
  Saves <- MayFail
  Skills <- SomeTrees
INVARIANTS
  DependenciesHonoured
  SkippedNeverRun
  StepsKeepApart
  PlanCarriedOut
  OnlyScannedSkillsLost
PROPERTIES
  RoundsEnd
  LeftBySummaryOrFailure
