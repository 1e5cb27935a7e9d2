SPECIFICATION Spec
CONSTANTS
  a = a
  Agents <- OneAgent
  PersistState = TRUE
  MaxRuns = 3
  MaxTime = 3
INVARIANTS
  FileNeverTorn
  CleanMeansSaved
  HistorySane
PROPERTIES
  SavedRunsNeverDecrease
  StoreSpec
