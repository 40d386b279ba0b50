SPECIFICATION Spec
CONSTANTS
  a = a
  b = b
  Runs <- SoloRuns
  Items <- SoloItems
  RunOf <- SoloRunOf
  Keywords <- SoloKeywords
  KeywordOf <- SoloKeywordOf
  ScheduledRuns <- SoloRuns
  PlannedRuns <- None
  MaxClaims = 2
  MaxTries = 1
  MaxCancels = 1
  Faults = {}
INVARIANTS
  CancellingAwaitsWork
CHECK_DEADLOCK FALSE
