SPECIFICATION Spec
CONSTANTS
  a = a
  b = b
  Runs <- PairRuns
  Items <- PairItems
  RunOf <- PairRunOf
  Keywords <- PairKeywords
  KeywordOf <- PairKeywordOf
  ScheduledRuns <- None
  PlannedRuns <- None
  MaxClaims = 2
  MaxTries = 1
  MaxCancels = 1
  Faults = {}
INVARIANTS
  GuideIsFollowed
CHECK_DEADLOCK FALSE
