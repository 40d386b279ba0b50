SPECIFICATION SharedSpec
CONSTANTS
  a = a
  b = b
  Runs <- SharedRuns
  Items <- SharedItems
  RunOf <- SharedRunOf
  Keywords <- SharedKeywords
  KeywordOf <- SharedKeywordOf
  ScheduledRuns <- SharedScheduled
  PlannedRuns <- None
  MaxClaims = 2
  MaxTries = 1
  MaxCancels = 2
  Faults = {"cancel_crash", "keyword_paused"}
INVARIANTS
  OneRunningItemPerKeyword
  ItemMatchesCheck
  PaidOnce
PROPERTIES
  LaunchedRunEnds
CHECK_DEADLOCK FALSE
