SPECIFICATION FairSpec
CONSTANTS
  a = a
  b = b
  Runs <- SoloRuns
  Items <- SoloItems
  RunOf <- SoloRunOf
  Keywords <- SoloKeywords
  KeywordOf <- SoloKeywordOf
  ScheduledRuns <- None
  PlannedRuns <- None
  MaxClaims = 2
  MaxTries = 2
  MaxCancels = 2
  Faults = {"cancel_crash", "keyword_paused"}
INVARIANTS
  TypeOK
  ItemMatchesCheck
  PaidOnce
  FreeCancelIsUnpaid
PROPERTIES
  OneVerdict
  LedgerSpec
  LaunchedRunEnds
CHECK_DEADLOCK FALSE
