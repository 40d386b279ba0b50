SPECIFICATION Spec
CONSTANTS
  a = a
  b = b
  Runs <- PairRuns
  Items <- PairItems
  RunOf <- PairRunOf
  Keywords <- PairKeywords
  KeywordOf <- PairKeywordOf
  ScheduledRuns <- PairRuns
  PlannedRuns <- PairRuns
  MaxClaims = 2
  MaxTries = 1
  MaxCancels = 1
  Faults = {"cancel_crash", "keyword_paused"}
SYMMETRY Interchangeable
INVARIANTS
  CountersMatchItems
  TerminalRunSettled
PROPERTIES
  OneVerdict
  LedgerSpec
CHECK_DEADLOCK FALSE
