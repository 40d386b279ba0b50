SPECIFICATION ServicesSpec
CONSTANTS
  a0 = a0
  a1 = a1
  a2 = a2
  p1 = p1
  p2 = p2
  r1 = r1
  r2 = r2
  r3 = r3
  none = none
  TrackerFaults = 1
  Requests <- ThreeRequests
  Journals <- TwoJournals
  NoJournal = none
  Limit = 2
SYMMETRY Interchangeable
INVARIANTS
  SentOnce
  PendingIsUnsent
  DigestedArrived
  WrittenOffIsUnsent
  OneJournalUnresolved
  WithinLimit
  FreedWhenProven
  CompleteIsFreed
  WorkIsNotRepeated
  PausedIsQuiet
  FreeIsUnsent
  RetryIsSafe
  RunMatchesSamples
PROPERTIES
  FinishedStays
CHECK_DEADLOCK FALSE
