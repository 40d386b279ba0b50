SPECIFICATION FairSpec
CONSTANTS
  t1 = t1
  s1 = s1
  s2 = s2
  p1 = p1
  p2 = p2
  n1 = n1
  c1 = c1
  none = none
  Tasks <- OneTask
  Submitters <- TwoSubmitters
  Inspectors <- OneInspector
  Persisters <- TwoPersisters
  Cleaners <- OneCleaner
  NoOwner = none
  MaxDisturbances = 2
  Faults = {"cancel", "cancel_crash", "cutover", "legacy", "workflow_cancelled", "connection_removed"}
INVARIANTS
  BatchTypeOK
  TaskAndCheckAgree
PROPERTIES
  PromiseSpec
  BatchEnds
CHECK_DEADLOCK FALSE
