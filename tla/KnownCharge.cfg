SPECIFICATION Spec
CONSTANTS
  t1 = t1
  s1 = s1
  s2 = s2
  p1 = p1
  p2 = p2
  n1 = n1
  c1 = c1
  none = none
  Tasks <- OneTask
  Submitters <- TwoSubmitters
  Inspectors <- OneInspector
  Persisters <- OnePersister
  Cleaners <- OneCleaner
  NoOwner = none
  MaxDisturbances = 0
  Faults = {}
INVARIANTS
  KnownChargeIsRecorded
CHECK_DEADLOCK FALSE
