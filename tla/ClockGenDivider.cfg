\* A rate that needs an output divider of 128, on a board that is never late.
SPECIFICATION Spec
CONSTANTS
  t1 = t1
  Tools = {t1}
  Rates = {4000}
  ParentKHz = 125000
  Delay = 2
  MaxSlow = 0
  MaxCommands = 1
  NoJob = NoJob
INVARIANTS
  SuccessMeansSet
CHECK_DEADLOCK FALSE
