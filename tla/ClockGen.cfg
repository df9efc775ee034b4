\* One tool, two commands, one request that may be late.  50 MHz can be made exactly,
\* 41.67 MHz cannot, 1300 MHz is out of reach.
SPECIFICATION FairSpec
CONSTANTS
  t1 = t1
  Tools = {t1}
  Rates = {50000, 41670, 1300000}
  ParentKHz = 125000
  Delay = 2
  MaxSlow = 1
  MaxCommands = 2
  NoJob = NoJob
INVARIANTS
  TypeOK
  PatienceSuffices
  AnswersMatch
  SettingIsWhole
  ShowsWhatWasSet
  SettingIsBest
PROPERTIES
  EveryCommandEnds
CHECK_DEADLOCK FALSE
