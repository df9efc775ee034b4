\* Two processes, two boards that come and go, a file that is no board.
SPECIFICATION Spec
CONSTANTS
  t1 = t1
  t2 = t2
  Tools = {t1, t2}
  Nodes <- MCNodes
  Others <- MCOthers
  Lines <- MCLines
  OtherDriver = TRUE
  MaxCommands = 2
  MaxChanges = 1
\* After the last command nothing is left to do.
CHECK_DEADLOCK FALSE
INVARIANTS
  TypeOK
  ExitTellsFailure
  ScanFindsEveryBoard
  LevelIsWhatWasAsked
