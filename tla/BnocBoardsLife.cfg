\* Three devices for two board numbers, two files, calls one at a time: the safety properties of a driver in good hands.
SPECIFICATION Spec
CONSTANTS
  d1 = d1
  d2 = d2
  d3 = d3
  f1 = f1
  f2 = f2
  Devices = {d1, d2, d3}
  Files = {f1, f2}
  None = None
  NumBoards = 2
  OneAtATime = TRUE
  UnplugWhileOpen = FALSE
\* The module is loaded once: gone and failed are final.
CHECK_DEADLOCK FALSE
INVARIANTS
  TypeOK
  LevelTellsHardware
  ListIsAlive
  NodesAreSound
  NoMisuse
PROPERTIES
  NumberIsKept
