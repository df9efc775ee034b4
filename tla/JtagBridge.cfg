\* OpenOCD scans the registers of the TAP and of the debug module, and may hang up.
SPECIFICATION FairSpec
CONSTANTS
  a1 = a1
  v1 = v1
  v2 = v2
  Addrs = {a1}
  Data = {v1, v2}
  Zero = v1
  None = None
  Paths <- MCPaths
  Delay = 2
  MaxInFlight = 2
\* The simulation may end.
CHECK_DEADLOCK FALSE
INVARIANTS
  TypeOK
  InStep
PROPERTIES
  WritesAreSpaced
  AccessSpec
  ScanIsAnswered
