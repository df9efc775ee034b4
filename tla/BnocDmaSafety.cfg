\* Reads and writes of one block, or of two fillings of the queue, that no signal
\* interrupts, messages that end early.  Liveness allows no symmetry.
SPECIFICATION FairSpec
CONSTANTS
  c1 = c1
  c2 = c2
  Callers = {c1, c2}
  None = None
  Slots = 2
  MaxBlocks = 4
  Sizes = {1, 4}
  MaxSignals = 0
  EndsEarly = TRUE
  MapFails = FALSE
  Coalesces = FALSE
INVARIANTS
  TypeOK
  OneFeederPerQueue
  NoCommandLost
  NoDmaAfterUnmap
PROPERTIES
  PromiseSpec
  CallsReturn
