\* A signal in either wait and what the board still has to move.
SPECIFICATION Spec
CONSTANTS
  c1 = c1
  c2 = c2
  Callers = {c1, c2}
  None = None
  Slots = 2
  MaxBlocks = 3
  Sizes = {1, 2, 3}
  MaxSignals = 1
  EndsEarly = FALSE
  MapFails = FALSE
  Coalesces = FALSE
SYMMETRY Symmetry
INVARIANTS
  NoDmaAfterUnmap
