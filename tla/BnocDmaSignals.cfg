\* One signal, delivered wherever a caller can be, mappings that fail or merge pages.
SPECIFICATION Spec
CONSTANTS
  c1 = c1
  c2 = c2
  Callers = {c1, c2}
  None = None
  Slots = 1
  MaxBlocks = 2
  Sizes = {1, 2}
  MaxSignals = 1
  EndsEarly = FALSE
  MapFails = TRUE
  Coalesces = TRUE
SYMMETRY Symmetry
INVARIANTS
  NoLostWakeup
  UnwindIsExact
