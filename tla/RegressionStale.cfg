\* A test that no image can be made of, after one that passes.
SPECIFICATION Spec
CONSTANTS
  w1 = w1
  w2 = w2
  Workers = {w1}
  Tests = 2
  Kinds = {"pass", "no_image"}
  None = None
\* The runner ends.
CHECK_DEADLOCK FALSE
INVARIANTS
  SuccessMeansAllPassed
