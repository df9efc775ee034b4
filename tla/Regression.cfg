\* Tests that pass, fail, hang and have no image: what the totals and the exit
\* code say.
SPECIFICATION FairSpec
CONSTANTS
  w1 = w1
  w2 = w2
  Workers = {w1, w2}
  Tests = 4
  Kinds = {"pass", "fail", "hang", "no_image"}
  None = None
\* The runner ends.
CHECK_DEADLOCK FALSE
INVARIANTS
  TypeOK
  EachTestOnce
  TotalsAreExact
  SuccessIsEarned
PROPERTIES
  RunnerEnds
