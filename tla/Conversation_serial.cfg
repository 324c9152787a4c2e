SPECIFICATION Spec
CONSTANTS
  Replies = {r1, r2, r3, r4}
  None = None
  Kinds = {"ask", "continue", "fixed", "task"}
  KeepRecent = 4
  ResetEvery = 2
  MaxContinuations = 1
  Serial = TRUE
  MaxCrashes = 0
SYMMETRY Symmetry
INVARIANTS TypeOK  
CHECK_DEADLOCK FALSE
