SPECIFICATION FairSpec
CONSTANTS
  Replies = {r1, r2, r3, r4}
  None = None
  Kinds = {"task"}
  KeepRecent = 1
  ResetEvery = 2
  MaxContinuations = 1
  Serial = FALSE
  MaxCrashes = 1
  
PROPERTIES CompactionEnds
CHECK_DEADLOCK FALSE
