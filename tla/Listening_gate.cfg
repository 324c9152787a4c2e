SPECIFICATION FairSpec
CONSTANTS
  Consoles = {c1, c2}
  Replies = {r1, r2}
  Loop = Loop
  None = None
  Timeout = 1
INVARIANTS TypeOK 
PROPERTIES GoesToSleep
CHECK_DEADLOCK FALSE
