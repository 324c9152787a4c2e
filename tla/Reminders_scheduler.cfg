SPECIFICATION FairSpec
CONSTANTS
  TicksPerDay = 2
  DaysPerWeek = 2
  Change = 0
  None = None
  Ids = {i1, i2}
  Requests <- UsualRequests
  LastTick = 3
  MaxEdits = 1
  MaxCrashes = 1
INVARIANTS TypeOK  Persisted DeletedStaysDeleted
 
CHECK_DEADLOCK FALSE
