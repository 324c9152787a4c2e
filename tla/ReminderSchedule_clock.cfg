SPECIFICATION ClockSpec
CONSTANTS
  TicksPerDay = 4
  DaysPerWeek = 4
  Change = 18
  Jump = 4
  LastInstant = 40
  None = None
INVARIANTS DueInFuture NoneSkipped AtWallClock
CHECK_DEADLOCK FALSE
