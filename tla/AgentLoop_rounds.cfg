SPECIFICATION FairSpec
CONSTANTS
  MaxToolRounds = 2
  ToolRetries = 1
  MalformedRetries = 1
  MaxContinuations = 1
  Workers = 2
  MaxCalls = 2
  MaxDeltas = 1
  MaxReplies = 2
  None = None
INVARIANTS TypeOK ExchangeSound
PROPERTIES LoopEnds
CHECK_DEADLOCK FALSE
