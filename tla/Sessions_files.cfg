SPECIFICATION Spec
CONSTANTS
  Replies = {r1, r2}
  Conns = {c1}
  Loop = Loop
  o1 = o1
  o2 = o2
  OldTurns = {o1, o2}
  Ruled = {r2}
  Labels = {}
  NoName = NoName
  RuledName = RuledName
  MaxId = 3
  OldIds = {1}
  OldIndexed = {1}
  OldFiles <- MCOldFiles
  MaxCalls = 3
  MaxCrashes = 1
  None = None
INVARIANTS TypeOK HistoryKept IndexKept
PROPERTIES DeletionIsFinal
CHECK_DEADLOCK FALSE
