SPECIFICATION Spec
CONSTANTS
  MaxReplies = 2
  QueueSize = 1
  MaxSentences = 2
  MaxFillers = 1
  MaxBarges = 1
  MaxAnnouncements = 0
  Kinds = {"voice"}
  TTSMayRaise = FALSE
  MayClose = FALSE
INVARIANTS TypeOK SlotOwner  SentinelRoom
PROPERTIES SlotSpec CompleteBeforeDone
CHECK_DEADLOCK FALSE
