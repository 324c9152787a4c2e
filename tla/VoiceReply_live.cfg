SPECIFICATION FairSpec
CONSTANTS
  MaxReplies = 2
  QueueSize = 1
  MaxSentences = 1
  MaxFillers = 0
  MaxBarges = 1
  MaxAnnouncements = 0
  Kinds = {"voice", "task"}
  TTSMayRaise = FALSE
  MayClose = TRUE
PROPERTIES ReplyEnds
CHECK_DEADLOCK FALSE
VIEW LiveView
