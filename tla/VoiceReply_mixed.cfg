SPECIFICATION Spec
CONSTANTS
  MaxReplies = 2
  QueueSize = 1
  MaxSentences = 1
  MaxFillers = 0
  MaxBarges = 1
  MaxAnnouncements = 1
  Kinds = {"typed", "silent", "task", "reminder"}
  TTSMayRaise = TRUE
  MayClose = FALSE
INVARIANTS FreshAudioPlayed UiRests
CHECK_DEADLOCK FALSE
