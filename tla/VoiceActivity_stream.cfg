SPECIFICATION Spec
CONSTANTS
  Window = 2
  Pad = 3
  MinSpeech = 6
  MinSilence = 3
  Reopen = 2
  MaxSpeech = 11
  RingExtra = 2
  MaxWindows = 13
  MaxBreaks = 2
  None = None
INVARIANTS TypeOK 
CHECK_DEADLOCK FALSE
