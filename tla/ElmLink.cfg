SPECIFICATION ElmFairSpec
CONSTANTS
  Byte <- MCByte
  Zero <- MCZero
  FIFO_SIZE = 4
  UsartDepth = 2
  Burst = 1
  NCmds = 3
  Answers <- ShortAnswers
  ReadSize = 5
  ArraySize = 5
  PollMayStick = TRUE
INVARIANTS
  ElmTypeOK
  Attribution
  LineQuiet
  PollHolds
  NothingLost
PROPERTIES
  EndsUnlessStranded
CHECK_DEADLOCK FALSE
