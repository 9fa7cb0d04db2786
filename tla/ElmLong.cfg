\* The rest of an answer longer than the buffer is read as the next answer.
SPECIFICATION ElmSpec
CONSTANTS
  Byte <- MCByte
  Zero <- MCZero
  FIFO_SIZE = 5
  UsartDepth = 1
  Burst = 1
  NCmds = 2
  Answers <- LongAnswers
  ReadSize = 4
  ArraySize = 4
  PollMayStick = FALSE
INVARIANT OwnBytes
CHECK_DEADLOCK FALSE
