SPECIFICATION FairSpec
CONSTANTS
  Byte = {b1, b2}
  Zero = b1
  FIFO_SIZE = 4
  UsartDepth = 3
  Burst = 1
INVARIANTS
  TypeOK
  NotEmptyMeansReadable
  HiddenBound
PROPERTIES
  QueueSpec
  FullUntilDrained
  FullIsLeft
  BacklogIsRead
CHECK_DEADLOCK FALSE
