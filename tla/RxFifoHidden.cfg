\* An interrupt within a read leaves a byte behind a status of EMPTY.
SPECIFICATION Spec
CONSTANTS
  Byte = {b1}
  Zero = b1
  FIFO_SIZE = 4
  UsartDepth = 3
  Burst = 1
INVARIANTS
  RefusedOnlyWhenEmpty
CHECK_DEADLOCK FALSE
