\* A card with more sectors than the context can number.
SPECIFICATION Spec
CONSTANTS
  NSectors = 3
  SECTOR_SIZE = 1
  ADDR_SPAN = 2
  Byte = {0, 1}
  Zero = 0
  MaxLen = 3
  InitMayFail = FALSE
INVARIANTS
  PutBytesStay
