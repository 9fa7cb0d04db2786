SPECIFICATION Spec
CONSTANTS
  NSectors = 3
  SECTOR_SIZE = 2
  ADDR_SPAN = 4
  Byte = {0, 1}
  Zero = 0
  MaxLen = 2
  InitMayFail = TRUE
INVARIANTS
  IOTypeOK
  PutBytesStay
  FreshBeyondFirst
PROPERTIES
  StoreSpec
  StaleOnlyByFlush
