SPECIFICATION FairSpec
CONSTANTS
  Cards = {"none", "v1", "sc", "hc"}
  NSectors = 2
  SECTOR_SIZE = 2
  Byte = {0, 254}
  MAX_CMD_TRIALS = 3
  MaxToken = 2
  MaxAck = 2
  MaxInit = 1
INVARIANTS
  SdTypeOK
  GetIsBlock
  PutIsStored
  DoneWhenReturned
  Starts
  EnabledIsReady
  Deselected
PROPERTIES
  OnlyThatBlock
  CallsEnd
