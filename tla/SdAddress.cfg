\* On a standard capacity card, sector number SECTOR_SIZE is byte SECTOR_SIZE,
\* which is in sector 1.
SPECIFICATION Spec
CONSTANTS
  Cards = {"sc"}
  NSectors = 3
  SECTOR_SIZE = 2
  Byte = {0, 7}
  MAX_CMD_TRIALS = 3
  MaxToken = 2
  MaxAck = 2
  MaxInit = 0
INVARIANTS
  WroteAtSector
