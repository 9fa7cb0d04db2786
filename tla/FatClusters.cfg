SPECIFICATION FatFairSpec
CONSTANTS
  NSectors = 14
  SECTOR_SIZE = 2
  ADDR_SPAN = 16
  Byte <- MCCells
  Zero <- MCZero
  MaxLen = 2
  InitMayFail = FALSE
  Volumes <- SharedVolumes
  Names <- MCNames
  MaxEntries = 4
  LAST <- MCLast
  FAR <- MCFar
  MaxSize = 3
  MaxFailures = 1
INVARIANT ClusterIsDedicated
