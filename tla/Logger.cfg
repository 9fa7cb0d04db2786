SPECIFICATION FairSpec
CONSTANTS
  Byte <- MCByte
  Messages = {}
  MaxRead = 0
  Announcements <- MCAnnouncements
  Values = {7, 255}
  Garbage = {17}
  Cursors = {0, 30}
INVARIANTS
  LoggerTypeOK
  BusReleased
  ResultIsOutcome
  PolledIsAnnounced
  Decodes
PROPERTIES
  TextInItsRow
  CyclesOn
