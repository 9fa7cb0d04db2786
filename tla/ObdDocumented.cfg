SPECIFICATION FairSpec
CONSTANTS
  Byte <- MCByte
  Messages = {}
  MaxRead = 0
  Announcements <- OxygenAnnouncements
  Values = {100}
  Garbage = {17}
  Cursors = {0}
INVARIANT AsDocumented
