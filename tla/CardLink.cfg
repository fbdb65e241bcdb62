SPECIFICATION FairSpec
CONSTANTS
  Protocols <- Both
  Skips <- Few
  IdSpace = 65536
  MaxEcms = 3
  MaxUnread = 2
PROPERTIES
  OwnWord
  AsksInTheEnd
  Ends
CHECK_DEADLOCK FALSE
