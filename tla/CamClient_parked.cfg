SPECIFICATION FairSpec
CONSTANTS
  Services <- OneService
  Systems <- OneSystem
  Opened = {"f1"}
  Balky = {}
  ComparesIds = TRUE
  None = None
  MaxChannels = 1
  MaxLate = 1
  RejectsBeforeRotate = 3
PROPERTIES
  ParkedUntilPmt
