SPECIFICATION FairSpec
CONSTANTS
  Services <- OneService
  Systems <- TwoSystems
  Opened = {"f2"}
  Balky = {"f2"}
  ComparesIds = TRUE
  None = None
  MaxChannels = 1
  MaxLate = 1
  RejectsBeforeRotate = 3
INVARIANTS
  TypeOK
  AskedFollows
PROPERTIES
  Descrambles
