SPECIFICATION Spec
CONSTANTS
  Services <- TwoServices
  Systems <- OneEach
  Opened = {"n1", "f1"}
  Balky = {"n1"}
  ComparesIds = FALSE
  None = None
  MaxChannels = 2
  MaxLate = 1
  RejectsBeforeRotate = 1
INVARIANTS
  GenerationTellsKeys
  NoForeignKey
