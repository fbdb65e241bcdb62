SPECIFICATION FairSpec
CONSTANTS
  Carriers <- Two
  Services = {"news", "film"}
  Pids = {"m1", "m2", "v1", "v2"}
  Programs <- Air
  Lists <- Listed
  Extras <- Tile
  None = None
  MaxCommands = 3
  MaxRuns = 2
INVARIANTS
  TypeOK
  OwnPackets
  ExtraOwnPackets
  ToldTrue
PROPERTIES
  AllAnswered
