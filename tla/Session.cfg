SPECIFICATION FairSpec
CONSTANTS
  MaxDaemons = 2
  MaxConnections = 2
  StatusThreads = {1, 2}
  Room = 1
  MaxAsks = 1
  MaxCuts = 2
INVARIANTS
  DarkAfterShutdown
  NoneLeftBehind
  ReadingOfSession
PROPERTY ShutsDown
CHECK_DEADLOCK FALSE
