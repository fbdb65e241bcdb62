SPECIFICATION FairSpec
CONSTANTS
  Requests <- AllRequests
  CarrierRate = 1
  None = None
  MaxCommands = 2
  MaxFaults = 1
  MaxUnplugs = 1
INVARIANTS
  TypeOK
  TuneExclusive
  TunedMeansDishSet
  DarkAfterExit
PROPERTIES
  MonitorSparesCarrier
  Recovers
CHECK_DEADLOCK FALSE
