SPECIFICATION Spec
CONSTANTS
  Requests <- OneRequest
  CarrierRate = 1
  None = None
  MaxCommands = 2
  MaxFaults = 0
  MaxUnplugs = 0
PROPERTY
  StoppedStaysDark
CHECK_DEADLOCK FALSE
