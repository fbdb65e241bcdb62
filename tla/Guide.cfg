SPECIFICATION Spec
CONSTANTS
  Services = {"a", "b"}
  Eit <- OnAir
  Room = 2
  Full = 5
  Slots = 4
  Clock = 3
  MaxLost = 1
  MaxChanges = 2
  None = None
INVARIANTS
  NowOfService
  Reheard
CHECK_DEADLOCK FALSE
