SPECIFICATION FairSpec
CONSTANTS
  Transfers <- Pair
  Chunk = 2
  Size = 4
  Capacity = 2
  None = None
  MaxBytes = 5
INVARIANTS
  TypeOK
  FreedUnused
  LossTold
PROPERTIES
  ImplementsQueue
  Retires
  LossNoticed
CHECK_DEADLOCK FALSE
