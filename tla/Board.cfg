SPECIFICATION Spec
CONSTANTS
  Tunes <- Settings
  Scripts <- Patches
  Images <- Files
  MaxPolls = 1
  MaxFaults = 1
  MaxTunes = 2
  MaxCuts = 1
INVARIANTS
  SoundBoardStarts
  OwnValue
  MistakeIsTold
  ModulatesAlone
  PacedInitOnly
  ReadyIsWhole
  LitIsKnown
CHECK_DEADLOCK FALSE
