SPECIFICATION ScanSpec
CONSTANTS
  Pids <- TablePids
  Carousel <- OnAir
  Room = 2
  MaxServices = 3
  MaxCarriers = 2
  LongestGuess = 3
  MaxLost = 1
  None = None
INVARIANTS
  AsBroadcast
  HeardIsKnown
