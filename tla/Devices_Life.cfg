SPECIFICATION FairDevicesSpec
CONSTANTS
  p1 = p1
  p2 = p2
  Paths <- TwoPaths
  Rank <- P1First
  Sound <- TwoPaths
  Modes <- FourModes
  MaxPlug = 3
  MaxDevices = 4
  MaxCalls = 2
  MaxQueue = 1
INVARIANTS PointersAlive NothingOpenAtEnd
PROPERTIES FirstIsOpened ProcessEnds
CHECK_DEADLOCK FALSE
