SPECIFICATION FairFrameSpec
CONSTANTS
  o1 = o1
  FrameSize = 3
  BufferMax = 5
  MaxUnits = 9
  MaxFault = 1
  MaxLeft = 1
  Views <- NoOne
  Others <- OneClient
  MaxRuns = 2
INVARIANTS OwnAnswer FramesInOrder AlignedUnlessCut
PROPERTIES FrameStopEnds
CHECK_DEADLOCK FALSE
