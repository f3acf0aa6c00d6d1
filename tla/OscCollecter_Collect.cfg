SPECIFICATION FairOscSpec
CONSTANTS
  a1 = a1
  o1 = o1
  v1 = v1
  SyncReaders <- NoOne
  TimedReaders <- NoOne
  AsyncReaders <- OneAsync
  EagerReaders <- OneAsync
  CloseArmed <- NoOne
  Skips <- NoSkip
  OverWrite = TRUE
  KeepIfNoReader = FALSE
  CanQuit = FALSE
  MaxPush = 2
  Views <- OneView
  Others <- OneClient
  ReRunners <- OneClient
  MaxRuns = 2
  PoolBulks = 1
  MaxKept = 1
INVARIANTS SingleCollectsOnce OneLoop SeenIsCurrent
PROPERTIES LostWhenFullOnly OscStopEnds ImplementsLoop
CHECK_DEADLOCK FALSE
