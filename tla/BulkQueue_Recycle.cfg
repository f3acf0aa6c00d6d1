SPECIFICATION ManySpec
CONSTANTS
  s1 = s1
  s2 = s2
  SyncReaders <- TwoSync
  WaitList <- TwoSync
  TimedReaders <- TwoSync
  AsyncReaders <- NoReaders
  EagerReaders <- NoReaders
  CloseArmed <- NoReaders
  Skips <- SkipOne
  OverWrite = TRUE
  KeepIfNoReader = FALSE
  CanQuit = FALSE
  MaxPush = 3
INVARIANTS NothingReleasedEarly OnlyOverwriteLoses ManyLeavesNothing
PROPERTY ImplementsStream
CHECK_DEADLOCK FALSE
