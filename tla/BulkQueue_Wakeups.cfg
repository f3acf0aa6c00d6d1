SPECIFICATION FairSpec
CONSTANTS
  s1 = s1
  a1 = a1
  SyncReaders <- OneSync
  TimedReaders <- OneSync
  AsyncReaders <- OneAsync
  EagerReaders <- OneAsync
  CloseArmed <- OneAsync
  Skips <- NoSkip
  OverWrite = TRUE
  KeepIfNoReader = FALSE
  CanQuit = TRUE
  MaxPush = 2
INVARIANTS NoMissedWakeup NeverStranded
PROPERTY EventuallyRead
CHECK_DEADLOCK FALSE
