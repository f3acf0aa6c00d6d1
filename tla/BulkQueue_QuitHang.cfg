SPECIFICATION FairSpec
CONSTANTS
  s1 = s1
  a1 = a1
  SyncReaders <- OneSync
  TimedReaders <- NoReaders
  AsyncReaders <- NoReaders
  EagerReaders <- NoReaders
  CloseArmed <- NoReaders
  Skips <- NoSkip
  OverWrite = FALSE
  KeepIfNoReader = FALSE
  CanQuit = TRUE
  MaxPush = 1
PROPERTY QuitWakesEveryone
CHECK_DEADLOCK FALSE
