SPECIFICATION FairThreadsSpec
CONSTANTS
  Registrations <- MCRegistrations
  MaxPosts = 3
INVARIANTS UnlockedIsSafe OutlivedIsRun ToldOnce
PROPERTY ShutdownEnds
CHECK_DEADLOCK FALSE
