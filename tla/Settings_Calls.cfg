SPECIFICATION FairSettingsSpec
CONSTANTS
  h1 = h1
  h2 = h2
  Handles <- TwoHandles
  Batchers <- OneHandle
  Settable <- Some
  MaxSets = 2
  InitWrites <- SomeWrites
INVARIANTS RegistersFollow ReadsOwnWrite StoreIsConfig
PROPERTIES HandlesSettle
CHECK_DEADLOCK FALSE
