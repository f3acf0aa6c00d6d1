SPECIFICATION Spec
CONSTANTS
  DeviceKs = {8}
  FrameConfigs <- MCFrameConfigs
  Ranges = {0, 5}
  Offsets <- MCOffsets
  TimeBases = {0, 15}
  TimeOffsets <- MCTimeOffsets
  Levels <- MCLevels
  MaxCalls = 2
INVARIANT DeviceUnderstands
CHECK_DEADLOCK FALSE
