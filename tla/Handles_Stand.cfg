SPECIFICATION FairHandlesSpec
CONSTANTS
  Waves = {"CAN_H", "CAN_L"}
  TriggerWave = "CAN_H"
  PartWave = "CAN_H"
  Ranges <- TwoRanges
  Div = 2
  Sizes = {2, 4}
  Start = 2
  Width = 3
  Lines = {"vertical"}
  MaxEdits = 2
  MaxQueue = 1
INVARIANTS ScreenStands
PROPERTIES LineKeepsPlace SettlesAtRelease
CHECK_DEADLOCK FALSE
