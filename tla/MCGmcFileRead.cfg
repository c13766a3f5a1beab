CONSTANTS
  ReadErrors = TRUE
  MaxPowerLosses = 0
  MaxFrames = 2
  MaxCells = 5
SPECIFICATION Spec
CHECK_DEADLOCK FALSE
INVARIANT RepairIsLossless
