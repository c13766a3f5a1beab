CONSTANTS
  ReadErrors = FALSE
  MaxPowerLosses = 2
  MaxFrames = 3
  MaxCells = 5
SPECIFICATION Spec
CHECK_DEADLOCK FALSE
INVARIANTS TypeOK SyncedFramesSurvive CommittedFramesRead RepairedOpensFinalized
PROPERTIES RepairKeepsFrames
