CONSTANTS
  TrackIDSpace = 2
  start = start
  location = location
  other = other
  Keys = {start, location, other}
  Values = {1, 2}
  SlotEntries = 2
  MaxSeq = 4
SPECIFICATION OpenSpec
CHECK_DEADLOCK FALSE
INVARIANT OneGenerationOld
