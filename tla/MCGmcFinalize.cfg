CONSTANTS
  TrackIDSpace = 4
  Frames <- MCFrames
  TrackModes <- MCTrackModes
  CheckpointChunks = 3
  MaxTracks = 1
  MaxChunks = 4
  Half = 64
  Nano = 10
  Timebase <- MCTimebase
  StartTimes <- MCStartTimes
  Times <- MCTimes
SPECIFICATION Spec
CHECK_DEADLOCK FALSE
INVARIANT FinalizedFileLoadsFooter
