CONSTANTS
  TrackIDSpace = 4
  Frames <- MCFrames
  TrackModes <- MCTrackModes
  CheckpointChunks = 3
  MaxTracks = 2
  MaxChunks = 5
  Half = 64
  Nano = 10
  Timebase <- MCTimebase
  StartTimes <- MCStartTimes
  Times <- MCTimes
SPECIFICATION Spec
CHECK_DEADLOCK FALSE
INVARIANTS TypeOK IndexSound CheckpointsCoverIndex AudioSampling RecoveryRebuildsIndex RecoveryRebuildsSummaries FooterIsCache SeekFindsLastSyncPoint InterleavedMissesNothing
