CONSTANTS
  x = x
  bad = bad
  v = v
  t = t
  a = a
  other = other
  Uint32 = 8
  Supported = {"avc", "pcm", "text"}
  Order <- MCOrder
  TrackInfo <- MCTrackInfo
  Timebase <- MCTimebase
  Nano = 2
  FrameTracks = {v, t}
  SourceTags <- MCSourceTags
  Reserved = {"gmc.start", "gmc.other"}
  StartTime = {9}
  Epoch = 5
  Scale = 2
  RelHalf = 2
  RelLimit = 1
  ClusterLimit = 1
  Ranges <- MCRanges
  Selections <- MCSelections
  MaxPTS = 3
  Durations = {2}
  MaxFrames = 3
SPECIFICATION Spec
CHECK_DEADLOCK FALSE
INVARIANTS TypeOK CompletePacketsRead SizesDescribeFile CuesFindKeyframes HeaderSurvives ExportCut
