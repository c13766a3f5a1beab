CONSTANTS
  Supported = {"avc", "pcm", "text"}
  Uint32 = 8
  RelHalf = 2
  Headers <- MCHeaders
  Clusters <- MCClusters
  Blocks <- MCBlocks
  LateTags <- MCLateTags
  MaxClusters = 2
  MaxBlocks = 3
  MaxLate = 1
  Options <- MCFineOptions
  Reserved = "gmc.start"
  Epoch = 5
  TagsRoom = 2
  MaxRuns = 1
SPECIFICATION Spec
CHECK_DEADLOCK FALSE
INVARIANTS ImportCutExact
