CONSTANTS
  NumLPs = 2
  Nodes = {1, 2}
  Isolated = {}
  Binaries = {b1}
  Clusters = 2
  NumSegments = 1
  SegmentSize = 2
  MaxQueue = 2
  EnoughClusters = TRUE
  QuietExit = TRUE
  QuietDestroy = TRUE
SPECIFICATION FairSpec
CHECK_DEADLOCK FALSE
INVARIANTS  SegmentsDisjoint
PROPERTIES DestroyReturns
