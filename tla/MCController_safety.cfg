CONSTANTS
  NumLPs = 1
  Nodes = {1, 2, 3}
  Isolated = {2}
  Binaries = {b1, b2}
  Clusters = 3
  NumSegments = 1
  SegmentSize = 2
  MaxQueue = 3
  EnoughClusters = TRUE
  QuietExit = TRUE
  QuietDestroy = TRUE
SYMMETRY Symmetry
SPECIFICATION Spec
CHECK_DEADLOCK FALSE
INVARIANTS LPInv AcquiredOnce  SearchEnds OneBinaryPerLP LocationTold
