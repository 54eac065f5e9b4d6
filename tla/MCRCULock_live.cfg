CONSTANTS
  Readers = {r1, r2}
  Writers = {w1}
  NumCores = 1
  Width = 3
  MaxNest = 1
  MaxSections = 0
  LoadOrders = {"together", "ver_first"}
SPECIFICATION FairSpec
PROPERTIES WriterReturns
