CONSTANTS
  Nodes = {n1, n2}
  Proclets = {p1, p2}
  Home = n1
  MaxCalls = 2
  MaxCreations = 1
  QuietReuse = FALSE
SPECIFICATION Spec
CHECK_DEADLOCK FALSE
INVARIANTS DyingStays
