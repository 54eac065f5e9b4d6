CONSTANTS
  Nodes = {n1, n2}
  Proclets = {p1, p2}
  Home = n1
  MaxCalls = 2
  MaxCreations = 1
  QuietReuse = TRUE
SPECIFICATION FairSpec
CHECK_DEADLOCK FALSE
INVARIANTS OneHome RoundsAgree  DyingStays
PROPERTIES MigrateEnds ImplementsHomes
