CONSTANTS
  Nodes = {n1, n2}
  Threads = {t1, t2}
  AuxConns = {"aux0"}
  HeaderPart = "aux0"
  Home = n1
  MaxRounds = 4
SYMMETRY Symmetry
SPECIFICATION Spec
CHECK_DEADLOCK FALSE
INVARIANTS PresentIsWhole GuardPins NoThreadLeftBehind NoThreadLost
PROPERTIES ImplementsPinned
