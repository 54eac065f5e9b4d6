CONSTANTS
  Nodes = {n1, n2}
  Home = n1
  Threads = {t1}
  Callers = {t1}
  MaxMoves = 3
SPECIFICATION FairSpec
INVARIANTS CallInv CalleeIsThere ReturnerKept
PROPERTIES ImplementsCalls CallReturns FreedOrForgotten
