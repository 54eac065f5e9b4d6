CONSTANTS
  Readers = {r1, r2, r3}
  Writers = {w1}
  NumCores = 2
  Width = 4
  MaxNest = 2
  MaxSections = 3
  LoadOrders = {"together", "ver_first"}
SYMMETRY Symmetry
SPECIFICATION Spec
INVARIANTS CountsMatchSections
 
