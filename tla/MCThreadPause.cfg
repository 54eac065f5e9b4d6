CONSTANTS
  NumCores = 2
  Threads = {t1, t2}
  Proclets = {p}
  Aux = {a0}
  Pauser = a0
  MaxStarts = 1
  PromptSwitch = TRUE
SPECIFICATION Spec
SYMMETRY Symmetry
INVARIANTS OnePlace PausedIsStopped 
PROPERTIES ImplementsAtomicPause
