CONSTANTS
  NumCores = 1
  Threads = {t1, t2}
  Proclets = {p, q}
  Aux = {a0, a1}
  Pauser = a0
  MaxStarts = 2
  PromptSwitch = TRUE
SPECIFICATION FairSpec
INVARIANTS HandlersAtRest
PROPERTIES PauseReturns
