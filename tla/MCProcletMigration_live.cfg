CONSTANTS
  Nodes = {n1, n2}
  Threads = {t1}
  AuxConns = {"aux0"}
  HeaderPart = "aux0"
  Home = n1
  MaxRounds = 2
SPECIFICATION FairSpec
CHECK_DEADLOCK FALSE
PROPERTIES RoundFinishes ParkedGetsGuard
