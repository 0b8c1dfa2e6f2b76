CONSTANTS
  a = a
  b = b
  Nodes = {a, b}
  Seeds <- Pair
  Late = {b}
  Stoppers = {b}
  DeadAfter = 3
  Lossy = TRUE
SPECIFICATION FairSpec
INVARIANTS
  
  PeersGetOperations
PROPERTIES
  StoppedForgotten
  BothDiscovered
CHECK_DEADLOCK FALSE
