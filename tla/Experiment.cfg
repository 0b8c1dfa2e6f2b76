CONSTANTS
  NaN = NaN
  None = None
  NPeers = 3
  Writers = {0, 1}
  Late = {2}
  WithDeletes = TRUE
  MaxOps = 2
  Copies <- TwiceToPeer1
  Skews <- Clocks
  Units = {"us", "ms"}
  TickLength = 1400
  EndTime = 1400
SPECIFICATION Spec
INVARIANTS
  DropsAreLost
  LatencyOfFirstPeer
  NegativeHasACause
  ConvergenceIsLastApply
  ScriptsAgree
  PercentilesBelowNearestRank
CHECK_DEADLOCK FALSE
