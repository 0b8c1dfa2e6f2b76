CONSTANTS
  NaN = NaN
  None = None
  Sites = {1, 2}
  MaxOps = 4
  MaxClock = 20
  MinCopies = 0
  MaxCopies = 2
  DeletesInOrder = FALSE
  First = 1
  Ops = 2
  Earlier <- Trials4
SPECIFICATION TrialSpec
INVARIANTS
  TrialTypeOK
  ScriptFits
  WhyTrialFails
  VerdictsAgree
  TalliesAdd
  NextIDFresh
PROPERTIES
  NothingUndone
CHECK_DEADLOCK FALSE
