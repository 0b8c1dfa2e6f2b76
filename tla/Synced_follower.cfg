CONSTANTS
  Sites = {1, 2}
  MaxOps = 4
  MaxClock = 4
  MinCopies = 1
  MaxCopies = 1
  DeletesInOrder = TRUE
  Writers = {2}
  Interactive = {1}
  MaxForgets = 0
  MaySyncFail = FALSE
SPECIFICATION FairSyncSpec
INVARIANTS
  NothingLost

  
CHECK_DEADLOCK FALSE
