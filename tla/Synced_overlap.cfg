CONSTANTS
  Sites = {1, 2}
  MaxOps = 3
  MaxClock = 3
  MinCopies = 1
  MaxCopies = 1
  DeletesInOrder = FALSE
  Writers = {1, 2}
  Interactive = {1}
  MaxForgets = 1
  MaySyncFail = TRUE
SPECIFICATION FairSyncSpec
INVARIANTS
  SyncTypeOK
  BufferingHasACall
  ClockCoversText
  LeftNeighborBefore
PROPERTIES
  SyncEnds
CHECK_DEADLOCK FALSE
