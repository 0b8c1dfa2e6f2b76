CONSTANTS
  Sites = {1, 2}
  MaxOps = 3
  MaxClock = 3
  MinCopies = 1
  MaxCopies = 1
  DeletesInOrder = FALSE
  Writers = {1, 2}
  Interactive = {1}
  MaxForgets = 0
  MaySyncFail = FALSE
SPECIFICATION SyncSpec
INVARIANTS
  IdentifiersFresh
CHECK_DEADLOCK FALSE
