CONSTANTS
  Sites = {1, 2}
  User = 1
  MaxOps = 3
  MaxClock = 4
  MinCopies = 1
  MaxCopies = 2
  DeletesInOrder = FALSE
SPECIFICATION CursorSpec
INVARIANTS
  CursorKeepsPlace
  DiesOfRaceOnly
CHECK_DEADLOCK FALSE
