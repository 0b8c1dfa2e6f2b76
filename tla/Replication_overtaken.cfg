CONSTANTS
  Sites = {1, 2}
  MaxOps = 2
  MaxClock = 2
  MinCopies = 1
  MaxCopies = 1
  DeletesInOrder = FALSE
SPECIFICATION Spec
INVARIANTS
  Convergence
CHECK_DEADLOCK FALSE
