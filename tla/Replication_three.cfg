CONSTANTS
  Sites = {1, 2, 3}
  MaxOps = 4
  MaxClock = 3
  MinCopies = 1
  MaxCopies = 1
  DeletesInOrder = TRUE
SPECIFICATION Spec
INVARIANTS
  TypeOK
  PendingBlocked
  OrderAgreement
  
PROPERTIES
  InsertIntent
CHECK_DEADLOCK FALSE
