CONSTANTS
  Producers = {p1}
  MaxPushes = 1
SPECIFICATION FairSpec
PROPERTIES
  StopEndsPop
CHECK_DEADLOCK FALSE
