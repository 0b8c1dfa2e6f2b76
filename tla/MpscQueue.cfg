CONSTANTS
  Producers = {p1, p2}
  MaxPushes = 2
SPECIFICATION FairSpec
INVARIANTS
  TypeOK
  NoLostPush
PROPERTIES
  ImplementsFifo
  EveryItemTaken
  StopWakesBlocked
CHECK_DEADLOCK FALSE
