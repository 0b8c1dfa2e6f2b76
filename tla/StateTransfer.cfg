CONSTANTS
  x = x
  y = y
  a = a
  b = b
  Clients = {x, y}
  Servers = {a, b}
  Order <- Shared
  MaxVersions = 1
  Crashes = {a}
  Stalls = {y}
  Long = {a}
SPECIFICATION FairSpec
INVARIANTS
  TypeOK
  LoadsFreshDocument
PROPERTIES
  CallReturns
  EveryoneAccepted
CHECK_DEADLOCK FALSE
