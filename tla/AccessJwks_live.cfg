CONSTANTS
  Requests = {r1, r2}
  Kids = {k1, k2}
  TTL = 1
  MaxClock = 2
  MaxKeyChanges = 1
  NoFetch = NoFetch
SPECIFICATION FairSpec
CHECK_DEADLOCK FALSE
PROPERTIES
  EveryRequestAnswered
