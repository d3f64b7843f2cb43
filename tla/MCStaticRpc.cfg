CONSTANTS
  itemLimit = 2
  MaxPushes = 3
  IdLimit = 2
  Clients <- MCClients
SPECIFICATION StaticFairSpec
INVARIANTS
  NothingLost
  OwnAnswer
  FailureContained
  NothingKept
PROPERTY CallsSettle
CHECK_DEADLOCK FALSE
