CONSTANTS
  MaxEmitted = 6
SPECIFICATION ObserverFairSpec
PROPERTY EndReported
PROPERTY ImplementsReplay
CHECK_DEADLOCK FALSE
