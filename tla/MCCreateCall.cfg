CONSTANTS
  bufferSize = 2
  MaxValues = 4
SPECIFICATION Spec
CHECK_DEADLOCK FALSE
INVARIANTS
  RequestsReachMethod
  EndReachesMethod
  FailureEndsCall
