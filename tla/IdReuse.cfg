CONSTANTS
  MaxChannels = 3
  Calls = {x, y}
SPECIFICATION Spec
INVARIANT IdsUnique
CHECK_DEADLOCK FALSE
