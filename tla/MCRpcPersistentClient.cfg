CONSTANTS
  MaxChannels = 3
  Calls = {x, y}
SPECIFICATION FairSpec
INVARIANTS
  NoStrayChannel
  OpenTracksChannel
  StaleFirst
PROPERTIES
  Reconnects
  CallsSettle
CHECK_DEADLOCK FALSE
