CONSTANTS
  Scripts <- MCScripts
  Mask <- MCMask
  Outgoing <- MCOutgoing
  MaxSends = 2
  maxIncomingMessage = 4
  NoHeader <- MCNoHeader
SPECIFICATION FairSpec
INVARIANTS
  MessagesIntact
  AllDelivered
  FramesWhole
PROPERTY EventuallyWritten
CHECK_DEADLOCK FALSE
