CONSTANTS
  c1 = c1
  c2 = c2
  st = st
  Call = {c1, c2}
  NoCall = NoCall
  Method = {st}
  NoMethod = NoMethod
  MaxId = 2
  clientItemLimit = 1
  MaxRequestValues = 2
  StaticCaller = {c2}
  StreamCaller = {c1}
  StaticPayload = {1}
  SubscribeMode = {"all", "first"}
  MaxSubscribers = 2
  SharedCall = {c1}
  ServerBatch <- MCServerBatch
  MaxResponses = 1
SPECIFICATION Spec
CONSTRAINT PromptServer
CHECK_DEADLOCK FALSE
INVARIANTS
  IdsOccupied
PROPERTIES
  UnsubscribesMatchLeavers
  NoRequestAfterItsEnd
