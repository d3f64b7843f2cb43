CONSTANTS
  c1 = c1
  st = st
  Call = {c1}
  NoCall = NoCall
  Method = {st}
  NoMethod = NoMethod
  MaxId = 3
  clientItemLimit = 2
  MaxRequestValues = 2
  StaticCaller = {c1}
  StreamCaller = {c1}
  StaticPayload = {1}
  SubscribeMode = {"all", "first"}
  MaxSubscribers = 1
  SharedCall = {}
  StreamingMethod = {st}
  UnknownMethod = {}
  serverItemLimit = 1
  MaxResponseValues = 2
  MayStop = {"client", "server"}
SPECIFICATION FairSpec
CHECK_DEADLOCK FALSE
INVARIANTS
  RequestsInOrder
  OpenCallsAnswerable
  RequestEndReachesMethod
PROPERTIES
  KeepsPromise
  EndReachesUser
