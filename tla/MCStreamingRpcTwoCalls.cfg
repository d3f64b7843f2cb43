CONSTANTS
  c1 = c1
  c2 = c2
  st = st
  fn = fn
  Call = {c1, c2}
  NoCall = NoCall
  Method = {st, fn}
  NoMethod = NoMethod
  MaxId = 3
  clientItemLimit = 1
  MaxRequestValues = 1
  StaticCaller = {c2}
  StreamCaller = {c1}
  StaticPayload = {1}
  SubscribeMode = {"first"}
  MaxSubscribers = 2
  SharedCall = {c1}
  StreamingMethod = {st}
  UnknownMethod = {}
  serverItemLimit = 1
  MaxResponseValues = 1
  MayStop = {}
SPECIFICATION Spec
CHECK_DEADLOCK FALSE
INVARIANTS
  NoCrossTalk
  MethodRunsOnce
