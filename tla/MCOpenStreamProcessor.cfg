CONSTANTS
  st = st
  fn = fn
  nope = nope
  Call = {}
  NoCall = NoCall
  Method = {st, fn, nope}
  NoMethod = NoMethod
  StreamingMethod = {st}
  UnknownMethod = {nope}
  MaxId = 2
  serverItemLimit = 2
  MaxResponseValues = 2
  ClientBatch <- MCClientBatch
  MaxCalls = 2
  MaxRequests = 1
SPECIFICATION Spec
CONSTRAINT PromptClient
CHECK_DEADLOCK FALSE
INVARIANTS
  ActiveCallsUnended
PROPERTIES
  NoResponseAfterItsEnd
