SPECIFICATION Spec
CONSTANTS
  p1 = p1
  p2 = p2
  Requests = {r1}
  Streams = {r1}
  Providers = {p1, p2}
  NoProvider = NoProvider
  Chains <- FullChain
  MaxRetries = 1
  MaxTotal = 0
  BaseBackoff = 2
  MaxBackoff = 3
  DurationLimit = 4
  Draws = {0, 50}
  RetryAfters = {0}
  CallTimes = {0}
  SrcCap = 1
  OutCap = 1
  MaxChunks = 3
  CountLimit = 20
  MaxRequests = 1
  MinRequests = 1
  FailNum = 1
  FailDen = 2
INVARIANTS
  CancelIsCleanObservation
