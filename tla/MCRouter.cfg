SPECIFICATION FairSpec
CONSTANTS
  p1 = p1
  p2 = p2
  Requests = {r1, r2}
  Streams = {r1}
  Providers = {p1, p2}
  NoProvider = NoProvider
  Chains <- ChainOrNone
  MaxRetries = 1
  MaxTotal = 4
  BaseBackoff = 4
  MaxBackoff = 5
  DurationLimit = 8
  Draws = {50}
  RetryAfters = {0, 2}
  CallTimes = {1}
  SrcCap = 1
  OutCap = 1
  MaxChunks = 2
  CountLimit = 20
  MaxRequests = 1
  MinRequests = 2
  FailNum = 1
  FailDen = 1
INVARIANTS
  WorkBounded
  PermitDiscipline
  NoSplice
  CleanEndIsComplete
  MidStreamVerdict
PROPERTIES
  ImplementsPool
  CancelledSettles
  UnaryAnswered
