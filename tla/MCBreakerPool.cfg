SPECIFICATION FairSpec
CONSTANTS
  Providers = {p1, p2}
  Callers = {c1, c2, c3}
  NoProvider = NoProvider
  MaxRequests = 2
  MinRequests = 2
  FailNum = 1
  FailDen = 2
  CountLimit = 3
INVARIANTS
  PermitAccounting
  ProbeOutstanding
PROPERTIES
  LateResultsDropped
  Recovers
