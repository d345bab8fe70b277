SPECIFICATION LimitSpec
CONSTANTS
  r1 = r1
  r2 = r2
  r3 = r3
  g1 = g1
  g2 = g2
  m1 = m1
  Requests = {r1, r2, r3}
  ApiKey <- SameKey
  Model <- SameModel
  Tokens <- MCTokens
  Scenarios <- MCScenarios
  Skew <- MCSkew
  Drift = 1
  Window = 4
  Slack = 1
  IdleTTL = 4
  MaxLag = 1
  MaxTime = 5
  MaxTries = 2
INVARIANTS
  WindowCap
  NeverLooser

  
