SPECIFICATION AuthFairSpec
CONSTANTS
  c1 = c1
  c2 = c2
  c3 = c3
  g1 = g1
  g2 = g2
  Keys = {k1}
  Callers = {c1, c2, c3}
  Gateways = {g1, g2}
  GatewayOf <- Split
  PosTTL = 2
  NegTTL = 1
INVARIANTS
  OutdatedExpires
PROPERTIES
  
  AuthReturns
  RevocationSticks
