SPECIFICATION PartSpec
CONSTANTS
  c1 = c1
  c2 = c2
  m1 = m1
  m2 = m2
  r1 = r1
  r2 = r2
  Conn = {c1, c2}
  NoConn = NoConn
  Model = {m1, m2}
  ScopeOf <- OneFamily
  Orders <- InOrder
  Request = {r1, r2}
  Failures = {"model", "server"}
  FailureThreshold = 2
  SuccessThreshold = 1
INVARIANTS
  RoutingTypeOK
  BreakerKept
PROPERTIES
  RoutingAdvances
SYMMETRY Symmetric
