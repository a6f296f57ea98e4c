SPECIFICATION BlameSpec
CONSTANTS
  c1 = c1
  m1 = m1
  m2 = m2
  Conn = {c1}
  NoConn = NoConn
  Model = {m1, m2}
  ScopeOf <- Own
  Orders <- EachModel
  Request = {"r1"}
  Failures = {"model"}
  FailureThreshold = 3
  SuccessThreshold = 2
INVARIANTS
  OtherModelsRoutable
