SPECIFICATION AccountsSpec
CONSTANTS
  c1 = c1
  c2 = c2
  k1 = k1
  k2 = k2
  NoConn = NoConn
  Conn = {c1, c2}
  Gated = {c1}
  Caller = {k1, k2}
  Cap = 1
  Omits = TRUE
  Forgets = TRUE
  MaxToken = 2
  Chat = {k1, k2, "k3"}
  Nobody = Nobody
  LLM = {"m"}
  Egress = {"p"}
  Candidates <- OnlyCands
  NetworkRetries = 1
  RetryLimits = {1}
INVARIANTS AccountsTypeOK GroupStoresNewest OnePastGate GateIsHeldBySomebody OneClaim RunsFinished
PROPERTIES KeepsLedger
SYMMETRY CallerSymmetry
