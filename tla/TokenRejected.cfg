SPECIFICATION Spec
CONSTANTS
  c1 = c1
  c2 = c2
  k1 = k1
  k2 = k2
  NoConn = NoConn
  Conn = {c1}
  Gated = {c1}
  Caller = {k1, k2}
  Cap = 1
  Omits = FALSE
  Forgets = FALSE
  MaxToken = 2
INVARIANT RejectedOnlyIfNewest
