CONSTANTS
  c1 = c1
  Conn = {c1}
  NoConn = NoConn
  m1 = m1
  m2 = m2
  Model = {m1, m2}
  NoModel = NoModel
  r1 = r1
  Request = {r1}
  Failures = {"quota"}
  OAuth = TRUE
  MaxAttempts = 1
  QueueCap = 1
  MaxTime = 3
  BanThreshold = 2
  ShortCooldown = 1
  LongCooldown = 1
  AdminActs = {"activate", "ready", "reset", "test"}
  Reports = {"ok", "exhausted"}
SPECIFICATION WriterSpec
SYMMETRY ModelSymmetry
INVARIANTS
  DirectTypeOK
  DisabledForCause
PROPERTIES
  QuotaNeverBypassed
