CONSTANTS
  c1 = c1
  Conn = {c1}
  NoConn = NoConn
  m1 = m1
  Model = {m1}
  NoModel = NoModel
  r1 = r1
  Request = {r1}
  Failures = {"rate_limit", "quota", "auth", "balance", "server"}
  OAuth = FALSE
  MaxAttempts = 2
  QueueCap = 2
  MaxTime = 3
  BanThreshold = 3
  ShortCooldown = 1
  LongCooldown = 2
SPECIFICATION Spec
INVARIANTS
  ActiveIsRoutable
  DisabledIsPersisted
  IInv
