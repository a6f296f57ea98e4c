CONSTANTS
  c1 = c1
  Conn = {c1}
  NoConn = NoConn
  m1 = m1
  Model = {m1}
  NoModel = NoModel
  r1 = r1
  r2 = r2
  Request = {r1, r2}
  Failures = {"rate_limit"}
  OAuth = FALSE
  MaxAttempts = 2
  QueueCap = 1
  MaxTime = 2
  BanThreshold = 3
  ShortCooldown = 1
  LongCooldown = 1
SPECIFICATION FairSpec
INVARIANTS
  LimitedIsFound
PROPERTIES
  RequestsAdvance
  RequestsEnd
  HealableRecovers
