CONSTANTS
  w1 = w1
  w2 = w2
  w3 = w3
  Write = {w1, w2, w3}
  NoWrite = NoWrite
  Mode <- EachMode
  Cap = 1
  Restorer = {"a", "b"}
  Stops = TRUE
  c1 = c1
  c2 = c2
  p1 = p1
  p2 = p2
  Conn = {c1, c2}
  Provider = {p1, p2}
  ProviderOf <- Apart
  All = All
  Rebuilder = {"w1"}
  Calls = {"provider", "all", "now"}
  MaxOwed = 1
  Prompt = FALSE
  Panel = {"m1", "m2", "m3"}
  MinPanel = 2
  Pool = {"x"}
  PoolLists <- Lists
  Address = {"u", "v"}
  Group = Group
  Seeker = {}
  Editor = {"d", "e"}
  Tester = {"t"}
  NoDirect = FALSE
  MaxEdits = 2
SPECIFICATION QueuesSpec
INVARIANTS
  QueuesTypeOK
  PauseBounds
  StopFlushes
  Coalesced
  SnapshotCurrent
  QuorumOrTimeout
PROPERTIES
  KeepsOrder
  CallersReturn
  SnapshotConverges
  FusionEnds
  VerdictsSettle
