CONSTANTS
  Combo = {x1, x2}
  NoCombo = NoCombo
  Name = {u1, u2}
  NoName = NoName
  ComboStep = {"s"}
  Admin = {k1, k2}
  Rotated = {x1, x2}
  Flusher = {k1, k2}
  Resetter = {"r"}
  NoReset = "none"
  MaxCount = 2
  x1 = x1
  x2 = x2
  u1 = u1
  u2 = u2
  Pool = {x1, x2}
  PoolLists <- Lists
  Address = {u1, u2}
  Group = Group
  Seeker = {"q"}
  Editor = {"e"}
  Tester = {}
  NoDirect = FALSE
  MaxEdits = 1
  k1 = k1
  k2 = k2
SPECIFICATION TablesSpec
INVARIANTS
  TablesTypeOK
  RoutedAsStored
  OneSleeper
  NeverAhead
  PicksAreSaved
  CacheCurrent
  CandidatesKept
SYMMETRY Symmetry
