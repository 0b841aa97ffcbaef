CONSTANTS
  r1 = r1
  r2 = r2
  r3 = r3
  r4 = r4
  Role = {r1, r2, r3, r4}
  GrantRole = {r1, r2}
  ViaRole = {r3}
  FetchRole = {r3}
  HistoryLimit = 3
  HistoryMinutes = 1
  Lifetimes = {1}
  MaxTime = 2
SYMMETRY Symmetry
SPECIFICATION Spec
CHECK_DEADLOCK TRUE
INVARIANTS
  CacheInv
PROPERTIES
  DiffIsTrue
  RefreshKeepsMetadata
