CONSTANTS
  Account = {a1, a2, a3}
  Worker = {w1, w2}
  Main = Main
  None = None
  PageCount = 2
  MaxAttempts = 2
  MaxExpiries = 1
SPECIFICATION Spec
CHECK_DEADLOCK TRUE
INVARIANTS
  PoolInv
PROPERTIES
  RefreshEnds
