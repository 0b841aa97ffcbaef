CONSTANTS
  Execution = {e1}
  Role = {r1, r2}
  MaxIssued = 3
  MaxTime = 2
SPECIFICATION CredsSpec
CHECK_DEADLOCK TRUE
INVARIANTS
  CredsInv
  
