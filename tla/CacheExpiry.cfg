CONSTANTS
  Execution = {e1, e2}
  SSO = {s1, s2}
  TTL = 1
  MaxTime = 3
SPECIFICATION Spec
SYMMETRY Symmetry
CHECK_DEADLOCK TRUE
INVARIANTS
  TypeOK
PROPERTIES
  ConfigChangeSeen
  OthersKept
