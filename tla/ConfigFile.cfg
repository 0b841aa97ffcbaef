CONSTANTS
  Execution = {e1}
  SSO = {s1, s2}
  UserLine = {u1, u2}
  Version = {1, 2}
SPECIFICATION FileSpec
SYMMETRY Symmetry
CHECK_DEADLOCK TRUE
INVARIANTS
  FileInv
