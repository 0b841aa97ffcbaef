CONSTANTS
  Handler = {h1, h2}
  Profile = {p1, p2}
  Default = Default
  NoProfile = NoProfile
  NilCreds = NilCreds
  MaxLoads = 2
  MaxTime = 1
SPECIFICATION Spec
SYMMETRY Symmetry
CHECK_DEADLOCK TRUE
INVARIANTS
  SlotsInv
  NothingServedAgain
  ReportsAreWhole
