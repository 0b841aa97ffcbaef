CONSTANTS
  Execution = {e1, e2}
  Token = {t1}
  Flags = {"auth"}
  MaximumRetryCount = 1
  MaxSetups = 1
SPECIFICATION DeploySpec
SYMMETRY Symmetry
CHECK_DEADLOCK TRUE
INVARIANTS
  DeployInv
PROPERTIES
  FailureLeavesNothing
  StartedAsAsked
