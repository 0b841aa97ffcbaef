CONSTANTS
  MaxTokens = 3
  MaxClients = 2
SPECIFICATION Spec
CHECK_DEADLOCK TRUE
INVARIANTS
  TokenInv
