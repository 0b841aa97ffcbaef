CONSTANTS
  Proc = {p1, p2}
  Key = {token, static}
  Value = {v1}
  NoValue = NoValue
  StrictKey = {token, static}
  Unreadable = Unreadable
  ItemId = {i1, i2}
  NoItem = NoItem
  MaxVersion = 3
  Backends = {"1password", "keyring"}
  Capacity = 1
  NoData = NoData
SPECIFICATION StoreSpec
SYMMETRY Symmetry
CHECK_DEADLOCK TRUE
INVARIANTS
  TypeOK
  CurrentCopyAgrees
  KeyringInv
PROPERTIES
  PutsOnlyOwnKeys
  StaleUntilExit
