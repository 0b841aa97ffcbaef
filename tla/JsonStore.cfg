CONSTANTS
  Proc = {p1, p2}
  Key = {token, static}
  Value = {v1, v2}
  NoValue = NoValue
  StrictKey = {static}
  Unreadable = Unreadable
  NoData = NoData
  ItemId = {i1}
  NoItem = NoItem
  MaxVersion = 1
  Backends = {"json"}
  Capacity = 1
SPECIFICATION FairStoreSpec
CHECK_DEADLOCK TRUE
INVARIANTS
  JsonInv
PROPERTIES
  RefinesSharedStore
  CallsReturn
