SPECIFICATION SessionSpec
CONSTANTS
  east = east
  west = west
  r1 = r1
  r2 = r2
  r3 = r3
  p1 = p1
  p2 = p2
  p3 = p3
  v1 = v1
  k1 = k1
  k2 = k2
  prod = prod
  Regions <- MCRegions
  Roles <- MCRoles
  RegionOf <- MCRegionOf
  TagOf <- MCTagOf
  Unset = Unset
  UserValues <- MCUserValues
  MaxShells = 2
  Keys <- MCKeys
  Values <- MCValues
  NoValue = NoValue
  ProfileOf <- MCProfileOf
  MaxWords = 4
  Spellings = {arn, other}
  Arn = arn
  Unreadable = Unreadable
  None = None
SYMMETRY MCSymmetry
INVARIANTS
  SessionInv
  SelectionInv
  LoopsDetected
PROPERTIES
  DefaultRegionKept
  ClearForgets
