SPECIFICATION Spec
CONSTANTS
  A = A
  B = B
  a1 = a1
  a2 = a2
  bad = bad
  AccountId = {A, B}
  Key = {A, B, a1, a2, bad}
  IdOf <- MCIdOf
  NoId = NoId
  Files <- MCFiles
  Instances = {"Default", "Main"}
  Requests = {r1, r2, r3}
  NoRequest = NoRequest
  Lifetime = 6
  Intervals = {0, 2}
  Situations <- MCSituations
INVARIANTS
  ExecutionInv
  LoadedInv
  SavedIsLoaded
  RolesInv
  PollsApart
  ListenerInv
PROPERTIES
  LoginEnds
