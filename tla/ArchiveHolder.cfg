SPECIFICATION AHSpec
CONSTANTS
  Request = {r1}
  Locker = {r1, h1, h2}
  GroupId = {g1}
  NoGroup = NoGroup
  NoInfo = NoInfo
  Free = Free
  MaxEpoch = 1
  Device = {d1, d2}
  Root = {f1, f2}
  Handler = {h1, h2}
  None = None
  Nobody = Nobody
  MaxLease = 2
  MaxTime = 2
INVARIANTS
  HolderNamesTheRoot
  NoCircularWait
PROPERTIES
  CoverageIsFenced
  RoleChangesAfterExpiry
SYMMETRY Symmetry
