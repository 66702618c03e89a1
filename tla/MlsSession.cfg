SPECIFICATION MSSpec
CONSTANTS
  d1 = d1
  d2 = d2
  d3 = d3
  a1 = a1
  a2 = a2
  Device = {d1, d2}
  Account = {a1, a2}
  Owner <- MCOwner2
  Sender = {d1}
  Founders = {a1, a2}
  None = None
  MaxLeaves = 2
  MaxLeaving = 1
  MaxFaults = 2
CHECK_DEADLOCK FALSE
INVARIANTS
  EpochsLeftAreKept
  NoKeyAfterEviction
  StatesOnChain
