SPECIFICATION MSFairSpec
CONSTANTS
  d1 = d1
  d2 = d2
  d3 = d3
  a1 = a1
  a2 = a2
  Device = {d1, d2}
  Account = {a1, a2}
  Owner <- MCOwner2
  Sender = {}
  Founders = {a1, a2}
  None = None
  MaxLeaves = 2
  MaxLeaving = 2
  MaxFaults = 0
CHECK_DEADLOCK FALSE
PROPERTIES
  KickedIsEvicted
