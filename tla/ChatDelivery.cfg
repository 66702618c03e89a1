SPECIFICATION DeliverySpec
CONSTANTS
  d1 = d1
  d2 = d2
  a1 = a1
  a2 = a2
  Device = {d1, d2}
  Account = {a1, a2}
  Owner <- MCOwner
  None = None
  MaxMsg = 2
  MaxTime = 2
  MaxLeave = 1
  Grace = 1
  Stale = 1
  Window = 1
CHECK_DEADLOCK FALSE
SYMMETRY Swap
INVARIANTS
  KeptSomewhere
  ReadIsCleared
PROPERTIES
  CursorsAdvance
  UnreadIsKept
