SPECIFICATION TopicSpec
CONSTANTS
  User = {u1, u2, u3}
  Creator = u1
  Token = {t1}
  Slot = {s1}
  None = None
  MaxPending = 1
  MaxMishaps = 0
SYMMETRY Symmetry
CHECK_DEADLOCK FALSE
INVARIANTS
  AlwaysAnOwner
