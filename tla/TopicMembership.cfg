SPECIFICATION TopicSpec
CONSTANTS
  User = {u1, u2, u3}
  Creator = u1
  Token = {t1}
  Slot = {s1, s2}
  None = None
  MaxPending = 1
  MaxMishaps = 1
SYMMETRY Symmetry
CHECK_DEADLOCK FALSE
INVARIANTS
  TokenAdmitsOne
PROPERTIES
  OnlyDoorsAdmit
  KicksDown
