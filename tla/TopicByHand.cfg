\* One property at a time: TLC shows the first below violated.  For another one,
\* exchange it, with the constants and the specification its line names.
SPECIFICATION TopicSpec
CONSTANTS
  User = {u1, u2, u3}
  Creator = u1
  Token = {t1}
  Slot = {s1, s2}
  None = None
  MaxPending = 1
  MaxMishaps = 1
SYMMETRY Symmetry
CHECK_DEADLOCK FALSE
INVARIANTS
  TokenIsSingleUse
\* INVARIANTS WithdrawnHaveLeft
\* PROPERTIES AdminKicksMembers
\* PROPERTIES OwnersStay
