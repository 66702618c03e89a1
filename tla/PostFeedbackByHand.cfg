\* One property at a time: TLC shows the first below violated.  For another one,
\* exchange it, with the constants and the specification its line names.
SPECIFICATION Spec
CONSTANTS
  author = author
  u1 = u1
  u2 = u2
  User = {author, u1, u2}
  Author = author
  Option = {1, 2}
  None = None
  Wiped = Wiped
  MaxRequests = 3
  MaxFaults = 0
CHECK_DEADLOCK FALSE
INVARIANTS
  OneRowPerUser
\* PROPERTIES RecordLocks
