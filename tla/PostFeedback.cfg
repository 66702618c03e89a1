SPECIFICATION Spec
CONSTANTS
  author = author
  u1 = u1
  u2 = u2
  User = {author, u1, u2}
  Author = author
  Option = {1, 2}
  None = None
  Wiped = Wiped
  MaxRequests = 3
  MaxFaults = 1
CHECK_DEADLOCK FALSE
SYMMETRY Readers
INVARIANTS
  CountsAddUp
  ScoreIsCurrent
  RecordedIsShown
  RecordsAgree
