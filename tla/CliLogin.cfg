SPECIFICATION LoginSpec
CONSTANTS
  Poll = {p1, p2, p3}
  Canceller = {c1}
  NoPoll = NoPoll
  MaxLockLapses = 1
  MaxFaults = 1
SYMMETRY Symmetry
CHECK_DEADLOCK FALSE
INVARIANTS
  NoOrphanSession
  AnswerIsLive
