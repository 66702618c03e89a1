\* One property at a time: TLC shows the first below violated.  For another one,
\* exchange it, with the constants and the specification its line names.
SPECIFICATION LoginSpec
CONSTANTS
  Poll = {p1, p2, p3, p4}
  Canceller = {}
  NoPoll = NoPoll
  MaxLockLapses = 1
  MaxFaults = 0
SYMMETRY Symmetry
CHECK_DEADLOCK FALSE
INVARIANTS
  RetryIsLive
\* INVARIANTS NoDuplicateSession
\* INVARIANTS CancelledLeavesNothing: Poll = {p1, p2}, Canceller = {c1}, MaxLockLapses = 0
