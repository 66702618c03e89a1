\* One property at a time: TLC shows the first below violated.  For another one,
\* exchange it, with the constants and the specification its line names.
SPECIFICATION MediaSpec
CONSTANTS
  Key = {k1}
  Sweeper = {s1}
  None = None
  Retention = 0
  Grace = 1
  MaxTime = 3
  MaxFaults = 1
CHECK_DEADLOCK FALSE
INVARIANTS
  EveryObjectIndexed
\* PROPERTIES ClaimedIsKept: MaxFaults = 0
\* PROPERTIES RetryFindsItsUpload: Key = {k1, k2}, Sweeper = {s1, s2}, Retention = 2
