SPECIFICATION MediaFairSpec
CONSTANTS
  Key = {k1, k2}
  Sweeper = {s1, s2}
  None = None
  Retention = 2
  Grace = 1
  MaxTime = 3
  MaxFaults = 1
CHECK_DEADLOCK FALSE
INVARIANTS
  StoredIsIndexed
  SentIsReadable
PROPERTIES
  StrandedIsCollected
