SPECIFICATION ArchiveSpec
CONSTANTS
  Msg = {m1, m2}
  Device = {d1, d2}
  Instance = {i1}
  Absent = Absent
  Window = 1
  Interval = 1
  MaxClock = 3
  MaxInserts = 2
  MaxOpen = 2
  MaxFailures = 1
SYMMETRY Symmetry
CHECK_DEADLOCK FALSE
INVARIANTS
  NothingSkipped
  OutlivedByInterval
