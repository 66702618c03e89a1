SPECIFICATION ArchiveFairSpec
CONSTANTS
  Msg = {m1, m2}
  Device = {d1, d2}
  Instance = {i1}
  Absent = Absent
  Window = 0
  Interval = 1
  MaxClock = 0
  MaxInserts = 4
  MaxOpen = 1
  MaxFailures = 0
CHECK_DEADLOCK FALSE
PROPERTIES
  GapsAreFilled
  ArchiveIsRead
