\* One property at a time: TLC shows the first below violated.  For another one,
\* exchange it, with the constants its line names.
SPECIFICATION ArchiveSpec
CONSTANTS
  Msg = {m1, m2}
  Device = {d1, d2}
  Instance = {i1}
  Absent = Absent
  Window = 0
  Interval = 1
  MaxClock = 0
  MaxInserts = 2
  MaxOpen = 2
  MaxFailures = 0
SYMMETRY Symmetry
CHECK_DEADLOCK FALSE
INVARIANTS
  NoRowIsSkipped
\* INVARIANTS ExpiredStaysGone: Msg = {m1}, Device = {d1}, Window = 1, MaxClock = 3
