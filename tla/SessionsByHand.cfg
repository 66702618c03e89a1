\* One property at a time: TLC shows the first below violated.  For another one,
\* exchange it, with the constants and the specification its line names.
SPECIFICATION SessionsSpec
CONSTANTS
  Phone = {d1, d2}
  None = None
  Unknown = Unknown
  MaxSessions = 2
  MaxSignIns = 2
  MaxRefresh = 1
  MaxLapses = 0
SYMMETRY Symmetry
CHECK_DEADLOCK FALSE
INVARIANTS
  NewPhoneEndsOld
\* INVARIANTS SignOutEnds: MaxSignIns = 1
\* INVARIANTS NoFalseAlarm: MaxSignIns = 1
\* INVARIANTS IndexNamesLive: MaxSignIns = 1, MaxLapses = 1
