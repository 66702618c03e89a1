SPECIFICATION SessionsSpec
CONSTANTS
  Phone = {d1, d2}
  None = None
  Unknown = Unknown
  MaxSessions = 3
  MaxSignIns = 2
  MaxRefresh = 1
  MaxLapses = 1
SYMMETRY Symmetry
CHECK_DEADLOCK FALSE
INVARIANTS
  OnePhone
  EndedStaysEnded
  SeenByGate
PROPERTIES
  NoSilentTakeover
