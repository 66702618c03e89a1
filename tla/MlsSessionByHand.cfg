\* One property at a time: TLC shows the first below violated.  For another one,
\* exchange it, with the constants and the specification its line names.
SPECIFICATION MSSpec
CONSTANTS
  d1 = d1
  d2 = d2
  d3 = d3
  a1 = a1
  a2 = a2
  Device = {d1, d2}
  Account = {a1, a2}
  Owner <- MCOwner2
  Sender = {}
  Founders = {a1, a2}
  None = None
  MaxLeaves = 1
  MaxLeaving = 1
  MaxFaults = 0
CHECK_DEADLOCK FALSE
INVARIANTS
  EveryEpochIsKept
\* INVARIANTS KeysAreTheirEpochs: Sender = {d1}
\* PROPERTIES NoMemberIsEvicted: Founders = {a2}
\* PROPERTIES LeaverForgets
\* PROPERTIES RejoinerGetsIn: SPECIFICATION MSFairSpec, MaxLeaves = 2
