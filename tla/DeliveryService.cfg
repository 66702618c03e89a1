SPECIFICATION DSSpec
CONSTANTS
  Request = {r1, r2}
  Locker = {r1, r2}
  GroupId = {g1, g2}
  NoGroup = NoGroup
  NoInfo = NoInfo
  Free = Free
  MaxEpoch = 3
INVARIANTS
  CatchUpHasNoGap
  LogIsAChain
  InfoIsNewest
PROPERTIES
  HistoryIsFrozen
  ImplementsCommitChain
