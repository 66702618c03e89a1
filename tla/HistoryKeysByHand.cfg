\* One property at a time: TLC shows the first below violated.  For another one,
\* exchange it, with the constants and the specification its line names.
SPECIFICATION Spec
CONSTANTS
  d1 = d1
  d2 = d2
  d3 = d3
  a1 = a1
  a2 = a2
  Device = {d1, d2, d3}
  Account = {a1, a2}
  OwnerOf <- MCOwnerOf
  Tier = {"private"}
  Founder <- MCFounder
  None = None
  MaxEpoch <- MCMaxEpoch
  Faulty <- MCFaulty
  MaxFaults <- MCMaxFaults
  Legacy = Legacy
  MaxMints = 2
  Minter <- MCMinter
  Fresh = {}
  Watched <- MCWatched
  TopicOwner = a1
  Asker <- MCAsker
  Window = {1, 2}
CHECK_DEADLOCK FALSE
INVARIANTS
  EveryEpochIsHeld
\* INVARIANTS HeldIsListed: Tier = {"secret"}
\* INVARIANTS RecoveryOpens: Tier = {"secret"}, Fresh = {a1}
\* INVARIANTS WaitingHasAHolder: Tier = {"dm", "public"}
\* PROPERTIES HeldKeysArrive: SPECIFICATION TickSpec
