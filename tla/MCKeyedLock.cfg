CONSTANTS
  Party = {p1, p2, p3}
  NoParty = NoParty
  Address = {a1, a2, a3, a4}
  NoAddress = NoAddress
  Impatient = {p3}
SPECIFICATION FairSpec
INVARIANTS
  MutualExclusion
  OneGeneration
PROPERTIES
  OnlyDroppedWaitsLeak
  ImplementsOperationLock
