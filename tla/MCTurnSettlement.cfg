CONSTANTS
  Key = {k1, k2}
  Entry = {e1, e2, e3}
  Holder = {h1, h2}
  Waiter = {w1}
  NoEntry = NoEntry
  NoKey = NoKey
  NoHolder = NoHolder
  Capacity = 1
  MaxRegistrations = 2
SPECIFICATION FairSpec
CHECK_DEADLOCK FALSE
INVARIANTS
  TypeOK
  SettledMeansReleased
  OneLiveGeneration
  CompletedIsEvictable
  UnknownIsJustified
PROPERTIES
  WaitersAnswered
