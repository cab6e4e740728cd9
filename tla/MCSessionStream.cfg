CONSTANTS
  s1 = s1
  s2 = s2
  Session = {s1, s2}
  Watched = s1
  MaxTurn = 2
  MaxEvents = 4
  MaxRestarts = 0
  MaxTail = 2
  MaxTerminal = 1
  LateEvents = {s2}
  TornAppends = TRUE
  MaxLost = 1
  MaxFailed = 1
  ReadsOutliveHost = FALSE
  ToolsMayLag = TRUE
SPECIFICATION Spec
INVARIANTS
  TypeOK
  DeltaIsMissedSuffix
  
  
