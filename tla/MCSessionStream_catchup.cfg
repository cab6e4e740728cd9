CONSTANTS
  s1 = s1
  s2 = s2
  Session = {s1}
  Watched = s1
  MaxTurn = 2
  MaxEvents = 3
  MaxRestarts = 1
  MaxTail = 2
  MaxTerminal = 0
  LateEvents = {}
  TornAppends = TRUE
  MaxLost = 1
  MaxFailed = 1
  ReadsOutliveHost = FALSE
  ToolsMayLag = FALSE
SPECIFICATION FairSpec

  
  
PROPERTIES
  ScreenCatchesUp
  HeldEventsAreReleased
