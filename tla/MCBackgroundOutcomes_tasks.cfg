CONSTANTS
  Tasks = 2
  Turns = 1
  Ends = {"completed"}
  MaxRestarts = 0
  MaxFailures = 0
SPECIFICATION FairSpec
PROPERTIES
  WaitsAreAnswered
CHECK_DEADLOCK FALSE
