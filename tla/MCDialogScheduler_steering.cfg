CONSTANTS
  u1 = u1
  u2 = u2
  a1 = a1
  Turn = {u1, u2}
  NoTurn = NoTurn
  AgentTurn = {}
  RequestTurn = {}
  Priority <- SourcePriority
  MaxQueueDepth = 1
  MaxResumes = 0
  StartMayFail = FALSE
  PersistMayFail = FALSE
  RecoveryMayFail = FALSE
  DrainMayTimeOut = FALSE
  TaskMayPanic = FALSE
SPECIFICATION Spec
CHECK_DEADLOCK FALSE
PROPERTIES
  SteeringIsConsumed
