CONSTANTS
  u1 = u1
  u2 = u2
  a1 = a1
  Turn = {u1, u2, a1}
  NoTurn = NoTurn
  AgentTurn = {a1}
  RequestTurn = {a1}
  Priority <- SourcePriority
  MaxQueueDepth = 2
  MaxResumes = 0
  StartMayFail = FALSE
  PersistMayFail = FALSE
  RecoveryMayFail = FALSE
  DrainMayTimeOut = TRUE
  TaskMayPanic = FALSE
SPECIFICATION Spec
CHECK_DEADLOCK FALSE
INVARIANTS
  TypeOK
  QueueIsOrdered
  NoStrandedQueue
  ActiveWillRetire
  TombstonesAreConsumed
PROPERTIES
  InterruptedWorkIsHeld
