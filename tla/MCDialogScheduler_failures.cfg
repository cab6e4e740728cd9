CONSTANTS
  u1 = u1
  u2 = u2
  a1 = a1
  Turn = {u1, a1}
  NoTurn = NoTurn
  AgentTurn = {a1}
  RequestTurn = {a1}
  Priority <- SourcePriority
  MaxQueueDepth = 1
  MaxResumes = 1
  StartMayFail = TRUE
  PersistMayFail = TRUE
  RecoveryMayFail = TRUE
  DrainMayTimeOut = TRUE
  TaskMayPanic = TRUE
SPECIFICATION Spec
CHECK_DEADLOCK FALSE
INVARIANTS
  NoAcceptedTurnDisappears
  ExclusiveExecution
  ProcessingIsExecuted
  
  MaintenanceIsQuiescent
  RequestsAreNotRecoverable
