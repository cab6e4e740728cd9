CONSTANTS
  Tasks = 1
  Turns = 2
  Ends = {"completed", "failed", "cancelled"}
  MaxRestarts = 2
  MaxFailures = 1
SPECIFICATION Spec
INVARIANTS
  TypeOK
  DeliveredOnce
  
  ReportedIsRecorded
  
  
CHECK_DEADLOCK FALSE
