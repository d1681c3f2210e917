\* Three requests of any kind on two threads, an outage and a stop.
SPECIFICATION FairSpec
CONSTANTS
  None = None
  r1 = r1
  r2 = r2
  r3 = r3
  Requests <- ThreeRequests
  PoolSize = 2
  Wants <- PostsAndOthers
  MaxOutages = 1
INVARIANTS
  TypeOK
  LockIsHeldForOneOperation
  StopLosesNoAcceptedTicket
  HealthSpeaksOfItsTime
PROPERTIES
  TasksEnd
CHECK_DEADLOCK FALSE
