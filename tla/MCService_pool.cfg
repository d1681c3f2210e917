\* Two runs keep both threads in model calls while a third client waits.
SPECIFICATION Spec
CONSTANTS
  None = None
  r1 = r1
  r2 = r2
  r3 = r3
  Requests <- ThreeRequests
  PoolSize = 2
  Wants <- PostsAndOthers
  MaxOutages = 1
INVARIANT AnswersDoNotWaitForModels
CHECK_DEADLOCK FALSE
