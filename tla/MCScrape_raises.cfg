\* The claim that GET /metrics answers 200.
SPECIFICATION Spec
CONSTANTS
  None = None
  r1 = r1
  r2 = r2
  Runs <- TwoRuns
  Finishes <- TwoFinishes
  Bounds <- OneBucket
  MaxScrapes = 1
INVARIANT ScrapesAnswer
CHECK_DEADLOCK FALSE
