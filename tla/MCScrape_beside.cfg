\* Two runs count while a scrape renders the registry.
SPECIFICATION Spec
CONSTANTS
  None = None
  r1 = r1
  r2 = r2
  Runs <- TwoRuns
  Finishes <- TwoFinishes
  Bounds <- OneBucket
  MaxScrapes = 1
INVARIANTS
  TypeOK
  NoUpdateIsLost
  ScrapesDriftByTheCounting
SYMMETRY Symmetric
CHECK_DEADLOCK FALSE
