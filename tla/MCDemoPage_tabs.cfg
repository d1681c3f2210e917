\* Two tabs of one browser, and no trouble.
SPECIFICATION Spec
CONSTANTS
  None = None
  t1 = t1
  t2 = t2
  i1 = i1
  i2 = i2
  Tabs <- TwoTabs
  Ids <- TwoIds
  Others <- NoIds
  PollLimit = 1
  Scenarios = 2
  MaxTrouble = 0
INVARIANT GivenIsStored
CHECK_DEADLOCK FALSE
