\* One tab and a request that fails.
SPECIFICATION Spec
CONSTANTS
  None = None
  t1 = t1
  t2 = t2
  i1 = i1
  i2 = i2
  Tabs <- OneTab
  Ids <- TwoIds
  Others <- TheSecond
  PollLimit = 1
  Scenarios = 2
  MaxTrouble = 2
INVARIANT OnlyGoneIsDropped
CHECK_DEADLOCK FALSE
