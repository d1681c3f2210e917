\* One tab, a ticket to submit or seed and one of another client; up to two of: a failure, a
\* lost ticket, a reload, a "forget", an "open by id".
SPECIFICATION FairSpec
CONSTANTS
  None = None
  t1 = t1
  t2 = t2
  i1 = i1
  i2 = i2
  Tabs <- OneTab
  Ids <- TwoIds
  Others <- TheSecond
  PollLimit = 1
  Scenarios = 2
  MaxTrouble = 2
INVARIANTS
  TypeOK
  KeysAreKept
  ForgottenStaysOut
PROPERTIES
  ReadsCatchUp
  PageComesToRest
CHECK_DEADLOCK FALSE
