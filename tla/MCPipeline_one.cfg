\* One ticket, the whole repertoire of the model and the tools.
SPECIFICATION FairSpec
CONSTANTS
  None = None
  t1 = t1
  t2 = t2
  Tickets <- OneTicket
  Tools <- AllTools
  Intents <- Intent
  Templates <- ReplyTemplate
  Reasons <- HandoffReason
  MaxIterations = 4
  MaxFaults = 1
  MaxCrashes = 1
INVARIANTS
  TypeOK
  TerminalIsExplained
  FailureEndsTheRun
  ToolCallsAreAnswered
  HistoryIsTraced
  LoopIsBounded
  RepliesAreEarned
  ReasonsAreEarned
PROPERTY AcceptedIsSettled
CHECK_DEADLOCK FALSE
