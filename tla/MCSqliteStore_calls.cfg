\* Two threads make up to four calls on one ticket, among a fault, a close and a restart.
SPECIFICATION FairSpec
CONSTANTS
  None = None
  c1 = c1
  c2 = c2
  i1 = i1
  Callers <- TwoCallers
  Ids <- OneId
  Outcomes <- SomeOutcomes
  MaxCalls = 4
  MaxFaults = 1
  MaxRestarts = 1
INVARIANTS
  TypeOK
  OutcomesAreWhole
  TransactionsAreLocked
PROPERTIES
  ImplementsTicketStore
  CallsReturn
CHECK_DEADLOCK FALSE
