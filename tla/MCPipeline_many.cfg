\* Two tickets, a smaller model: runs, faults and crashes interleave.
SPECIFICATION Spec
CONSTANTS
  None = None
  t1 = t1
  t2 = t2
  Tickets <- TwoTickets
  Tools <- BillingTools
  Intents <- SomeIntents
  Templates <- OneTemplate
  Reasons <- OneReason
  MaxIterations = 3
  MaxFaults = 1
  MaxCrashes = 1
INVARIANTS
  AcceptedIsStored
  CountedIsStored
  CountersMissOnlyTheCounting
  OnlyFaultsStrand
PROPERTIES
  TerminalIsFinal
  ImplementsLifecycle
SYMMETRY Symmetric
CHECK_DEADLOCK FALSE
