\* Any model over the same fixtures, edits or not.
SPECIFICATION Spec
CONSTANTS
  None = None
  Tools <- Registered
  NumbersIn <- Numbers
  UserIds <- Users
  TicketUser = "u_1"
  Fixtures <- CentFixtures
  Clients = {"any"}
  MaxIterations = 4
  MaxEdits = 1
  Broken = Broken
INVARIANT StatusIsTheCitedOnes
CHECK_DEADLOCK FALSE
