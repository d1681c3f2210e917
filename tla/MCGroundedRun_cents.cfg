\* Any model, and the fake, over fixtures some of whose amounts a reply cannot write.
SPECIFICATION Spec
CONSTANTS
  None = None
  Tools <- Registered
  NumbersIn <- Numbers
  UserIds <- Users
  TicketUser = "u_1"
  Fixtures <- SomeFixtures
  Clients = {"fake", "any"}
  MaxIterations = 4
  MaxEdits = 2
  Broken = Broken
INVARIANTS
  TypeOK
  RepliesAreSourced
  PassedChecksHaveEvidence
  NewestUnlessEdited
  FakeRepliesAreTrue
  FakeEndsAsPlanned
CHECK_DEADLOCK FALSE
