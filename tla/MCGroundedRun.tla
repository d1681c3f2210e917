---------------------------- MODULE MCGroundedRun ----------------------------
(***************************************************************************)
(* Instances of a run with its data for TLC.  The fixtures are the rows of *)
(* the shipped ones in kind, for the ticket's user and for another: a      *)
(* station with a digit in its name, every status, an older row that       *)
(* contradicts the newest, empty and broken files, a user not known.       *)
(***************************************************************************)
EXTENDS GroundedRunProperties, TLC

\* What the theorems about the numbers of a reply suppose of the fixtures.
ASSUME NothingCoincides == NoCoincidence /\ MaxIterations >= 3

\* "A1 Norte" reads as a 1 to a scan that does not mask it.
Numbers == [e \in {"Ana", "Rui", "A1 Norte", "Centro"} |-> IF e = "A1 Norte" THEN {1000} ELSE {}]

Users == {"u_1", "u_2"}

Ana == [type |-> "user", id |-> "u_1", name |-> "Ana", at |-> 1]
Rui == [type |-> "user", id |-> "u_2", name |-> "Rui", at |-> 1]

Invoice(n, amount, status) ==
  [type |-> "invoice", id |-> "inv_" \o ToString(n), amount |-> amount, status |-> status, at |-> n]

Session(n, station, kwh, cost, status) ==
  [type |-> "session", id |-> "sess_" \o ToString(n), station |-> station,
   kwh |-> kwh, cost |-> cost, status |-> status, at |-> n]

\* A file of the ticket's user's rows and the other's.
Rows(anas, ruis) == [u \in Users |-> IF u = "u_1" THEN anas ELSE ruis]

Files(users, invoices, sessions) == [users |-> users, invoices |-> invoices, sessions |-> sessions]

\* Ana's rows beside those of a user who has some of each kind, and without that user.
BesideRui(users, invoices, sessions) ==
  Files(Rows(users, {Rui}),
        Rows(invoices, {Invoice(6, 5250, "failed"), Invoice(7, 6100, "paid")}),
        Rows(sessions, {Session(6, "Centro", 1500, 630, "failed"),
                        Session(7, "A1 Norte", 2750, 990, "completed")}))

WithoutRui(users, invoices, sessions) ==
  Files(Rows(users, {}), Rows(invoices, {}), Rows(sessions, {}))

PaidBefore == Invoice(1, 42100, "paid")
PendingLast == Invoice(4, 9000, "pending")
Completed == Session(1, "A1 Norte", 18400, 7360, "completed")
Interrupted == Session(2, "Centro", 3000, 1200, "interrupted")

Failures == {PaidBefore, Invoice(2, 12500, "failed"), Invoice(3, 30000, "failed"), PendingLast}

\* A row that does not validate is its user's trouble, a file that cannot be read everyone's.
CentFixtures ==
  { BesideRui({Ana}, Failures, {Completed, Interrupted}),
    BesideRui({Ana}, {PaidBefore, PendingLast}, {Completed}),
    WithoutRui({Ana}, {PaidBefore}, {}),
    WithoutRui({Ana}, {}, {Session(3, "A1 Norte", 0, 0, "failed"), Completed}),
    BesideRui({}, Failures, {Completed}),
    BesideRui({Ana}, Broken, {Interrupted}),
    Files(Rows(Broken, Broken), Rows({PaidBefore}, {}), Rows({Completed}, {})) }

\* A thousandth of a euro or of a kWh in a file, and a credit note: none of them is
\* written as a number of another record or as a whole one.
DecimalFixtures ==
  { WithoutRui({Ana}, {Invoice(5, 77125, "failed"), PaidBefore}, {Completed}),
    BesideRui({Ana}, {Invoice(5, -77500, "pending")}, {Session(4, "Centro", 55504, 7360, "completed")}) }

SomeFixtures == CentFixtures \union DecimalFixtures
==============================================================================
