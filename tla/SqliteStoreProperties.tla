------------------------ MODULE SqliteStoreProperties ------------------------
(***************************************************************************)
(* What makes the repository correct under threads, failing statements, a  *)
(* shutdown and a crash.                                                   *)
(***************************************************************************)
EXTENDS SqliteStore

TicketIn(db, i) == TicketOf(db.rows[i], db.steps[i])

\* The tickets a caller of finalise, or create, has ever meant there to be.
Meant == {Absent, New} \union Outcomes

-----------------------------------------------------------------------------
\* What is committed, and what a get has read, is always the whole of what one call wrote:
\* never a row with another call's trace, or with half of one (storage/protocol.py:65-69).
OutcomesAreWhole ==
  /\ \A i \in Ids : TicketIn(disk, i) \in Meant
  /\ \A c \in Callers : answers[c].ticket \in Meant

\* The lock is held by the one caller that is inside an operation and by nobody otherwise,
\* and a transaction is open only inside it, between its first statement and its commit or
\* rollback: a call that was refused or raised, however it ends, leaves the lock free and
\* nothing behind for the next commit to pick up (storage/sqlite.py:102, 133, 196).
TransactionsAreLocked ==
  /\ \A c \in Callers : lock = c <=> pc[c] \in Locked
  /\ conn # disk => lock # None /\ pc[lock] \in (Writing \ {"insert", "update"}) \union {"rollback"}

\* Every call comes back, with an answer or an exception, unless the process dies.
CallsReturn == \A c \in Callers : pc[c] # "idle" ~> pc[c] = "idle"

\* What each call has come to: a write that fails, when it is rolled back.
Given == [c \in Callers |-> IF pc[c] = "rollback" THEN Pending ELSE answers[c]]

Protocol ==
  INSTANCE TicketStore WITH tickets <- [i \in Ids |-> TicketIn(disk, i)], answers <- Given

\* The repository is linearizable: it implements the atomic TicketStore, in which a write
\* takes effect at its COMMIT, a read at its last SELECT and a refusal at its ROLLBACK
\* (storage/protocol.py:34-71).
ImplementsTicketStore == Protocol!Spec
==============================================================================
