----------------------------- MODULE SqliteStore -----------------------------
(***************************************************************************)
(* SqliteTicketRepository (storage/sqlite.py): one connection shared by    *)
(* all threads, every operation behind one lock, every write inside the    *)
(* connection's `with`, which commits on success and rolls back on an      *)
(* exception; the lock is the outer of the two.                            *)
(*                                                                         *)
(* `conn` is the database as the connection sees it, `disk` as the last    *)
(* commit left it: they differ while a transaction is open.  Any statement *)
(* may raise; the connection may be closed under a call, for the lifespan  *)
(* of api/app.py does not take the lock and relies on the server to have   *)
(* waited for its tasks; the process may die between two statements.  A    *)
(* step's seq is its place in the trace.                                   *)
(***************************************************************************)
EXTENDS RepositoryCalls, Naturals, Sequences

CONSTANTS
  MaxCalls,     \* bound: calls made
  MaxFaults,    \* bound: statements that raise of themselves
  MaxRestarts   \* bound: ends of the process

ASSUME CallersAssumption == None \notin Callers
ASSUME OutcomesAssumption ==
  \A o \in Outcomes :
    o = [status |-> o.status, reply |-> o.reply, reason |-> o.reason, trace |-> o.trace]
    /\ o.trace # <<>>
ASSUME BoundsAssumption ==
  MaxCalls \in Nat /\ MaxFaults \in Nat /\ MaxRestarts \in Nat

VARIABLES
  disk, conn,      \* the two tables: [rows : id -> row, steps : id -> trace]
  closed,          \* whether the connection is closed
  lock,            \* the caller that holds the lock, or None
  pc,              \* the statement each caller is at
  fetched,         \* the row the first SELECT of a get has fetched
  calls, answers,  \* as in TicketStore
  spent            \* how many calls, faults and restarts there have been

vars == <<disk, conn, closed, lock, pc, fetched, calls, answers, spent>>

-----------------------------------------------------------------------------
Row(status, reply, reason) == [status |-> status, reply |-> reply, reason |-> reason]

NoRow == Row("absent", None, None)

Empty == [rows |-> [i \in Ids |-> NoRow], steps |-> [i \in Ids |-> <<>>]]

\* The rows and traces a table can hold, and what get builds of them.
Rows == {NoRow, Row("processing", None, None)}
          \union { Row(o.status, o.reply, o.reason) : o \in Outcomes }
Traces == {<<>>} \union { o.trace : o \in Outcomes }

TicketOf(r, trace) ==
  [status |-> r.status, reply |-> r.reply, reason |-> r.reason, trace |-> trace]

\* The validator of Ticket, which get passes each row through.
Validates(r) == Check(r.status, r.reply, r.reason) /\ (r.status = "replied" => r.reply # "")

Writing == {"insert", "update", "delete", "insert_steps", "commit"}
Reading == {"select_row", "select_steps"}
Locked == Writing \union Reading \union {"rollback", "release"}
Places == {"idle", "acquire", "build", "return"} \union Locked

Results ==
  {"pending", "done", "None", "raised", "TicketAlreadyExists", "TicketNotFound",
   "IntegrityError", "ValidationError"}

Database == [rows : [Ids -> Rows], steps : [Ids -> Traces]]

TypeOK ==
  /\ disk \in Database
  /\ conn \in Database
  /\ closed \in BOOLEAN
  /\ lock \in Callers \union {None}
  /\ pc \in [Callers -> Places]
  /\ fetched \in [Callers -> Rows]
  /\ calls \in [Callers -> Calls \union {NoCall}]
  /\ answers \in [Callers -> [result : Results,
                              ticket : {Absent} \union { TicketOf(r, tr) : r \in Rows, tr \in Traces }]]
  /\ spent \in [calls : 0 .. MaxCalls, faults : 0 .. MaxFaults, restarts : 0 .. MaxRestarts]

Init ==
  /\ disk = Empty
  /\ conn = Empty
  /\ closed = FALSE
  /\ lock = None
  /\ pc = [c \in Callers |-> "idle"]
  /\ fetched = [c \in Callers |-> NoRow]
  /\ calls = [c \in Callers |-> NoCall]
  /\ answers = [c \in Callers |-> Pending]
  /\ spent = [calls |-> 0, faults |-> 0, restarts |-> 0]

Goto(c, from, to) == pc[c] = from /\ pc' = [pc EXCEPT ![c] = to]

Says(c, result, ticket) == answers' = [answers EXCEPT ![c] = Answer(result, ticket)]

-----------------------------------------------------------------------------
\* A call, up to its first statement.

Call(c) ==
  /\ Goto(c, "idle", "acquire")
  /\ spent.calls < MaxCalls
  /\ spent' = [spent EXCEPT !.calls = @ + 1]
  /\ \E call \in Calls : calls' = [calls EXCEPT ![c] = call]
  /\ UNCHANGED <<disk, conn, closed, lock, fetched, answers>>

First(op) ==
  CASE op = "create" -> "insert" [] op = "get" -> "select_row" [] op = "finalise" -> "update"

\* Bug: a read need not wait for the lock.
AcquireForWritesOnly(c) ==
  /\ Goto(c, "acquire", First(calls[c].op))
  /\ calls[c].op = "get" \/ lock = None
  /\ lock' = IF calls[c].op = "get" THEN lock ELSE c
  /\ UNCHANGED <<disk, conn, closed, fetched, calls, answers, spent>>

Acquire(c) ==
  /\ Goto(c, "acquire", First(calls[c].op))
  /\ lock = None
  /\ lock' = c
  /\ UNCHANGED <<disk, conn, closed, fetched, calls, answers, spent>>

\* A statement of the operation, on an open connection.
Statement(c, at, next) ==
  /\ Goto(c, at, next)
  /\ ~closed
  /\ UNCHANGED <<disk, closed, lock, calls, spent>>

\* A statement after which the `with` of the connection rolls back.
Refuses(c, at, result) ==
  /\ Statement(c, at, "rollback")
  /\ Says(c, result, Absent)
  /\ UNCHANGED <<conn, fetched>>

Stores(c, at, next, table, value) ==
  /\ Statement(c, at, next)
  /\ conn' = [conn EXCEPT ![table][calls[c].id] = value]
  /\ UNCHANGED <<fetched, answers>>

-----------------------------------------------------------------------------
\* create

Insert(c) ==
  /\ Stores(c, "insert", "commit", "rows", Row("processing", None, None))
  /\ conn.rows[calls[c].id] = NoRow

\* Bug: INSERT OR REPLACE.
InsertReplaces(c) ==
  /\ Stores(c, "insert", "commit", "rows", Row("processing", None, None))
  /\ conn.rows[calls[c].id] # NoRow

InsertRefused(c) ==
  /\ Refuses(c, "insert", "TicketAlreadyExists")
  /\ conn.rows[calls[c].id] # NoRow

-----------------------------------------------------------------------------
\* get: both SELECTs under the lock, the Ticket built after it is released.

SelectNothing(c) ==
  /\ Statement(c, "select_row", "release")
  /\ conn.rows[calls[c].id] = NoRow
  /\ Says(c, "None", Absent)
  /\ UNCHANGED <<conn, fetched>>

SelectRow(c) ==
  /\ Statement(c, "select_row", "select_steps")
  /\ conn.rows[calls[c].id] # NoRow
  /\ fetched' = [fetched EXCEPT ![c] = conn.rows[calls[c].id]]
  /\ UNCHANGED <<conn, answers>>

SelectSteps(c) ==
  /\ Statement(c, "select_steps", "release")
  /\ Says(c, "done", TicketOf(fetched[c], conn.steps[calls[c].id]))
  /\ UNCHANGED <<conn, fetched>>

Build(c) ==
  /\ Goto(c, "build", "return")
  /\ IF answers[c].result = "done" /\ ~Validates(fetched[c])
     THEN Says(c, "ValidationError", Absent)
     ELSE UNCHANGED answers
  /\ fetched' = [fetched EXCEPT ![c] = NoRow]
  /\ UNCHANGED <<disk, conn, closed, lock, calls, spent>>

-----------------------------------------------------------------------------
\* finalise

UpdateNothing(c) ==
  /\ Refuses(c, "update", "TicketNotFound")
  /\ conn.rows[calls[c].id] = NoRow

UpdateRefused(c) ==
  LET o == calls[c].outcome IN
  /\ Refuses(c, "update", "IntegrityError")
  /\ conn.rows[calls[c].id] # NoRow
  /\ ~Check(o.status, o.reply, o.reason)

Update(c) ==
  LET o == calls[c].outcome IN
  /\ Stores(c, "update", "delete", "rows", Row(o.status, o.reply, o.reason))
  /\ conn.rows[calls[c].id] # NoRow
  /\ Check(o.status, o.reply, o.reason)

Delete(c) == Stores(c, "delete", "insert_steps", "steps", <<>>)

\* Bug: only the first step of the trace is inserted.
InsertStepsPartly(c) ==
  /\ Stores(c, "insert_steps", "commit", "steps", <<Head(calls[c].outcome.trace)>>)
  /\ conn.steps[calls[c].id] = <<>>

\* Any step already there is a UNIQUE failure: see Raises.
InsertSteps(c) ==
  /\ Stores(c, "insert_steps", "commit", "steps", calls[c].outcome.trace)
  /\ conn.steps[calls[c].id] = <<>>

-----------------------------------------------------------------------------
\* The way out: commit or roll back, then release, then return.

Commit(c) ==
  /\ Goto(c, "commit", "release")
  /\ ~closed
  /\ disk' = conn
  /\ Says(c, "done", Absent)
  /\ UNCHANGED <<conn, closed, lock, fetched, calls, spent>>

\* A statement raises: of itself, on a step already there, or on a closed connection.
Raises(c) ==
  /\ pc[c] \in Writing \union Reading
  /\ pc' = [pc EXCEPT ![c] = IF @ \in Reading THEN "release" ELSE "rollback"]
  /\ Says(c, "raised", Absent)
  /\ \/ closed /\ UNCHANGED spent
     \/ pc[c] = "insert_steps" /\ conn.steps[calls[c].id] # <<>> /\ UNCHANGED spent
     \/ spent.faults < MaxFaults /\ spent' = [spent EXCEPT !.faults = @ + 1]
  /\ UNCHANGED <<disk, conn, closed, lock, fetched, calls>>

\* Bugs: no rollback, as without the `with` of the connection; no release, as without that
\* of the lock.
RollbackForgotten(c) ==
  /\ Goto(c, "rollback", "release")
  /\ UNCHANGED <<disk, conn, closed, lock, fetched, calls, answers, spent>>

RollbackKeepsLock(c) ==
  /\ Goto(c, "rollback", "return")
  /\ conn' = disk
  /\ UNCHANGED <<disk, closed, lock, fetched, calls, answers, spent>>

\* On a closed connection the rollback raises too, in place of the refusal.
Rollback(c) ==
  /\ Goto(c, "rollback", "release")
  /\ conn' = disk
  /\ IF closed THEN Says(c, "raised", Absent) ELSE UNCHANGED answers
  /\ UNCHANGED <<disk, closed, lock, fetched, calls, spent>>

Release(c) ==
  /\ Goto(c, "release", IF calls[c].op = "get" THEN "build" ELSE "return")
  /\ lock' = None
  /\ UNCHANGED <<disk, conn, closed, fetched, calls, answers, spent>>

Return(c) ==
  /\ Goto(c, "return", "idle")
  /\ calls' = [calls EXCEPT ![c] = NoCall]
  /\ answers' = [answers EXCEPT ![c] = Pending]
  /\ UNCHANGED <<disk, conn, closed, lock, fetched, spent>>

-----------------------------------------------------------------------------
\* The lifespan's exit, and the end of the process.

Close ==
  /\ ~closed
  /\ closed' = TRUE
  /\ conn' = disk
  /\ UNCHANGED <<disk, lock, pc, fetched, calls, answers, spent>>

Restart ==
  /\ spent.restarts < MaxRestarts
  /\ spent' = [spent EXCEPT !.restarts = @ + 1]
  /\ closed' = FALSE
  /\ conn' = disk
  /\ lock' = None
  /\ pc' = [c \in Callers |-> "idle"]
  /\ fetched' = [c \in Callers |-> NoRow]
  /\ calls' = [c \in Callers |-> NoCall]
  /\ answers' = [c \in Callers |-> Pending]
  /\ UNCHANGED disk

Continue(c) ==
  \/ Acquire(c)
  \/ Insert(c) \/ InsertRefused(c)
  \/ SelectNothing(c) \/ SelectRow(c) \/ SelectSteps(c) \/ Build(c)
  \/ UpdateNothing(c) \/ UpdateRefused(c) \/ Update(c) \/ Delete(c) \/ InsertSteps(c)
  \/ Commit(c) \/ Raises(c) \/ Rollback(c) \/ Release(c) \/ Return(c)

Next == Close \/ Restart \/ \E c \in Callers : Call(c) \/ Continue(c)

Spec == Init /\ [][Next]_vars

\* Every thread keeps running; the lock need not be fair, for the calls are finitely many.
FairSpec == Spec /\ \A c \in Callers : WF_vars(Continue(c))
==============================================================================
