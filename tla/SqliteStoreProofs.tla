------------------------- MODULE SqliteStoreProofs -------------------------
(***************************************************************************)
(* Theorems about the repository, for every set of ids, callers and        *)
(* outcomes, and any number of calls, faults and restarts.                 *)
(***************************************************************************)
EXTENDS SqliteStoreProperties, TLAPS

-----------------------------------------------------------------------------
\* The parts of the inductive invariant.

Unanswered == {"idle", "acquire"} \union Reading \union Writing

\* Each place belongs to an operation, and knows whether its call has come to something.
ControlFits ==
  \A c \in Callers :
    /\ pc[c] = "idle" <=> calls[c] = NoCall
    /\ pc[c] = "insert" => calls[c].op = "create"
    /\ pc[c] \in {"update", "delete", "insert_steps"} => calls[c].op = "finalise"
    /\ pc[c] \in {"commit", "rollback"} => calls[c].op \in {"create", "finalise"}
    /\ pc[c] \in Reading \union {"build"} => calls[c].op = "get"
    /\ pc[c] \in Unanswered <=> answers[c] = Pending

LockFits == \A c \in Callers : lock = c <=> pc[c] \in Locked

\* What is committed was meant, and accepted by the CHECK.
Committed ==
  \A i \in Ids :
    TicketIn(disk, i) \in {Absent, New} \union { o \in Outcomes : Check(o.status, o.reply, o.reason) }

\* What the connection sees beside the disk is what the holder of the lock has written.
WrittenBy(c, rows, steps) ==
  LET call == calls[c] IN
  IF call.op = "create"
  THEN /\ disk.rows[call.id] = NoRow
       /\ rows = [disk.rows EXCEPT ![call.id] = Row("processing", None, None)]
       /\ steps = disk.steps
  ELSE /\ disk.rows[call.id] # NoRow
       /\ Check(call.outcome.status, call.outcome.reply, call.outcome.reason)
       /\ rows = [disk.rows EXCEPT ![call.id] =
                    Row(call.outcome.status, call.outcome.reply, call.outcome.reason)]
       /\ steps = IF pc[c] = "delete" THEN disk.steps
                  ELSE [disk.steps EXCEPT ![call.id] =
                          IF pc[c] = "insert_steps" THEN <<>> ELSE call.outcome.trace]

Dirty == {"delete", "insert_steps", "commit", "rollback"}

TransactionFits ==
  /\ closed => conn = disk
  /\ \A c \in Callers :
       /\ pc[c] \in Locked \ Dirty => conn = disk
       /\ pc[c] \in Dirty \ {"rollback"} /\ ~closed => WrittenBy(c, conn.rows, conn.steps)
  /\ lock = None => conn = disk

\* What a get has in hand.
FetchFits ==
  \A c \in Callers :
    /\ pc[c] = "select_steps" =>
         fetched[c] = disk.rows[calls[c].id] /\ disk.rows[calls[c].id] # NoRow
    /\ pc[c] \in {"release", "build"} /\ calls[c].op = "get" /\ answers[c].result = "done" =>
         Check(fetched[c].status, fetched[c].reply, fetched[c].reason)
    /\ answers[c].ticket \in Meant

\* What a write was refused for is still so when it is rolled back.
Refused(c) ==
  LET call == calls[c] IN
  \/ /\ answers[c] = Answer("TicketAlreadyExists", Absent)
     /\ call.op = "create" /\ disk.rows[call.id] # NoRow
  \/ /\ answers[c] = Answer("TicketNotFound", Absent)
     /\ call.op = "finalise" /\ disk.rows[call.id] = NoRow
  \/ /\ answers[c] = Answer("IntegrityError", Absent)
     /\ call.op = "finalise" /\ disk.rows[call.id] # NoRow
     /\ ~Check(call.outcome.status, call.outcome.reply, call.outcome.reason)

RefusalsFit ==
  \A c \in Callers :
    pc[c] = "rollback" => answers[c] = Answer("raised", Absent) \/ Refused(c)

IInv ==
  TypeOK /\ ControlFits /\ LockFits /\ Committed /\ TransactionFits /\ FetchFits /\ RefusalsFit

-----------------------------------------------------------------------------
\* Records of the vocabulary.

LEMMA RowTypes ==
  /\ NoRow \in Rows /\ Row("processing", None, None) \in Rows /\ <<>> \in Traces
  /\ \A o \in Outcomes : Row(o.status, o.reply, o.reason) \in Rows /\ o.trace \in Traces
BY DEF Rows, Traces

LEMMA CallFacts ==
  ASSUME TypeOK, ControlFits, NEW c \in Callers, pc[c] # "idle"
  PROVE  /\ calls[c] \in Calls /\ calls[c].id \in Ids
         /\ calls[c].op \in {"create", "get", "finalise"}
         /\ calls[c].op = "finalise" => calls[c].outcome \in Outcomes
<1>1. calls[c] \in Calls
  BY DEF TypeOK, ControlFits
<1> QED BY <1>1 DEF Calls

LEMMA WriteRow ==
  ASSUME conn \in Database, NEW c \in Callers, NEW at, NEW next, NEW v \in Rows,
         calls[c].id \in Ids, Stores(c, at, next, "rows", v)
  PROVE  /\ conn' \in Database
         /\ conn'.rows = [conn.rows EXCEPT ![calls[c].id] = v]
         /\ conn'.steps = conn.steps
BY DEF Stores, Database

LEMMA WriteSteps ==
  ASSUME conn \in Database, NEW c \in Callers, NEW at, NEW next, NEW v \in Traces,
         calls[c].id \in Ids, Stores(c, at, next, "steps", v)
  PROVE  /\ conn' \in Database
         /\ conn'.rows = conn.rows
         /\ conn'.steps = [conn.steps EXCEPT ![calls[c].id] = v]
BY DEF Stores, Database

LEMMA SaysTypes ==
  ASSUME TypeOK, NEW c \in Callers, NEW result \in Results,
         NEW ticket \in {Absent} \union { TicketOf(r, tr) : r \in Rows, tr \in Traces },
         Says(c, result, ticket)
  PROVE  answers' \in [Callers -> [result : Results,
           ticket : {Absent} \union { TicketOf(r, tr) : r \in Rows, tr \in Traces }]]
BY DEF TypeOK, Says, Answer

-----------------------------------------------------------------------------
\* Control: every step of a call goes from a place of its operation to the next.

LEMMA CallKeepsControl ==
  ASSUME TypeOK, ControlFits, LockFits, NEW c \in Callers, Call(c)
  PROVE  ControlFits' /\ LockFits'
<1>1. PICK call \in Calls : calls' = [calls EXCEPT ![c] = call]
  BY DEF Call
<1>2. call # NoCall
  BY DEF Calls, NoCall
<1> QED
  BY <1>1, <1>2 DEF Call, Goto, TypeOK, ControlFits, LockFits, Unanswered, Locked, Reading, Writing

LEMMA ContinueKeepsControl ==
  ASSUME TypeOK, ControlFits, LockFits, NEW c \in Callers, Continue(c)
  PROVE  ControlFits' /\ LockFits'
<1> USE CallersAssumption
    DEF Goto, TypeOK, ControlFits, LockFits, Unanswered, Locked, Reading, Writing, Says, Answer, Pending
<1>1. CASE Acquire(c)
  BY <1>1, CallFacts DEF Acquire, First
<1>2. CASE Insert(c) \/ Update(c) \/ Delete(c) \/ InsertSteps(c)
  BY <1>2 DEF Insert, Update, Delete, InsertSteps, Stores, Statement
<1>3. CASE InsertRefused(c) \/ UpdateNothing(c) \/ UpdateRefused(c)
  BY <1>3 DEF InsertRefused, UpdateNothing, UpdateRefused, Refuses, Statement
<1>4. CASE SelectNothing(c) \/ SelectRow(c) \/ SelectSteps(c)
  BY <1>4 DEF SelectNothing, SelectRow, SelectSteps, Statement
<1>5. CASE Build(c)
  BY <1>5 DEF Build
<1>6. CASE Commit(c)
  BY <1>6 DEF Commit
<1>7. CASE Raises(c)
  BY <1>7 DEF Raises
<1>8. CASE Rollback(c)
  BY <1>8 DEF Rollback
<1>9. CASE Release(c)
  BY <1>9, CallFacts DEF Release
<1>10. CASE Return(c)
  BY <1>10 DEF Return
<1> QED
  BY <1>1, <1>2, <1>3, <1>4, <1>5, <1>6, <1>7, <1>8, <1>9, <1>10 DEF Continue

-----------------------------------------------------------------------------
\* Data: what a step does to the disk, to the connection and to what was fetched.

\* The row and the trace of a committed ticket.
LEMMA CommittedRow ==
  ASSUME TypeOK, Committed, NEW i \in Ids
  PROVE  /\ disk.rows[i] = NoRow <=> TicketIn(disk, i) = Absent
         /\ disk.rows[i] = NoRow => disk.steps[i] = <<>>
         /\ disk.rows[i] # NoRow =>
              Check(disk.rows[i].status, disk.rows[i].reply, disk.rows[i].reason)
         /\ TicketIn(disk, i) \in Meant
<1> DEFINE r == disk.rows[i]
           tr == disk.steps[i]
<1>1. r \in Rows /\ TicketIn(disk, i) = TicketOf(r, tr)
  BY DEF TypeOK, Database, TicketIn
<1>2. r = Row(r.status, r.reply, r.reason)
  BY <1>1 DEF Rows, NoRow, Row
<1> HIDE DEF r, tr
<1>3. CASE TicketIn(disk, i) = Absent
  <2>1. r.status = "absent" /\ r.reply = None /\ r.reason = None /\ tr = <<>>
    BY <1>1, <1>3 DEF TicketOf, Absent
  <2>2. r = NoRow
    BY <1>2, <2>1 DEF NoRow
  <2> QED BY <1>3, <2>1, <2>2 DEF r, tr, Meant
<1>4. CASE TicketIn(disk, i) = New
  <2>1. r.status = "processing" /\ r.reply = None /\ r.reason = None
    BY <1>1, <1>4 DEF TicketOf, New, Absent
  <2>2. r # NoRow /\ New # Absent
    BY <2>1 DEF NoRow, Row, New, Absent
  <2> QED BY <1>4, <2>1, <2>2 DEF r, tr, Meant, Check
<1>5. ASSUME NEW o \in Outcomes, Check(o.status, o.reply, o.reason), TicketIn(disk, i) = o
      PROVE  /\ r # NoRow /\ o # Absent /\ Check(r.status, r.reply, r.reason) /\ o \in Meant
  <2>1. r.status = o.status /\ r.reply = o.reply /\ r.reason = o.reason
    BY <1>1, <1>5 DEF TicketOf
  <2>2. r.status # "absent"
    BY <1>5, <2>1 DEF Check
  <2> QED BY <1>5, <2>1, <2>2 DEF NoRow, Row, Absent, Meant
<1> QED BY <1>3, <1>4, <1>5 DEF Committed, r, tr

\* Who is inside an operation is alone there.
LEMMA Alone ==
  ASSUME LockFits, NEW c \in Callers, pc[c] \in Locked
  PROVE  lock = c /\ \A d \in Callers \ {c} : pc[d] \notin Locked
BY DEF LockFits

\* What the holder of the lock has to see to, for the others are outside.
LEMMA HolderStep ==
  ASSUME LockFits, LockFits', NEW c \in Callers, pc[c] \in Locked,
         \A d \in Callers \ {c} : pc'[d] = pc[d],
         (pc[c] \notin Dirty \/ closed => conn = disk)',
         (pc[c] \in Dirty \ {"rollback"} /\ ~closed => WrittenBy(c, conn.rows, conn.steps))'
  PROVE  TransactionFits'
<1>1. \A d \in Callers \ {c} : pc'[d] \notin Locked
  BY Alone
<1>2. Dirty \subseteq Locked
  BY DEF Dirty, Locked, Writing
<1>3. lock' = None => pc'[c] \notin Locked
  BY CallersAssumption DEF LockFits
<1> QED BY <1>1, <1>2, <1>3 DEF TransactionFits

\* Whoever is outside and stays there does nothing to a transaction of another.
LEMMA OutsiderStep ==
  ASSUME TransactionFits, NEW c \in Callers, UNCHANGED <<disk, conn, closed, lock>>,
         pc'[c] \notin Locked,
         \A d \in Callers \ {c} : pc'[d] = pc[d] /\ calls'[d] = calls[d]
  PROVE  TransactionFits'
<1>1. Dirty \subseteq Locked
  BY DEF Dirty, Locked, Writing
<1>2. ASSUME NEW d \in Callers \ {c}, WrittenBy(d, conn.rows, conn.steps)
      PROVE  WrittenBy(d, conn.rows, conn.steps)'
  BY <1>2 DEF WrittenBy
<1> QED BY <1>1, <1>2 DEF TransactionFits

LEMMA ContinueKeepsTransactions ==
  ASSUME TypeOK, ControlFits, LockFits, LockFits', TransactionFits,
         NEW c \in Callers, Continue(c)
  PROVE  TransactionFits'
<1>a. ASSUME pc[c] # "idle" PROVE calls[c].id \in Ids
  BY <1>a, CallFacts
<1> USE DEF Goto, TypeOK, Says
<1>1. CASE Acquire(c)
  <2>1. conn = disk /\ \A d \in Callers : pc[d] \notin Locked
    BY <1>1, CallersAssumption DEF Acquire, TransactionFits, LockFits
  <2>2. pc'[c] \notin Dirty /\ \A d \in Callers \ {c} : pc'[d] = pc[d]
    BY <1>1, CallFacts DEF Acquire, First, Dirty
  <2>3. UNCHANGED <<disk, conn, closed>> /\ Dirty \subseteq Locked
    BY <1>1 DEF Acquire, Dirty, Locked, Writing
  <2> QED BY <2>1, <2>2, <2>3 DEF TransactionFits
<1>2. CASE Insert(c)
  <2>1. /\ pc[c] = "insert" /\ pc' = [pc EXCEPT ![c] = "commit"] /\ ~closed
        /\ UNCHANGED <<disk, closed, calls>> /\ conn.rows[calls[c].id] = NoRow
    BY <1>2 DEF Insert, Stores, Statement
  <2>2. /\ pc[c] \in Locked \ Dirty /\ conn = disk
    BY <2>1 DEF TransactionFits, Locked, Dirty, Writing
  <2>3. /\ conn'.rows = [conn.rows EXCEPT ![calls[c].id] = Row("processing", None, None)]
        /\ conn'.steps = conn.steps
    BY <1>2, <1>a, <2>1, WriteRow, RowTypes DEF Insert
  <2>4. WrittenBy(c, conn.rows, conn.steps)'
    BY <2>1, <2>2, <2>3 DEF WrittenBy, ControlFits
  <2> QED BY <2>1, <2>2, <2>4, HolderStep DEF Dirty
<1>3. CASE Update(c)
  <2> DEFINE o == calls[c].outcome
  <2>1. /\ pc[c] = "update" /\ pc' = [pc EXCEPT ![c] = "delete"] /\ ~closed
        /\ UNCHANGED <<disk, closed, calls>> /\ conn.rows[calls[c].id] # NoRow
        /\ Check(o.status, o.reply, o.reason)
    BY <1>3 DEF Update, Stores, Statement
  <2>2. pc[c] \in Locked \ Dirty /\ conn = disk
    BY <2>1 DEF TransactionFits, Locked, Dirty, Writing
  <2>3. calls[c].op = "finalise" /\ o \in Outcomes
    BY <2>1, CallFacts DEF ControlFits
  <2>4. /\ conn'.rows = [conn.rows EXCEPT ![calls[c].id] = Row(o.status, o.reply, o.reason)]
        /\ conn'.steps = conn.steps
    BY <1>3, <1>a, <2>1, <2>3, WriteRow, RowTypes DEF Update
  <2>5. WrittenBy(c, conn.rows, conn.steps)'
    BY <2>1, <2>2, <2>3, <2>4 DEF WrittenBy
  <2> QED BY <2>1, <2>2, <2>5, HolderStep DEF Dirty
<1>4. CASE Delete(c)
  <2>1. /\ pc[c] = "delete" /\ pc' = [pc EXCEPT ![c] = "insert_steps"] /\ ~closed
        /\ UNCHANGED <<disk, closed, calls>>
    BY <1>4 DEF Delete, Stores, Statement
  <2>2. pc[c] \in Locked /\ WrittenBy(c, conn.rows, conn.steps) /\ calls[c].op = "finalise"
    BY <2>1 DEF TransactionFits, ControlFits, Locked, Dirty, Writing
  <2>3. /\ conn'.rows = conn.rows
        /\ conn'.steps = [conn.steps EXCEPT ![calls[c].id] = <<>>]
    BY <1>4, <1>a, <2>1, WriteSteps, RowTypes DEF Delete
  <2>4. WrittenBy(c, conn.rows, conn.steps)'
    BY <2>1, <2>2, <2>3 DEF WrittenBy
  <2> QED BY <2>1, <2>2, <2>4, HolderStep DEF Dirty
<1>5. CASE InsertSteps(c)
  <2>1. /\ pc[c] = "insert_steps" /\ pc' = [pc EXCEPT ![c] = "commit"] /\ ~closed
        /\ UNCHANGED <<disk, closed, calls>>
    BY <1>5 DEF InsertSteps, Stores, Statement
  <2>2. pc[c] \in Locked /\ WrittenBy(c, conn.rows, conn.steps) /\ calls[c].op = "finalise"
    BY <2>1 DEF TransactionFits, ControlFits, Locked, Dirty, Writing
  <2>3. calls[c].outcome.trace \in Traces
    BY <2>1, <2>2, CallFacts, RowTypes
  <2>4. /\ conn'.rows = conn.rows
        /\ conn'.steps = [conn.steps EXCEPT ![calls[c].id] = calls[c].outcome.trace]
    BY <1>5, <1>a, <2>1, <2>3, WriteSteps DEF InsertSteps
  <2>5. conn.steps = [disk.steps EXCEPT ![calls[c].id] = <<>>]
    BY <2>1, <2>2 DEF WrittenBy
  <2>6. conn'.steps = [disk.steps EXCEPT ![calls[c].id] = calls[c].outcome.trace]
    BY <2>4, <2>5, <1>a, <2>1 DEF Database
  <2>7. WrittenBy(c, conn.rows, conn.steps)'
    BY <2>1, <2>2, <2>4, <2>6 DEF WrittenBy
  <2> QED BY <2>1, <2>2, <2>7, HolderStep DEF Dirty
<1>6. CASE InsertRefused(c) \/ UpdateNothing(c) \/ UpdateRefused(c)
  <2>1. /\ pc[c] \in Locked \ Dirty /\ pc' = [pc EXCEPT ![c] = "rollback"]
        /\ UNCHANGED <<disk, conn, closed>>
    BY <1>6 DEF InsertRefused, UpdateNothing, UpdateRefused, Refuses, Statement,
                Locked, Dirty, Writing
  <2> QED BY <2>1, HolderStep DEF TransactionFits, Dirty
<1>7. CASE SelectNothing(c) \/ SelectRow(c) \/ SelectSteps(c)
  <2>1. /\ pc[c] \in Locked \ Dirty /\ \A d \in Callers \ {c} : pc'[d] = pc[d]
        /\ UNCHANGED <<disk, conn, closed>> /\ pc'[c] \in {"release", "select_steps"}
    BY <1>7 DEF SelectNothing, SelectRow, SelectSteps, Statement, Locked, Dirty, Reading, Writing
  <2> QED BY <2>1, HolderStep DEF TransactionFits, Dirty
<1>8. CASE Build(c) \/ Return(c)
  <2>1. UNCHANGED <<disk, conn, closed, lock>> /\ pc'[c] \in {"return", "idle"}
    BY <1>8 DEF Build, Return
  <2>2. \A d \in Callers \ {c} : pc'[d] = pc[d] /\ calls'[d] = calls[d]
    BY <1>8 DEF Build, Return
  <2> QED BY <2>1, <2>2, OutsiderStep DEF Locked, Reading, Writing
<1>9. CASE Commit(c)
  <2>1. /\ pc[c] \in Locked /\ pc' = [pc EXCEPT ![c] = "release"]
        /\ disk' = conn /\ conn' = conn
    BY <1>9 DEF Commit, Locked, Writing
  <2> QED BY <2>1, HolderStep DEF Dirty
<1>10. CASE Raises(c)
  <2>1. /\ pc[c] \in Locked /\ \A d \in Callers \ {c} : pc'[d] = pc[d]
        /\ UNCHANGED <<disk, conn, closed>>
        /\ \/ pc'[c] = "rollback"
           \/ pc[c] \in Reading /\ pc'[c] = "release"
    BY <1>10 DEF Raises, Locked, Reading, Writing
  <2> QED BY <2>1, HolderStep DEF TransactionFits, Dirty, Reading, Locked, Writing
<1>11. CASE Rollback(c)
  <2>1. /\ pc[c] \in Locked /\ pc' = [pc EXCEPT ![c] = "release"]
        /\ conn' = disk /\ disk' = disk
    BY <1>11 DEF Rollback, Locked
  <2> QED BY <2>1, HolderStep DEF Dirty
<1>12. CASE Release(c)
  <2>1. /\ pc[c] \in Locked \ Dirty /\ \A d \in Callers \ {c} : pc'[d] = pc[d]
        /\ UNCHANGED <<disk, conn, closed>> /\ pc'[c] \in {"build", "return"}
    BY <1>12 DEF Release, Locked, Dirty, Writing
  <2> QED BY <2>1, HolderStep DEF TransactionFits, Dirty
<1> QED
  BY <1>1, <1>2, <1>3, <1>4, <1>5, <1>6, <1>7, <1>8, <1>9, <1>10, <1>11, <1>12 DEF Continue

\* What a commit puts on the disk.
LEMMA CommitWrites ==
  ASSUME IInv, NEW c \in Callers, Commit(c)
  PROVE  LET call == calls[c] IN
         /\ call.id \in Ids
         /\ \A i \in Ids \ {call.id} : TicketIn(disk', i) = TicketIn(disk, i)
         /\ IF call.op = "create"
            THEN disk.rows[call.id] = NoRow /\ TicketIn(disk', call.id) = New
            ELSE /\ call.op = "finalise" /\ disk.rows[call.id] # NoRow
                 /\ call.outcome \in Outcomes
                 /\ Check(call.outcome.status, call.outcome.reply, call.outcome.reason)
                 /\ TicketIn(disk', call.id) = call.outcome
<1> DEFINE call == calls[c]
           o == call.outcome
<1>1. /\ pc[c] = "commit" /\ ~closed /\ disk' = conn /\ disk \in Database
  BY DEF Commit, Goto, IInv, TypeOK
<1>2. WrittenBy(c, conn.rows, conn.steps)
  BY <1>1 DEF IInv, TransactionFits, Dirty
<1>3. call.id \in Ids /\ call.op \in {"create", "finalise"}
        /\ (call.op = "finalise" => o \in Outcomes)
  BY <1>1, CallFacts DEF IInv, ControlFits
<1>4. CASE call.op = "create"
  <2>1. /\ disk.rows[call.id] = NoRow
        /\ disk'.rows = [disk.rows EXCEPT ![call.id] = Row("processing", None, None)]
        /\ disk'.steps = disk.steps
    BY <1>1, <1>2, <1>4 DEF WrittenBy
  <2>2. disk.steps[call.id] = <<>>
    BY <1>3, <2>1, CommittedRow DEF IInv
  <2>3. TicketIn(disk', call.id) = New
    <3>1. /\ disk'.rows[call.id] = Row("processing", None, None)
          /\ disk'.steps[call.id] = <<>>
      BY <1>1, <1>3, <2>1, <2>2 DEF Database
    <3> QED BY <3>1 DEF TicketIn, TicketOf, Row, New, Absent
  <2>4. \A i \in Ids \ {call.id} : TicketIn(disk', i) = TicketIn(disk, i)
    BY <1>1, <1>3, <2>1 DEF TicketIn, Database
  <2> QED BY <1>3, <1>4, <2>1, <2>3, <2>4
<1>5. CASE call.op = "finalise"
  <2>1. /\ disk.rows[call.id] # NoRow /\ Check(o.status, o.reply, o.reason)
        /\ disk'.rows = [disk.rows EXCEPT ![call.id] = Row(o.status, o.reply, o.reason)]
        /\ disk'.steps = [disk.steps EXCEPT ![call.id] = o.trace]
    BY <1>1, <1>2, <1>5 DEF WrittenBy
  <2>2. o = [status |-> o.status, reply |-> o.reply, reason |-> o.reason, trace |-> o.trace]
    BY <1>3, <1>5, OutcomesAssumption
  <2>3. disk'.rows[call.id] = Row(o.status, o.reply, o.reason) /\ disk'.steps[call.id] = o.trace
    BY <1>1, <1>3, <2>1 DEF Database
  <2>4. TicketIn(disk', call.id) = o
    BY <2>2, <2>3 DEF TicketIn, TicketOf, Row
  <2>5. \A i \in Ids \ {call.id} : TicketIn(disk', i) = TicketIn(disk, i)
    BY <1>1, <1>3, <2>1 DEF TicketIn, Database
  <2> QED BY <1>3, <1>5, <2>1, <2>4, <2>5
<1> QED BY <1>3, <1>4, <1>5

LEMMA ContinueKeepsCommitted ==
  ASSUME IInv, NEW c \in Callers, Continue(c)
  PROVE  Committed'
<1>1. CASE Commit(c)
  <2> SUFFICES ASSUME NEW i \in Ids
               PROVE  TicketIn(disk', i) \in {Absent, New}
                        \union { o \in Outcomes : Check(o.status, o.reply, o.reason) }
    BY DEF Committed
  <2> QED BY <1>1, CommitWrites DEF IInv, Committed
<1>2. CASE disk' = disk
  BY <1>2 DEF IInv, Committed, TicketIn
<1> QED
  BY <1>1, <1>2 DEF Continue, Acquire, Insert, InsertRefused, SelectNothing, SelectRow, SelectSteps,
     Build, UpdateNothing, UpdateRefused, Update, Delete, InsertSteps, Raises, Rollback, Release,
     Return, Stores, Refuses, Statement

\* What the second SELECT of a get answers with.
LEMMA GetReads ==
  ASSUME IInv, NEW c \in Callers, SelectSteps(c)
  PROVE  LET i == calls[c].id IN
         /\ i \in Ids /\ calls[c].op = "get" /\ disk.rows[i] # NoRow
         /\ fetched[c] = disk.rows[i]
         /\ TicketOf(fetched[c], conn.steps[i]) = TicketIn(disk, i)
<1>1. pc[c] = "select_steps"
  BY DEF SelectSteps, Statement, Goto
<1>2. conn = disk
  BY <1>1 DEF IInv, TransactionFits, Locked, Reading, Dirty
<1> QED BY <1>1, <1>2, CallFacts DEF IInv, FetchFits, ControlFits, Reading, TicketIn

\* A step of one caller leaves the others where they are, and the disk while another holds
\* the lock.
LEMMA OthersStay ==
  ASSUME IInv, NEW c \in Callers, Continue(c), NEW d \in Callers \ {c}
  PROVE  /\ UNCHANGED <<pc[d], fetched[d], answers[d], calls[d]>>
         /\ pc[d] \in Locked => disk' = disk
<1>1. UNCHANGED <<pc[d], fetched[d], answers[d], calls[d]>>
  BY DEF IInv, TypeOK, Continue, Acquire, Insert, InsertRefused, SelectNothing, SelectRow,
     SelectSteps, Build, UpdateNothing, UpdateRefused, Update, Delete, InsertSteps, Commit,
     Raises, Rollback, Release, Return, Stores, Refuses, Statement, Goto, Says
<1>2. pc[d] \in Locked => disk' = disk
  <2>1. pc[d] \in Locked => pc[c] \notin Locked
    BY Alone DEF IInv
  <2> QED
    BY <2>1 DEF Continue, Acquire, Insert, InsertRefused, SelectNothing, SelectRow,
       SelectSteps, Build, UpdateNothing, UpdateRefused, Update, Delete, InsertSteps, Commit,
       Raises, Rollback, Release, Return, Stores, Refuses, Statement, Goto, Locked, Writing
<1> QED BY <1>1, <1>2

LEMMA ContinueKeepsRefusals ==
  ASSUME IInv, NEW c \in Callers, Continue(c)
  PROVE  RefusalsFit'
<1>1. ASSUME NEW d \in Callers \ {c}, pc'[d] = "rollback"
      PROVE  (answers[d] = Answer("raised", Absent) \/ Refused(d))'
  <2>1. UNCHANGED <<pc[d], answers[d], calls[d]>> /\ disk' = disk
    BY <1>1, OthersStay DEF Locked
  <2> QED BY <1>1, <2>1 DEF IInv, RefusalsFit, Refused
<1>2. CASE InsertRefused(c) \/ UpdateNothing(c) \/ UpdateRefused(c)
  <2>1. pc[c] \in {"insert", "update"} /\ UNCHANGED <<disk, conn, calls>>
    BY <1>2 DEF InsertRefused, UpdateNothing, UpdateRefused, Refuses, Statement, Goto
  <2>2. conn = disk
    BY <2>1 DEF IInv, TransactionFits, Locked, Writing, Dirty
  <2>3. CASE InsertRefused(c)
    <3>1. /\ pc[c] = "insert" /\ conn.rows[calls[c].id] # NoRow
          /\ answers'[c] = Answer("TicketAlreadyExists", Absent)
      BY <2>3 DEF InsertRefused, Refuses, Statement, Goto, Says, IInv, TypeOK
    <3>2. calls[c].op = "create"
      BY <3>1 DEF IInv, ControlFits
    <3>3. Refused(c)'
      BY <2>1, <2>2, <3>1, <3>2 DEF Refused
    <3> QED BY <1>1, <3>3 DEF RefusalsFit
  <2>4. CASE UpdateNothing(c)
    <3>1. /\ pc[c] = "update" /\ conn.rows[calls[c].id] = NoRow
          /\ answers'[c] = Answer("TicketNotFound", Absent)
      BY <2>4 DEF UpdateNothing, Refuses, Statement, Goto, Says, IInv, TypeOK
    <3>2. calls[c].op = "finalise"
      BY <3>1 DEF IInv, ControlFits
    <3>3. Refused(c)'
      BY <2>1, <2>2, <3>1, <3>2 DEF Refused
    <3> QED BY <1>1, <3>3 DEF RefusalsFit
  <2>5. CASE UpdateRefused(c)
    <3> DEFINE o == calls[c].outcome
    <3>1. /\ pc[c] = "update" /\ conn.rows[calls[c].id] # NoRow
          /\ ~Check(o.status, o.reply, o.reason)
          /\ answers'[c] = Answer("IntegrityError", Absent)
      BY <2>5 DEF UpdateRefused, Refuses, Statement, Goto, Says, IInv, TypeOK
    <3>2. calls[c].op = "finalise"
      BY <3>1 DEF IInv, ControlFits
    <3>3. Refused(c)'
      BY <2>1, <2>2, <3>1, <3>2 DEF Refused
    <3> QED BY <1>1, <3>3 DEF RefusalsFit
  <2> QED BY <1>2, <2>3, <2>4, <2>5
<1>3. CASE Raises(c)
  <2>1. answers'[c] = Answer("raised", Absent)
    BY <1>3 DEF Raises, Says, IInv, TypeOK
  <2> QED BY <1>1, <2>1 DEF RefusalsFit
<1>4. CASE ~(InsertRefused(c) \/ UpdateNothing(c) \/ UpdateRefused(c) \/ Raises(c))
  <2>1. pc'[c] # "rollback"
    BY <1>4, CallFacts DEF IInv, TypeOK, Continue, Acquire, First, Insert, SelectNothing, SelectRow,
       SelectSteps, Build, Update, Delete, InsertSteps, Commit, Rollback, Release, Return,
       Stores, Statement, Goto
  <2> QED BY <1>1, <2>1 DEF RefusalsFit
<1> QED BY <1>2, <1>3, <1>4

LEMMA ContinueKeepsFetched ==
  ASSUME IInv, NEW c \in Callers, Continue(c)
  PROVE  FetchFits'
<1> DEFINE Fits(d) ==
      /\ pc[d] = "select_steps" =>
           fetched[d] = disk.rows[calls[d].id] /\ disk.rows[calls[d].id] # NoRow
      /\ pc[d] \in {"release", "build"} /\ calls[d].op = "get" /\ answers[d].result = "done" =>
           Check(fetched[d].status, fetched[d].reply, fetched[d].reason)
      /\ answers[d].ticket \in Meant
<1>1. \A d \in Callers : Fits(d)
  BY DEF IInv, FetchFits
<1>2. ASSUME NEW d \in Callers \ {c}
      PROVE  Fits(d)'
  <2>1. UNCHANGED <<pc[d], fetched[d], answers[d], calls[d]>>
    BY OthersStay
  <2>2. pc[d] = "select_steps" => disk' = disk
    BY OthersStay DEF Locked, Reading
  <2> QED BY <1>1, <2>1, <2>2
<1>3. Fits(c)'
  <2> USE DEF Goto, Says, Answer
  <2>a. Absent \in Meant
    BY DEF Meant
  <2>1. CASE Acquire(c) \/ Insert(c) \/ Update(c) \/ Delete(c) \/ InsertSteps(c)
    <3>1. /\ pc'[c] \notin {"select_steps", "release", "build"}
          /\ answers' = answers
      BY <2>1, CallFacts DEF Acquire, First, Insert, Update, Delete, InsertSteps, Stores, Statement,
         IInv, TypeOK
    <3> QED BY <1>1, <3>1
  <2>2. CASE InsertRefused(c) \/ UpdateNothing(c) \/ UpdateRefused(c)
    <3>1. pc'[c] = "rollback" /\ answers'[c].ticket = Absent
      BY <2>2 DEF InsertRefused, UpdateNothing, UpdateRefused, Refuses, Statement, IInv, TypeOK
    <3> QED BY <2>a, <3>1
  <2>3. CASE SelectNothing(c)
    <3>1. pc'[c] = "release" /\ answers'[c].ticket = Absent /\ answers'[c].result = "None"
      BY <2>3 DEF SelectNothing, Statement, IInv, TypeOK
    <3> QED BY <2>a, <3>1
  <2>4. CASE SelectRow(c)
    <3>1. pc[c] = "select_row" /\ pc'[c] = "select_steps" /\ answers' = answers
          /\ UNCHANGED <<disk, calls>> /\ conn.rows[calls[c].id] # NoRow
          /\ fetched'[c] = conn.rows[calls[c].id]
      BY <2>4 DEF SelectRow, Statement, IInv, TypeOK
    <3>2. conn = disk
      BY <3>1 DEF IInv, TransactionFits, Locked, Reading, Dirty
    <3> QED BY <1>1, <3>1, <3>2
  <2>5. CASE SelectSteps(c)
    <3>1. /\ pc'[c] = "release" /\ fetched' = fetched
          /\ answers'[c].ticket = TicketOf(fetched[c], conn.steps[calls[c].id])
      BY <2>5 DEF SelectSteps, Statement, IInv, TypeOK
    <3> QED BY <2>5, <3>1, GetReads, CommittedRow DEF IInv
  <2>6. CASE Build(c)
    <3>1. pc'[c] = "return" /\ answers'[c].ticket \in {answers[c].ticket, Absent}
      BY <2>6 DEF Build, IInv, TypeOK
    <3> QED BY <1>1, <2>a, <3>1
  <2>7. CASE Commit(c)
    <3>1. /\ pc[c] = "commit" /\ pc'[c] = "release" /\ calls' = calls
          /\ answers'[c].ticket = Absent
      BY <2>7 DEF Commit, IInv, TypeOK
    <3>2. calls[c].op # "get"
      BY <3>1 DEF IInv, ControlFits
    <3> QED BY <2>a, <3>1, <3>2
  <2>8. CASE Raises(c)
    <3>1. /\ pc'[c] \in {"release", "rollback"}
          /\ answers'[c].ticket = Absent /\ answers'[c].result = "raised"
      BY <2>8 DEF Raises, IInv, TypeOK
    <3> QED BY <2>a, <3>1
  <2>9. CASE Rollback(c)
    <3>1. /\ pc[c] = "rollback" /\ pc'[c] = "release" /\ calls' = calls
          /\ answers'[c].ticket \in {answers[c].ticket, Absent}
      BY <2>9 DEF Rollback, IInv, TypeOK
    <3>2. calls[c].op # "get"
      BY <3>1 DEF IInv, ControlFits
    <3> QED BY <1>1, <2>a, <3>1, <3>2
  <2>10. CASE Release(c)
    <3>1. /\ pc[c] = "release" /\ pc'[c] \in {"build", "return"}
          /\ UNCHANGED <<answers, calls, fetched>>
      BY <2>10 DEF Release, IInv, TypeOK
    <3> QED BY <1>1, <3>1
  <2>11. CASE Return(c)
    <3>1. pc'[c] = "idle" /\ answers'[c] = Pending
      BY <2>11 DEF Return, IInv, TypeOK
    <3> QED BY <2>a, <3>1 DEF Pending
  <2> QED
    BY <2>1, <2>2, <2>3, <2>4, <2>5, <2>6, <2>7, <2>8, <2>9, <2>10, <2>11 DEF Continue
<1> QED BY <1>2, <1>3 DEF FetchFits

-----------------------------------------------------------------------------
\* Types, and the invariant as a whole.

Spent == [calls : 0 .. MaxCalls, faults : 0 .. MaxFaults, restarts : 0 .. MaxRestarts]

LEMMA ContinueKeepsTypes ==
  ASSUME IInv, NEW c \in Callers, Continue(c)
  PROVE  TypeOK'
<1>a. TypeOK /\ calls[c] \in Calls \union {NoCall} /\ (pc[c] # "idle" => calls[c].id \in Ids)
  BY CallFacts DEF IInv, TypeOK
<1>b. \A result \in Results :
        Says(c, result, Absent) => answers' \in [Callers -> [result : Results,
          ticket : {Absent} \union { TicketOf(r, tr) : r \in Rows, tr \in Traces }]]
  BY <1>a, SaysTypes
<1> USE DEF Goto, Places, Locked, Reading, Writing
<1>1. CASE Acquire(c)
  BY <1>1, <1>a, CallFacts DEF IInv, Acquire, First, TypeOK
<1>2. CASE Insert(c)
  <2>1. conn' \in Database
    <3>1. Stores(c, "insert", "commit", "rows", Row("processing", None, None))
            /\ calls[c].id \in Ids /\ conn \in Database
      BY <1>2, <1>a DEF Insert, Stores, Statement, TypeOK
    <3> QED BY <3>1, WriteRow, RowTypes
  <2> QED BY <1>2, <1>a, <2>1 DEF Insert, Stores, Statement, TypeOK
<1>3. CASE Update(c)
  <2>1. pc[c] = "update" /\ calls[c].outcome \in Outcomes
    BY <1>3, CallFacts DEF Update, Stores, Statement, IInv, ControlFits
  <2>2. conn' \in Database
    <3> DEFINE o == calls[c].outcome
    <3>1. Stores(c, "update", "delete", "rows", Row(o.status, o.reply, o.reason))
            /\ calls[c].id \in Ids /\ conn \in Database
      BY <1>3, <1>a, <2>1 DEF Update, TypeOK
    <3>2. Row(o.status, o.reply, o.reason) \in Rows
      BY <2>1, RowTypes
    <3> QED BY <3>1, <3>2, WriteRow
  <2> QED BY <1>3, <1>a, <2>2 DEF Update, Stores, Statement, TypeOK
<1>4. CASE Delete(c)
  <2>1. conn' \in Database
    <3>1. Stores(c, "delete", "insert_steps", "steps", <<>>)
            /\ calls[c].id \in Ids /\ conn \in Database
      BY <1>4, <1>a DEF Delete, Stores, Statement, TypeOK
    <3> QED BY <3>1, WriteSteps, RowTypes
  <2> QED BY <1>4, <1>a, <2>1 DEF Delete, Stores, Statement, TypeOK
<1>5. CASE InsertSteps(c)
  <2>1. pc[c] = "insert_steps" /\ calls[c].outcome \in Outcomes
    BY <1>5, CallFacts DEF InsertSteps, Stores, Statement, IInv, ControlFits
  <2>2. conn' \in Database
    <3>1. Stores(c, "insert_steps", "commit", "steps", calls[c].outcome.trace)
            /\ calls[c].id \in Ids /\ conn \in Database
      BY <1>5, <1>a, <2>1 DEF InsertSteps, TypeOK
    <3>2. calls[c].outcome.trace \in Traces
      BY <2>1, RowTypes
    <3> QED BY <3>1, <3>2, WriteSteps
  <2> QED BY <1>5, <1>a, <2>2 DEF InsertSteps, Stores, Statement, TypeOK
<1>6. CASE InsertRefused(c) \/ UpdateNothing(c) \/ UpdateRefused(c)
  <2>1. \E result \in Results : Says(c, result, Absent)
    BY <1>6 DEF InsertRefused, UpdateNothing, UpdateRefused, Refuses, Results
  <2> QED
    BY <1>6, <1>a, <1>b, <2>1 DEF InsertRefused, UpdateNothing, UpdateRefused, Refuses, Statement, TypeOK
<1>7. CASE SelectNothing(c)
  <2>1. "None" \in Results
    BY DEF Results
  <2> QED BY <1>7, <1>a, <1>b, <2>1 DEF SelectNothing, Statement, TypeOK
<1>8. CASE SelectRow(c)
  <2>1. conn.rows[calls[c].id] \in Rows
    BY <1>8, <1>a DEF SelectRow, Statement, TypeOK, Database
  <2> QED BY <1>8, <1>a, <2>1 DEF SelectRow, Statement, TypeOK
<1>9. CASE SelectSteps(c)
  <2>1. "done" \in Results
    BY DEF Results
  <2>2. fetched[c] \in Rows /\ conn.steps[calls[c].id] \in Traces
    BY <1>9, <1>a DEF SelectSteps, Statement, TypeOK, Database
  <2>3. answers' \in [Callers -> [result : Results,
          ticket : {Absent} \union { TicketOf(r, tr) : r \in Rows, tr \in Traces }]]
    BY <1>9, <1>a, <2>1, <2>2, SaysTypes DEF SelectSteps
  <2> QED BY <1>9, <1>a, <2>3 DEF SelectSteps, Statement, TypeOK
<1>10. CASE Build(c)
  <2>1. "ValidationError" \in Results
    BY DEF Results
  <2>2. answers' \in [Callers -> [result : Results,
          ticket : {Absent} \union { TicketOf(r, tr) : r \in Rows, tr \in Traces }]]
    BY <1>10, <1>a, <1>b, <2>1 DEF Build, TypeOK
  <2> QED BY <1>10, <1>a, <2>2, RowTypes DEF Build, TypeOK
<1>11. CASE Commit(c)
  <2>1. "done" \in Results
    BY DEF Results
  <2> QED BY <1>11, <1>a, <1>b, <2>1 DEF Commit, TypeOK
<1>12. CASE Raises(c)
  <2>1. "raised" \in Results
    BY DEF Results
  <2>2. spent' \in Spent
    <3>1. CASE UNCHANGED spent
      BY <1>a, <3>1 DEF TypeOK, Spent
    <3>2. CASE spent.faults < MaxFaults /\ spent' = [spent EXCEPT !.faults = @ + 1]
      BY <1>a, <3>2, BoundsAssumption DEF TypeOK, Spent
    <3> QED BY <1>12, <3>1, <3>2 DEF Raises
  <2>3. pc' \in [Callers -> Places]
    BY <1>12, <1>a DEF Raises, TypeOK
  <2> QED BY <1>12, <1>a, <1>b, <2>1, <2>2, <2>3 DEF Raises, TypeOK, Spent
<1>13. CASE Rollback(c)
  <2>1. "raised" \in Results
    BY DEF Results
  <2>2. answers' \in [Callers -> [result : Results,
          ticket : {Absent} \union { TicketOf(r, tr) : r \in Rows, tr \in Traces }]]
    BY <1>13, <1>a, <1>b, <2>1 DEF Rollback, TypeOK
  <2> QED BY <1>13, <1>a, <2>2 DEF Rollback, TypeOK
<1>14. CASE Release(c)
  BY <1>14, <1>a DEF Release, TypeOK
<1>15. CASE Return(c)
  <2>1. Says(c, "pending", Absent) /\ "pending" \in Results
    BY <1>15 DEF Return, Says, Pending, Results
  <2>2. answers' \in [Callers -> [result : Results,
          ticket : {Absent} \union { TicketOf(r, tr) : r \in Rows, tr \in Traces }]]
    BY <1>b, <2>1
  <2> QED BY <1>15, <1>a, <2>2 DEF Return, TypeOK
<1> QED
  BY <1>1, <1>2, <1>3, <1>4, <1>5, <1>6, <1>7, <1>8, <1>9, <1>10, <1>11, <1>12, <1>13, <1>14, <1>15
     DEF Continue

LEMMA InitHolds == Init => IInv
<1> SUFFICES ASSUME Init PROVE IInv
  OBVIOUS
<1> USE DEF Init
<1>1. Empty \in Database
  BY RowTypes DEF Empty, Database
<1>2. TypeOK
  <2>1. spent \in [calls : 0 .. MaxCalls, faults : 0 .. MaxFaults, restarts : 0 .. MaxRestarts]
    BY BoundsAssumption
  <2>2. answers \in [Callers -> [result : Results,
          ticket : {Absent} \union { TicketOf(r, tr) : r \in Rows, tr \in Traces }]]
    BY DEF Pending, Answer, Results
  <2>3. /\ pc \in [Callers -> Places]
        /\ fetched \in [Callers -> Rows]
        /\ calls \in [Callers -> Calls \union {NoCall}]
    BY RowTypes DEF Places
  <2>4. disk \in Database /\ conn \in Database /\ closed \in BOOLEAN /\ lock \in Callers \union {None}
    BY <1>1
  <2> QED BY <2>1, <2>2, <2>3, <2>4 DEF TypeOK
<1>3. ControlFits
  BY DEF ControlFits, Unanswered, Reading
<1>4. LockFits
  BY CallersAssumption DEF LockFits, Locked, Writing, Reading
<1>5. Committed
  <2>1. \A i \in Ids : TicketIn(disk, i) = Absent
    BY DEF TicketIn, Empty, TicketOf, NoRow, Row, Absent
  <2> QED BY <2>1 DEF Committed
<1>6. TransactionFits
  BY DEF TransactionFits, Dirty
<1>7. FetchFits
  BY DEF FetchFits, Pending, Answer, Meant
<1>8. RefusalsFit
  BY DEF RefusalsFit
<1> QED BY <1>2, <1>3, <1>4, <1>5, <1>6, <1>7, <1>8 DEF IInv

LEMMA CallHolds ==
  ASSUME IInv, NEW c \in Callers, Call(c)
  PROVE  IInv'
<1>1. PICK call \in Calls : calls' = [calls EXCEPT ![c] = call]
  BY DEF Call
<1>2. /\ pc[c] = "idle" /\ pc' = [pc EXCEPT ![c] = "acquire"]
      /\ UNCHANGED <<disk, conn, closed, lock, fetched, answers>>
      /\ spent.calls < MaxCalls /\ spent' = [spent EXCEPT !.calls = @ + 1]
  BY DEF Call, Goto
<1>3. TypeOK'
  <2>1. spent' \in Spent
    BY <1>2, BoundsAssumption DEF IInv, TypeOK, Spent
  <2> QED BY <1>1, <1>2, <2>1 DEF IInv, TypeOK, Spent, Places
<1>4. ControlFits' /\ LockFits'
  BY CallKeepsControl DEF IInv
<1>5. Committed'
  BY <1>2 DEF IInv, Committed, TicketIn
<1>6. TransactionFits'
  <2>1. pc'[c] \notin Locked
    BY <1>2 DEF IInv, TypeOK, Locked, Reading, Writing
  <2>2. \A d \in Callers \ {c} : pc'[d] = pc[d] /\ calls'[d] = calls[d]
    BY <1>1, <1>2
  <2> QED BY <1>2, <2>1, <2>2, OutsiderStep DEF IInv
<1>7. FetchFits'
  BY <1>1, <1>2 DEF IInv, TypeOK, FetchFits
<1>8. RefusalsFit'
  BY <1>1, <1>2 DEF IInv, TypeOK, RefusalsFit, Refused
<1> QED BY <1>3, <1>4, <1>5, <1>6, <1>7, <1>8 DEF IInv

LEMMA CloseHolds ==
  ASSUME IInv, Close
  PROVE  IInv'
<1>1. closed' = TRUE /\ conn' = disk
      /\ UNCHANGED <<disk, lock, pc, fetched, calls, answers, spent>>
  BY DEF Close
<1>2. TypeOK' /\ Committed'
  BY <1>1 DEF IInv, TypeOK, Committed, TicketIn
<1>3. ControlFits' /\ LockFits'
  BY <1>1 DEF IInv, ControlFits, LockFits
<1>4. TransactionFits' /\ FetchFits' /\ RefusalsFit'
  BY <1>1 DEF IInv, TransactionFits, FetchFits, RefusalsFit, Refused
<1> QED BY <1>2, <1>3, <1>4 DEF IInv

LEMMA RestartHolds ==
  ASSUME IInv, Restart
  PROVE  IInv'
<1>1. /\ closed' = FALSE /\ conn' = disk /\ lock' = None /\ disk' = disk
      /\ pc' = [c \in Callers |-> "idle"]
      /\ fetched' = [c \in Callers |-> NoRow]
      /\ calls' = [c \in Callers |-> NoCall]
      /\ answers' = [c \in Callers |-> Pending]
      /\ spent.restarts < MaxRestarts /\ spent' = [spent EXCEPT !.restarts = @ + 1]
  BY DEF Restart
<1>2. TypeOK'
  <2>1. spent' \in Spent
    BY <1>1, BoundsAssumption DEF IInv, TypeOK, Spent
  <2>2. answers' \in [Callers -> [result : Results,
          ticket : {Absent} \union { TicketOf(r, tr) : r \in Rows, tr \in Traces }]]
    BY <1>1 DEF Pending, Answer, Results
  <2>3. /\ pc' \in [Callers -> Places]
        /\ fetched' \in [Callers -> Rows]
        /\ calls' \in [Callers -> Calls \union {NoCall}]
    BY <1>1, RowTypes DEF Places
  <2>4. disk \in Database
    BY DEF IInv, TypeOK
  <2>5. disk' \in Database /\ conn' \in Database /\ lock' \in Callers \union {None}
    BY <1>1, <2>4
  <2>6. closed' \in BOOLEAN
    BY <1>1
  <2> QED BY <2>1, <2>2, <2>3, <2>5, <2>6 DEF TypeOK, Spent
<1>3. ControlFits' /\ Committed'
  BY <1>1 DEF IInv, ControlFits, Unanswered, Reading, Committed, TicketIn
<1>4. LockFits'
  BY <1>1, CallersAssumption DEF LockFits, Locked, Reading, Writing
<1>5. TransactionFits'
  BY <1>1 DEF TransactionFits, Dirty
<1>6. FetchFits' /\ RefusalsFit'
  BY <1>1 DEF FetchFits, Pending, Answer, Meant, RefusalsFit
<1> QED BY <1>2, <1>3, <1>4, <1>5, <1>6 DEF IInv

LEMMA Inductive == IInv /\ [Next]_vars => IInv'
<1> SUFFICES ASSUME IInv, [Next]_vars PROVE IInv'
  OBVIOUS
<1>1. ASSUME NEW c \in Callers, Continue(c)
      PROVE  IInv'
  <2>1. ControlFits' /\ LockFits'
    BY <1>1, ContinueKeepsControl DEF IInv
  <2>2. TransactionFits'
    BY <1>1, <2>1, ContinueKeepsTransactions DEF IInv
  <2> QED
    BY <1>1, <2>1, <2>2, ContinueKeepsTypes, ContinueKeepsCommitted, ContinueKeepsFetched,
       ContinueKeepsRefusals DEF IInv
<1>2. ASSUME NEW c \in Callers, Call(c)
      PROVE  IInv'
  BY <1>2, CallHolds
<1>3. CASE Close
  BY <1>3, CloseHolds
<1>4. CASE Restart
  BY <1>4, RestartHolds
<1>5. CASE UNCHANGED vars
  <2> USE <1>5 DEF vars, IInv
  <2>1. TypeOK' /\ ControlFits' /\ LockFits'
    BY DEF TypeOK, ControlFits, LockFits
  <2>2. Committed' /\ TransactionFits' /\ FetchFits' /\ RefusalsFit'
    BY DEF Committed, TicketIn, TransactionFits, WrittenBy, FetchFits, RefusalsFit, Refused
  <2> QED BY <2>1, <2>2
<1> QED BY <1>1, <1>2, <1>3, <1>4, <1>5 DEF Next

LEMMA Invariant == Spec => []IInv
BY InitHolds, Inductive, PTL DEF Spec

-----------------------------------------------------------------------------
\* The tables, the threads' places and their answers keep their types.
THEOREM StoreTypeCorrect == Spec => []TypeOK
<1>1. IInv => TypeOK
  BY DEF IInv
<1> QED BY <1>1, Invariant, PTL

\* No crash, fault or reader ever comes upon a ticket that no single call has written.
THEOREM OutcomesAlwaysWhole == Spec => []OutcomesAreWhole
<1>1. IInv => OutcomesAreWhole
  BY DEF IInv, Committed, FetchFits, Meant, OutcomesAreWhole
<1> QED BY <1>1, Invariant, PTL

\* No transaction outlives the lock of the call that began it.
THEOREM TransactionsAlwaysLocked == Spec => []TransactionsAreLocked
<1>1. IInv => TransactionsAreLocked
  <2> SUFFICES ASSUME IInv PROVE TransactionsAreLocked
    OBVIOUS
  <2>1. ASSUME conn # disk
        PROVE  lock # None /\ pc[lock] \in (Writing \ {"insert", "update"}) \union {"rollback"}
    <3>1. lock \in Callers
      BY <2>1 DEF IInv, TransactionFits, TypeOK
    <3>2. pc[lock] \in Locked /\ pc[lock] \notin Locked \ Dirty
      BY <2>1, <3>1 DEF IInv, TransactionFits, LockFits
    <3> QED BY <3>1, <3>2, CallersAssumption DEF Dirty, Locked, Writing
  <2> QED BY <2>1 DEF IInv, LockFits, TransactionsAreLocked
<1> QED BY <1>1, Invariant, PTL

-----------------------------------------------------------------------------
\* The refinement.

LEMMA SameWords ==
  /\ Protocol!Absent = Absent /\ Protocol!New = New /\ Protocol!NoCall = NoCall
  /\ Protocol!Calls = Calls /\ Protocol!Pending = Pending
  /\ \A result, ticket : Protocol!Answer(result, ticket) = Answer(result, ticket)
  /\ \A s, r, h : Protocol!Check(s, r, h) <=> Check(s, r, h)
BY DEF Protocol!Absent, Absent, Protocol!New, New, Protocol!NoCall, NoCall, Protocol!Calls, Calls,
       Protocol!Pending, Pending, Protocol!Answer, Answer, Protocol!Check, Check

Tickets == [i \in Ids |-> TicketIn(disk, i)]

\* What a step of c makes of what its callers have been given.
LEMMA GivenBecomes ==
  ASSUME IInv, NEW c \in Callers, Continue(c)
  PROVE  Given' = [Given EXCEPT ![c] = IF pc'[c] = "rollback" THEN Pending ELSE answers'[c]]
<1>1. \A d \in Callers \ {c} : UNCHANGED <<pc[d], answers[d]>>
  BY OthersStay
<1> QED BY <1>1 DEF Given

LEMMA GivenStays ==
  ASSUME IInv, NEW c \in Callers, Continue(c),
         pc[c] # "rollback", pc'[c] # "rollback", UNCHANGED answers
  PROVE  UNCHANGED Given
<1>1. Given[c] = answers[c]
  BY DEF Given
<1>2. Given' = [Given EXCEPT ![c] = Given[c]]
  BY <1>1, GivenBecomes
<1> QED BY <1>2 DEF Given

\* Steps that change neither the disk, nor a call, nor what was given: a write that fails has
\* yet to be rolled back.
LEMMA SilentSteps ==
  ASSUME IInv, NEW c \in Callers,
         \/ Acquire(c) \/ Insert(c) \/ SelectRow(c) \/ Update(c) \/ Delete(c)
         \/ InsertSteps(c) \/ Release(c)
         \/ InsertRefused(c) \/ UpdateNothing(c) \/ UpdateRefused(c)
         \/ Raises(c) /\ pc[c] \in Writing
  PROVE  UNCHANGED <<Tickets, calls, Given>>
<1>1. Continue(c)
  BY DEF Continue
<1>2. UNCHANGED <<disk, calls>>
  BY DEF Acquire, Insert, SelectRow, Update, Delete, InsertSteps, Release, InsertRefused,
     UpdateNothing, UpdateRefused, Raises, Refuses, Stores, Statement
<1>3. CASE \/ Acquire(c) \/ Insert(c) \/ SelectRow(c) \/ Update(c) \/ Delete(c)
           \/ InsertSteps(c) \/ Release(c)
  <2>1. pc[c] # "rollback" /\ pc'[c] # "rollback" /\ UNCHANGED answers
    BY <1>3, CallFacts DEF Acquire, First, Insert, SelectRow, Update, Delete, InsertSteps, Release,
       Stores, Statement, Goto, IInv, TypeOK
  <2>2. UNCHANGED Given
    BY <1>1, <2>1, GivenStays
  <2> QED BY <1>2, <2>2 DEF Tickets, TicketIn
<1>4. CASE \/ InsertRefused(c) \/ UpdateNothing(c) \/ UpdateRefused(c)
           \/ Raises(c) /\ pc[c] \in Writing
  <2>1. pc[c] \in Writing /\ pc'[c] = "rollback"
    BY <1>4 DEF InsertRefused, UpdateNothing, UpdateRefused, Raises, Refuses, Statement, Goto,
       Writing, Reading, IInv, TypeOK
  <2>2. pc[c] # "rollback" /\ pc[c] \in Unanswered
    BY <2>1 DEF Writing, Unanswered
  <2>3. Given[c] = Pending
    BY <2>2 DEF IInv, ControlFits, Given
  <2>4. Given' = [Given EXCEPT ![c] = Pending]
    BY <1>1, <2>1, GivenBecomes
  <2>5. UNCHANGED Given
    BY <2>3, <2>4 DEF Given
  <2> QED BY <1>2, <2>5 DEF Tickets, TicketIn
<1> QED BY <1>3, <1>4

\* The instant of a call that changes nothing in the tables.
LEMMA AnswersOnly ==
  ASSUME IInv, NEW c \in Callers, pc[c] \in (Unanswered \ {"idle"}) \union {"rollback"},
         UNCHANGED <<disk, calls>>,
         \/ calls[c].op = "create" /\ Protocol!Create(c, calls[c].id)
         \/ calls[c].op = "get" /\ Protocol!Get(c, calls[c].id)
         \/ calls[c].op = "finalise" /\ Protocol!Finalise(c, calls[c].id, calls[c].outcome)
         \/ Protocol!Raise(c)
  PROVE  Protocol!Next
<1>1. calls[c] # Protocol!NoCall /\ Given[c] = Protocol!Pending
  BY SameWords DEF IInv, ControlFits, Given
<1>2. Protocol!Perform(c)
  BY <1>1 DEF Protocol!Perform
<1> QED BY <1>2 DEF Protocol!Next

LEMMA ReadsImplement ==
  ASSUME IInv, NEW c \in Callers,
         SelectNothing(c) \/ SelectSteps(c) \/ (Raises(c) /\ pc[c] \in Reading)
  PROVE  Protocol!Next
<1> DEFINE i == calls[c].id
<1>1. /\ pc[c] \in Reading /\ pc'[c] = "release" /\ Continue(c)
      /\ UNCHANGED <<disk, conn, calls>>
  BY DEF SelectNothing, SelectSteps, Raises, Statement, Goto, Reading, Continue, IInv, TypeOK
<1>2. i \in Ids /\ calls[c].op = "get" /\ pc[c] \in Unanswered \ {"idle"} /\ conn = disk
  BY <1>1, CallFacts DEF IInv, ControlFits, TransactionFits, Locked, Reading, Dirty, Unanswered
<1>3. /\ Tickets[i] = TicketIn(disk, i) /\ UNCHANGED Tickets
      /\ disk.rows[i] = NoRow <=> TicketIn(disk, i) = Absent
  BY <1>1, <1>2, CommittedRow DEF IInv, Tickets, TicketIn
<1>4. \A result, ticket : Says(c, result, ticket) =>
        Given' = [Given EXCEPT ![c] = Answer(result, ticket)]
  BY <1>1, GivenBecomes DEF Says, IInv, TypeOK
<1>5. CASE SelectNothing(c)
  <2>1. Tickets[i] = Absent /\ Given' = [Given EXCEPT ![c] = Answer("None", Absent)]
    BY <1>2, <1>3, <1>4, <1>5 DEF SelectNothing
  <2>2. Protocol!Get(c, i)
    BY <1>3, <2>1, SameWords DEF Protocol!Get, Protocol!Says, Tickets
  <2> QED BY <1>1, <1>2, <2>2, AnswersOnly
<1>6. CASE SelectSteps(c)
  <2>1. disk.rows[i] # NoRow /\ TicketOf(fetched[c], conn.steps[i]) = TicketIn(disk, i)
    BY <1>6, GetReads
  <2>2. Tickets[i] # Absent /\ Given' = [Given EXCEPT ![c] = Answer("done", Tickets[i])]
    BY <1>3, <1>4, <1>6, <2>1 DEF SelectSteps
  <2>3. Protocol!Get(c, i)
    BY <1>3, <2>2, SameWords DEF Protocol!Get, Protocol!Says, Tickets
  <2> QED BY <1>1, <1>2, <2>3, AnswersOnly
<1>7. CASE Raises(c)
  <2>1. Given' = [Given EXCEPT ![c] = Answer("raised", Absent)]
    BY <1>4, <1>7 DEF Raises
  <2>2. Protocol!Raise(c)
    BY <1>3, <2>1, SameWords DEF Protocol!Raise, Protocol!Says, Tickets
  <2> QED BY <1>1, <1>2, <2>2, AnswersOnly
<1> QED BY <1>5, <1>6, <1>7

LEMMA RollbackImplements ==
  ASSUME IInv, NEW c \in Callers, Rollback(c)
  PROVE  Protocol!Next
<1> DEFINE i == calls[c].id
           o == calls[c].outcome
<1>1. /\ pc[c] = "rollback" /\ pc'[c] = "release" /\ Continue(c)
      /\ UNCHANGED <<disk, calls>>
      /\ answers'[c] \in {answers[c], Answer("raised", Absent)}
  BY DEF Rollback, Says, Goto, Continue, IInv, TypeOK
<1>2. i \in Ids
  BY <1>1, CallFacts DEF IInv
<1>3. /\ Tickets[i] = TicketIn(disk, i) /\ UNCHANGED Tickets
      /\ disk.rows[i] = NoRow <=> TicketIn(disk, i) = Absent
  BY <1>1, <1>2, CommittedRow DEF IInv, Tickets, TicketIn
<1>4. Given' = [Given EXCEPT ![c] = answers'[c]]
  BY <1>1, GivenBecomes
<1>5. CASE answers'[c] = Answer("raised", Absent)
  <2>1. Protocol!Raise(c)
    BY <1>3, <1>4, <1>5, SameWords DEF Protocol!Raise, Protocol!Says, Tickets
  <2> QED BY <1>1, <2>1, AnswersOnly
<1>6. CASE Refused(c) /\ answers'[c] = answers[c]
  <2>1. CASE answers[c] = Answer("TicketAlreadyExists", Absent) /\ calls[c].op = "create"
             /\ disk.rows[i] # NoRow
    <3>1. Protocol!Create(c, i)
      BY <1>3, <1>4, <1>6, <2>1, SameWords DEF Protocol!Create, Protocol!Says, Tickets
    <3> QED BY <1>1, <2>1, <3>1, AnswersOnly
  <2>2. CASE answers[c] = Answer("TicketNotFound", Absent) /\ calls[c].op = "finalise"
             /\ disk.rows[i] = NoRow
    <3>1. Protocol!Finalise(c, i, o)
      BY <1>3, <1>4, <1>6, <2>2, SameWords DEF Protocol!Finalise, Protocol!Says, Tickets
    <3> QED BY <1>1, <2>2, <3>1, AnswersOnly
  <2>3. CASE answers[c] = Answer("IntegrityError", Absent) /\ calls[c].op = "finalise"
             /\ disk.rows[i] # NoRow /\ ~Check(o.status, o.reply, o.reason)
    <3>1. Protocol!Finalise(c, i, o)
      BY <1>3, <1>4, <1>6, <2>3, SameWords DEF Protocol!Finalise, Protocol!Says, Tickets
    <3> QED BY <1>1, <2>3, <3>1, AnswersOnly
  <2> QED BY <1>6, <2>1, <2>2, <2>3 DEF Refused
<1> QED BY <1>1, <1>5, <1>6 DEF IInv, RefusalsFit

LEMMA CommitImplements ==
  ASSUME IInv, NEW c \in Callers, Commit(c)
  PROVE  Protocol!Next
<1> DEFINE i == calls[c].id
           o == calls[c].outcome
<1>1. /\ pc[c] = "commit" /\ UNCHANGED calls
      /\ Given' = [Given EXCEPT ![c] = Answer("done", Absent)]
  <2>1. /\ pc[c] = "commit" /\ pc'[c] = "release" /\ UNCHANGED calls /\ Continue(c)
        /\ answers'[c] = Answer("done", Absent)
    BY DEF Commit, Goto, Says, Continue, IInv, TypeOK
  <2> QED BY <2>1, GivenBecomes
<1>2. calls[c] # Protocol!NoCall /\ Given[c] = Protocol!Pending
  BY <1>1, SameWords DEF IInv, ControlFits, Unanswered, Writing, Given
<1>3. i \in Ids /\ \A j \in Ids \ {i} : Tickets'[j] = Tickets[j]
  BY CommitWrites DEF Tickets
<1>4. /\ disk.rows[i] = NoRow <=> Tickets[i] = Absent
      /\ Tickets'[i] = TicketIn(disk', i)
  BY <1>3, CommittedRow DEF IInv, Tickets
<1>5. CASE calls[c].op = "create"
  <2>1. Tickets[i] = Absent /\ Tickets' = [Tickets EXCEPT ![i] = New]
    BY <1>3, <1>4, <1>5, CommitWrites DEF Tickets
  <2>2. Protocol!Create(c, i)
    BY <1>1, <2>1, SameWords DEF Protocol!Create, Protocol!Says, Tickets
  <2> QED BY <1>1, <1>2, <1>5, <2>2 DEF Protocol!Perform, Protocol!Next
<1>6. CASE calls[c].op # "create"
  <2>1. /\ Tickets[i] # Absent /\ Check(o.status, o.reply, o.reason)
        /\ calls[c].op = "finalise" /\ Tickets' = [Tickets EXCEPT ![i] = o]
    BY <1>3, <1>4, <1>6, CommitWrites DEF Tickets
  <2>2. Protocol!Finalise(c, i, o)
    BY <1>1, <2>1, SameWords DEF Protocol!Finalise, Protocol!Says, Tickets
  <2> QED BY <1>1, <1>2, <2>1, <2>2 DEF Protocol!Perform, Protocol!Next
<1> QED BY <1>5, <1>6

LEMMA CallsAndReturnsImplement ==
  ASSUME IInv, NEW c \in Callers, Call(c) \/ Return(c)
  PROVE  Protocol!Next
<1>1. UNCHANGED Tickets
  BY DEF Call, Return, Tickets, TicketIn
<1>2. CASE Call(c)
  <2>0. UNCHANGED Given
    <3>1. \A d \in Callers : pc'[d] = "rollback" <=> pc[d] = "rollback"
      BY <1>2 DEF Call, Goto, IInv, TypeOK
    <3> QED BY <1>2, <3>1 DEF Call, Given
  <2>1. Protocol!Invoke(c)
    BY <1>1, <1>2, <2>0, SameWords DEF Call, Goto, IInv, ControlFits, Protocol!Invoke, Tickets
  <2> QED BY <2>1 DEF Protocol!Next
<1>3. CASE Return(c)
  <2>1. pc[c] = "return" /\ pc'[c] = "idle" /\ Continue(c) /\ answers'[c] = Pending
    BY <1>3 DEF Return, Goto, Continue, IInv, TypeOK
  <2>2. Given[c] # Pending
    BY <2>1 DEF IInv, ControlFits, Unanswered, Reading, Writing, Given
  <2>3. Given' = [Given EXCEPT ![c] = Pending]
    BY <2>1, GivenBecomes
  <2>4. Protocol!Return(c)
    BY <1>1, <1>3, <2>2, <2>3, SameWords DEF Return, Protocol!Return, Tickets
  <2> QED BY <2>4 DEF Protocol!Next
<1> QED BY <1>2, <1>3

\* No caller replies with an empty text.
RepliesHaveWords == \A o \in Outcomes : o.reply # ""

\* A row that was committed passes the validator as well, if nobody replies with nothing.
LEMMA BuildIsSilent ==
  ASSUME IInv, RepliesHaveWords, NEW c \in Callers, Build(c)
  PROVE  UNCHANGED <<Tickets, calls, Given>>
<1>1. pc[c] = "build" /\ UNCHANGED <<disk, calls>>
  BY DEF Build, Goto
<1>2. calls[c].op = "get"
  BY <1>1 DEF IInv, ControlFits
<1>3. ASSUME answers[c].result = "done" PROVE Validates(fetched[c])
  <2>1. Check(fetched[c].status, fetched[c].reply, fetched[c].reason)
    BY <1>1, <1>2, <1>3 DEF IInv, FetchFits
  <2>2. fetched[c] \in Rows
    <3>1. fetched \in [Callers -> Rows]
      BY DEF IInv, TypeOK
    <3> QED BY <3>1
  <2>3. fetched[c].status = "replied" => fetched[c].reply # ""
    <3>1. CASE fetched[c] = NoRow \/ fetched[c] = Row("processing", None, None)
      <4>1. fetched[c].status \in {"absent", "processing"}
        BY <3>1 DEF NoRow, Row
      <4> QED BY <4>1
    <3>2. CASE \E o \in Outcomes : fetched[c] = Row(o.status, o.reply, o.reason)
      <4>1. PICK o \in Outcomes : fetched[c] = Row(o.status, o.reply, o.reason)
        BY <3>2
      <4>2. fetched[c].reply = o.reply
        BY <4>1 DEF Row
      <4>3. o.reply # ""
        BY Zenon DEF RepliesHaveWords
      <4> QED BY <4>2, <4>3
    <3> QED BY <2>2, <3>1, <3>2 DEF Rows
  <2> QED BY <2>1, <2>3 DEF Validates
<1>4. answers' = answers
  BY <1>3 DEF Build
<1>5. pc'[c] = "return" /\ Continue(c)
  BY DEF Build, Goto, Continue, IInv, TypeOK
<1> QED BY <1>1, <1>4, <1>5, GivenStays DEF Tickets, TicketIn

\* Under threads, faults, shutdown and restarts the repository is the atomic one that the
\* pipeline relies on, as long as no caller replies with an empty text, which the CHECK
\* accepts and the validator of Ticket does not.
THEOREM StoreImplementsTicketStore ==
  ASSUME RepliesHaveWords
  PROVE  Spec => ImplementsTicketStore
<1>1. Init => Protocol!Init
  <2> SUFFICES ASSUME Init PROVE Protocol!Init
    OBVIOUS
  <2>1. \A i \in Ids : TicketIn(disk, i) = Absent
    BY DEF Init, TicketIn, Empty, TicketOf, NoRow, Row, Absent
  <2>2. Given = [c \in Callers |-> Pending]
    BY DEF Init, Given
  <2> QED BY <2>1, <2>2, SameWords DEF Init, Protocol!Init
<1>2. IInv /\ [Next]_vars => [Protocol!Next]_<<Tickets, calls, Given>>
  <2> SUFFICES ASSUME IInv, [Next]_vars,
                      ~UNCHANGED <<Tickets, calls, Given>>
               PROVE  Protocol!Next
    OBVIOUS
  <2>1. ASSUME NEW c \in Callers, Continue(c)
        PROVE  Protocol!Next
    <3>1. CASE Raises(c)
      <4>1. pc[c] \in Writing \/ pc[c] \in Reading
        BY <3>1 DEF Raises
      <4> QED BY <3>1, <4>1, SilentSteps, ReadsImplement
    <3> QED BY <2>1, <3>1, SilentSteps, BuildIsSilent, ReadsImplement, RollbackImplements,
               CommitImplements, CallsAndReturnsImplement DEF Continue
  <2>2. ASSUME NEW c \in Callers, Call(c)
        PROVE  Protocol!Next
    BY <2>2, CallsAndReturnsImplement
  <2>3. CASE Close \/ UNCHANGED vars
    BY <2>3 DEF Close, vars, Tickets, TicketIn, Given
  <2>4. CASE Restart
    <3>1. UNCHANGED Tickets
      BY <2>4 DEF Restart, Tickets, TicketIn
    <3>2. Given' = [c \in Callers |-> Pending]
      BY <2>4 DEF Restart, Given
    <3>3. Protocol!Restart
      BY <2>4, <3>1, <3>2, SameWords DEF Restart, Protocol!Restart, Tickets
    <3> QED BY <3>3 DEF Protocol!Next
  <2> QED BY <2>1, <2>2, <2>3, <2>4 DEF Next
<1>3. Spec => Protocol!Spec
  BY <1>1, <1>2, Invariant, PTL DEF Spec, Protocol!Spec, Tickets
<1> QED BY <1>3 DEF ImplementsTicketStore
=============================================================================
