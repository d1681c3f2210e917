----------------------------- MODULE GroundedRun -----------------------------
(***************************************************************************)
(* One run with its data: the loaders (tools/loaders.py) over fixture      *)
(* files that may be edited between any two reads, a model, and a reply    *)
(* rendered and verified.  The model is FakeLLM (llm/fake.py), which asks  *)
(* for the ticket's user, or any other, which may ask for any user: a      *)
(* call's arguments are the model's, and nobody compares them with the     *)
(* ticket.  The steps that end a run at once (a call the registry refuses, *)
(* a hand-off of the model's own, an exception), and the trace, are        *)
(* Pipeline's.                                                             *)
(*                                                                         *)
(* A fixture file is, for each user, the set of that user's rows (of       *)
(* users.json the first, which is all that is read; none if the user is    *)
(* not known), or Broken: unreadable, or with a row of that user that does *)
(* not validate, as rows are filtered before they are validated.  Rows of  *)
(* one user are apart in time, the field `at`, so that sorting needs no    *)
(* rule for ties.                                                          *)
(***************************************************************************)
EXTENDS Grounding

CONSTANTS
  UserIds,         \* the users a call may ask for
  TicketUser,      \* the ticket's
  Fixtures,        \* the contents of the three files: [users, invoices, sessions]
  Clients,         \* "fake", "any" or both
  MaxIterations,   \* MAX_ITERATIONS
  MaxEdits,        \* bound: edits of the fixtures during a run
  Broken

\* A row that validates, and rows of one user none of which fails to.
Validates(row, type) ==
  /\ row # None /\ row.type = type /\ row.at \in Int
  /\ type = "invoice" => row.amount \in Int /\ row.status \in InvoiceStatus
  /\ type = "session" => row.kwh \in Int /\ row.cost \in Int /\ row.status \in SessionStatus

IsFile(rows, type) ==
  /\ IsFiniteSet(rows)
  /\ \A row \in rows : Validates(row, type)
  /\ \A row, other \in rows : row.at = other.at => row = other

ASSUME GroundedRunAssumption ==
  /\ TicketUser \in UserIds
  /\ Clients \subseteq {"fake", "any"}
  /\ MaxIterations \in Nat \ {0} /\ MaxEdits \in Nat
  /\ Broken # {}
  /\ \A f \in Fixtures : \A u \in UserIds :
       /\ f.users[u] = Broken \/ (IsFile(f.users[u], "user") /\ Cardinality(f.users[u]) <= 1)
       /\ f.invoices[u] = Broken \/ IsFile(f.invoices[u], "invoice")
       /\ f.sessions[u] = Broken \/ IsFile(f.sessions[u], "session")

VARIABLES
  fixtures, edits,   \* the files, and how often they have been edited
  client, intent,    \* the model, and what it classified the ticket as
  pc,                \* where the run stands
  inFlight,          \* the call that is running: [tool, user]
  history,           \* what the tools have returned: [tool, user, records]
  decisions,         \* how many decisions the model has taken
  outcome            \* [status, reason, template, text]

vars == <<fixtures, edits, client, intent, pc, inFlight, history, decisions, outcome>>

Undecided == [status |-> "processing", reason |-> None, template |-> None, text |-> NoText]

Init ==
  /\ fixtures \in Fixtures
  /\ edits = 0
  /\ client \in Clients
  /\ intent \in Intent \ {"unknown"}
  /\ pc = "decide"
  /\ inFlight = None
  /\ history = <<>>
  /\ decisions = 0
  /\ outcome = Undecided

Goto(from, to) == pc = from /\ pc' = to

HandOff(reason) == outcome' = [Undecided EXCEPT !.status = "handed_off", !.reason = reason]

\* A reviewer edits the fixtures while the service runs.
Edit ==
  /\ pc # "end"
  /\ edits < MaxEdits
  /\ edits' = edits + 1
  /\ \E f \in Fixtures \ {fixtures} : fixtures' = f
  /\ UNCHANGED <<client, intent, pc, inFlight, history, decisions, outcome>>

-----------------------------------------------------------------------------
\* The model: a step is [decision, tool, user] or [decision, template].

DataTool == IF intent = "billing_question" THEN "get_invoices" ELSE "get_charging_sessions"

\* What the fake reads: the first observation of the intent's tool.
FirstResult(tool) ==
  LET first == CHOOSE n \in 1 .. Len(history) :
                 history[n].tool = tool /\ \A m \in 1 .. n - 1 : history[m].tool # tool
  IN history[first].records

\* Bug: a pending invoice is looked for before a failed one.
TemplateForPending ==
  LET records == FirstResult(DataTool)
      statuses == { r.status : r \in ToSet(records) } IN
  IF intent = "billing_question"
  THEN IF "pending" \in statuses THEN "billing_pending"
       ELSE IF "failed" \in statuses THEN "billing_failed" ELSE "billing_all_paid"
  ELSE IF Head(records).status = "completed" THEN "session_completed" ELSE "session_interrupted"

TemplateFor ==
  LET records == FirstResult(DataTool)
      statuses == { r.status : r \in ToSet(records) } IN
  IF intent = "billing_question"
  THEN IF "failed" \in statuses THEN "billing_failed"
       ELSE IF "pending" \in statuses THEN "billing_pending" ELSE "billing_all_paid"
  ELSE IF Head(records).status = "completed" THEN "session_completed" ELSE "session_interrupted"

Call(tool, user) == [decision |-> "tool_call", tool |-> tool, user |-> user]

ReplyWith(template) == [decision |-> "reply", template |-> template]

FakeStep ==
  LET called == { o.tool : o \in ToSet(history) } IN
  IF "get_user" \notin called THEN Call("get_user", TicketUser)
  ELSE IF DataTool \notin called THEN Call(DataTool, TicketUser)
  ELSE ReplyWith(TemplateFor)

Steps ==
  IF client = "fake" THEN {FakeStep}
  ELSE { Call(tool, user) : tool \in Registered, user \in UserIds }
         \union { ReplyWith(t) : t \in ReplyTemplate }

Decide ==
  /\ decisions < MaxIterations
  /\ decisions' = decisions + 1
  /\ UNCHANGED <<fixtures, edits, client, intent, history>>

DecideToolCall ==
  \E step \in Steps :
    /\ step.decision = "tool_call"
    /\ Goto("decide", IF step.tool = "get_user" THEN "read_rows" ELSE "check_user")
    /\ Decide
    /\ inFlight' = [tool |-> step.tool, user |-> step.user]
    /\ UNCHANGED outcome

DecideReply ==
  \E step \in Steps :
    /\ step.decision = "reply"
    /\ Goto("decide", "ground")
    /\ Decide
    /\ outcome' = [outcome EXCEPT !.template = step.template]
    /\ UNCHANGED inFlight

IterationCapReached ==
  /\ Goto("decide", "end")
  /\ decisions = MaxIterations
  /\ HandOff("ITERATION_CAP_EXCEEDED")
  /\ UNCHANGED <<fixtures, edits, client, intent, inFlight, history, decisions>>

-----------------------------------------------------------------------------
\* The loaders.  A collection tool reads the users first, the rows after.

Reading == UNCHANGED <<fixtures, edits, client, intent, inFlight, decisions>>

\* What a call reads of its file: the rows of the user it asks for.
File(tool, user) ==
  CASE tool = "get_user" -> fixtures.users[user]
    [] tool = "get_invoices" -> fixtures.invoices[user]
    [] tool = "get_charging_sessions" -> fixtures.sessions[user]

Requested == File(inFlight.tool, inFlight.user)

Answered(records) == [tool |-> inFlight.tool, user |-> inFlight.user, records |-> records]

NewestFirst(rows) ==
  CHOOSE list \in [1 .. Cardinality(rows) -> rows] :
    /\ ToSet(list) = rows
    /\ \A m, n \in DOMAIN list : m < n => list[m].at > list[n].at

\* What a file without rows, or a broken one, comes to.
Fails(file, empty) ==
  \/ file = Broken /\ HandOff("TOOL_ERROR")
  \/ file = {} /\ HandOff(empty)

CheckUser ==
  /\ Goto("check_user", "read_rows")
  /\ fixtures.users[inFlight.user] \notin {Broken, {}}
  /\ Reading
  /\ UNCHANGED <<history, outcome>>

CheckUserFails ==
  /\ Goto("check_user", "end")
  /\ Fails(fixtures.users[inFlight.user], "USER_NOT_FOUND")
  /\ Reading
  /\ UNCHANGED history

\* Bugs: the newest rows come last; no rows are an empty answer.
ReadRowsOldestFirst ==
  /\ Goto("read_rows", "decide")
  /\ Requested \notin {Broken, {}}
  /\ history' = Append(history, Answered(Reverse(NewestFirst(Requested))))
  /\ Reading
  /\ UNCHANGED outcome

ReadRowsEvenNone ==
  /\ Goto("read_rows", "decide")
  /\ Requested # Broken
  /\ history' = Append(history, Answered(NewestFirst(Requested)))
  /\ Reading
  /\ UNCHANGED outcome

ReadRows ==
  /\ Goto("read_rows", "decide")
  /\ Requested \notin {Broken, {}}
  /\ history' = Append(history, Answered(NewestFirst(Requested)))
  /\ Reading
  /\ UNCHANGED outcome

ReadRowsFails ==
  /\ Goto("read_rows", "end")
  /\ Fails(Requested, IF inFlight.tool = "get_user" THEN "USER_NOT_FOUND" ELSE "DATA_NOT_FOUND")
  /\ Reading
  /\ UNCHANGED history

-----------------------------------------------------------------------------
\* _ground

Ground ==
  LET facts == Facts(history)
      template == outcome.template
      text == Render(template, facts)
  IN
  /\ Goto("ground", "end")
  /\ IF ~CanRender(template, facts) THEN HandOff("TOOL_ERROR")
     ELSE IF ~Grounded(text, facts, template) THEN HandOff("UNGROUNDED_REPLY")
     ELSE outcome' = [outcome EXCEPT !.status = "replied", !.text = text]
  /\ UNCHANGED <<fixtures, edits, client, intent, inFlight, history, decisions>>

Next ==
  \/ Edit
  \/ DecideToolCall \/ DecideReply \/ IterationCapReached
  \/ CheckUser \/ CheckUserFails \/ ReadRows \/ ReadRowsFails
  \/ Ground

Spec == Init /\ [][Next]_vars
=============================================================================
