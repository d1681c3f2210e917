------------------------ MODULE GroundedRunProperties ------------------------
(***************************************************************************)
(* What grounding guarantees whatever the model does, what FakeLLM adds to *)
(* it, and what becomes of both when the fixtures change during a run.     *)
(***************************************************************************)
EXTENDS GroundedRun

TypeOK ==
  /\ fixtures \in Fixtures /\ edits \in 0 .. MaxEdits
  /\ client \in Clients /\ intent \in Intent
  /\ pc \in {"decide", "check_user", "read_rows", "ground", "end"}
  /\ inFlight \in [tool : Registered, user : UserIds] \union {None}
  /\ decisions \in 0 .. MaxIterations
  /\ Len(history) <= decisions
  /\ \A o \in ToSet(history) : o.tool \in Registered /\ o.user \in UserIds /\ o.records # <<>>
  /\ pc = "end" => OutcomeAndReasonAgree(outcome.status, outcome.reason)

Replied == outcome.status = "replied"

\* The users whose records a tool has returned.
Asked(tool) == { o.user : o \in { o \in ToSet(history) : o.tool = tool } }

Of(type) == { r \in UNION { ToSet(o.records) : o \in ToSet(history) } : r.type = type }

Newest(records) == { r \in records : \A other \in records : other.at <= r.at }

\* The text says of this invoice, or of this session, what it says of one.
CitesInvoice(r) ==
  /\ outcome.text.identifiers = {r.id} /\ r.status \in outcome.text.statuses
  /\ outcome.text.numbers = {r.amount} \union Safe(outcome.template)

CitesSession(r) ==
  r.station \in outcome.text.entities /\ outcome.text.numbers = {r.kwh, r.cost}

AboutAnInvoice == outcome.template \in {"billing_failed", "billing_pending"}

AboutASession == outcome.template \in {"session_completed", "session_interrupted"}

-----------------------------------------------------------------------------
\* The corners of verification.  A reply shows an amount with two decimals and the scan passes
\* over its sign; if what is left of it happened to be another number of the fixtures or a
\* whole one, which may be a count of rows or the days of the prose, the check would let it
\* through as that (guardrails/factset.py:105-117, guardrails/grounding.py:31).

NumbersOf(r) == IF r.type = "invoice" THEN {r.amount} ELSE {r.kwh, r.cost}

RowsOf(f, u) == UNION ({f.invoices[u], f.sessions[u]} \ {Broken})

Priced == UNION { UNION { RowsOf(f, u) : u \in UserIds } : f \in Fixtures }

NoCoincidence ==
  \A r \in Priced : \A n \in NumbersOf(r) :
    Written(n) # n => /\ Written(n) % 1000 # 0
                      /\ \A other \in Priced : Written(n) \notin NumbersOf(other)

-----------------------------------------------------------------------------
\* Whatever the model does, a reply that is sent tells the customer about one record that a
\* tool returned in this run, with that record's numbers and no one else's, and uses no status
\* word that no record has (guardrails/grounding.py:129-151, llm/templates.py:80-122).
RepliesAreSourced ==
  Replied =>
    /\ AboutAnInvoice => \E r \in Of("invoice") : CitesInvoice(r)
    /\ AboutASession => \E r \in Of("session") : CitesSession(r)
    /\ \A s \in outcome.text.statuses : \E r \in Of("invoice") \union Of("session") : r.status = s
    /\ \E r \in Of("user") : r.name \in outcome.text.entities

\* A check passes only if the tools that can source the template have returned: what Pipeline
\* takes for granted of a check it does not look into (pipeline/orchestrator.py:211-235).
PassedChecksHaveEvidence ==
  Replied => Evidence(outcome.template) \subseteq { o.tool : o \in ToSet(history) }

\* If nobody edits the fixtures during the run, then however often a model repeats a call,
\* the session a reply calls the most recent one is the newest of a user that the model asked
\* for, and an invoice it cites is the newest with its status of such a user: the ticket's own
\* if the model asks for no other, which nothing but the model sees to
\* (guardrails/factset.py:64-65, pipeline/orchestrator.py:177).
NewestUnlessEdited ==
  Replied /\ edits = 0 =>
    /\ AboutASession =>
         \E u \in Asked("get_charging_sessions") :
           \E r \in Newest(fixtures.sessions[u]) : CitesSession(r)
    /\ AboutAnInvoice =>
         \E u \in Asked("get_invoices") :
           \E r \in Newest({ i \in fixtures.invoices[u] : i.status \in outcome.text.statuses }) :
             CitesInvoice(r)

-----------------------------------------------------------------------------
\* Under FakeLLM a reply is about the ticket's user, and not only sourced but true of what its
\* one call of the intent's tool returned, edits or no edits: nothing outstanding means every
\* invoice is paid, a failed invoice comes before a pending one, and a session's status is its
\* own (llm/fake.py:91-122).
FakeRepliesAreTrue ==
  Replied /\ client = "fake" =>
    LET With(status) == { i \in Of("invoice") : i.status = status }
        All(status) == With(status) = Of("invoice")
    IN
    /\ \A o \in ToSet(history) : o.user = TicketUser
    /\ CASE outcome.template = "billing_all_paid" -> All("paid")
         [] outcome.template = "billing_failed" -> \A r \in Newest(With("failed")) : CitesInvoice(r)
         [] outcome.template = "billing_pending" ->
              With("failed") = {} /\ \A r \in Newest(With("pending")) : CitesInvoice(r)
         [] AboutASession ->
              \A r \in Newest(Of("session")) : CitesSession(r) /\ outcome.text.statuses = {r.status}

\* FakeLLM needs three decisions, and the check refuses its reply only over an amount that
\* two unsigned decimals cannot write.  With fixtures at rest the end of a run follows from
\* them: the first of the two files that is broken, or empty; a refusal if the record the
\* reply cites has such an amount; and a reply otherwise (llm/fake.py:11, domain.py:71,
\* guardrails/grounding.py:31, ADR 0009).
Unwritable(r) == \E n \in NumbersOf(r) : Written(n) # n

Cited(rows) ==
  LET With(status) == { r \in rows : r.status = status } IN
  IF intent # "billing_question" THEN Newest(rows)
  ELSE Newest(With(IF With("failed") # {} THEN "failed" ELSE "pending"))

EndFor(users, rows) ==
  IF users = Broken THEN "TOOL_ERROR" ELSE IF users = {} THEN "USER_NOT_FOUND"
  ELSE IF rows = Broken THEN "TOOL_ERROR" ELSE IF rows = {} THEN "DATA_NOT_FOUND"
  ELSE IF \E r \in Cited(rows) : Unwritable(r) THEN "UNGROUNDED_REPLY" ELSE None

FakeEndsAsPlanned ==
  client = "fake" =>
    /\ decisions <= 3
    /\ outcome.reason # "ITERATION_CAP_EXCEEDED"
    /\ outcome.reason = "UNGROUNDED_REPLY" => \E r \in Of("invoice") \union Of("session") : Unwritable(r)
    /\ pc = "end" /\ edits = 0 =>
         outcome.reason = EndFor(fixtures.users[TicketUser], File(DataTool, TicketUser))

-----------------------------------------------------------------------------
\* What the documentation says and the code does not do.

\* GUARDRAILS.md:129-130: layer 1 keeps a reply from stating a status that is not that of the
\* record it cites.
StatusIsTheCitedOnes ==
  Replied /\ AboutASession =>
    \E r \in Of("session") : CitesSession(r) /\ outcome.text.statuses = {r.status}
==============================================================================
