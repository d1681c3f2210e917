------------------------------- MODULE Domain -------------------------------
(***************************************************************************)
(* The vocabulary every component of the support assistant agrees on:      *)
(* the closed enumerations (enums.py), the ticket and its validator        *)
(* (domain.py) and the trace step types with theirs (tracing/models.py).   *)
(*                                                                         *)
(* A trace is a sequence of steps and `seq` is a step's position in it:    *)
(* the recorder numbers steps from 1 without gaps (recorder.py:65).        *)
(* Timestamps, keywords, arguments, summaries and messages are left out;   *)
(* a `detail` keeps only the tool it names, a reply only its template.     *)
(***************************************************************************)
EXTENDS Naturals, Sequences, SequencesExt

CONSTANT Tools      \* the tool names a model may put in a ToolCall
CONSTANT None       \* Python's None, where a field is optional

Registered == {"get_user", "get_invoices", "get_charging_sessions"}

ASSUME ToolsAssumption == None \notin Tools

-----------------------------------------------------------------------------
Intent == {"billing_question", "charging_session_problem", "unknown"}

Terminal == {"replied", "handed_off"}

TicketStatus == {"processing"} \union Terminal

HandoffReason ==
  {"USER_NOT_FOUND", "DATA_NOT_FOUND", "UNSUPPORTED_INTENT", "TOOL_ERROR",
   "ITERATION_CAP_EXCEEDED", "UNGROUNDED_REPLY"}

InvoiceStatus == {"paid", "pending", "failed"}

SessionStatus == {"completed", "interrupted", "failed"}

ReplyTemplate ==
  {"billing_all_paid", "billing_failed", "billing_pending",
   "session_completed", "session_interrupted"}

ASSUME NoneAssumption ==
  None \notin TicketStatus \union HandoffReason \union ReplyTemplate

\* The reason of a final decision, or of a ticket: one exactly when it is a handoff.
OutcomeAndReasonAgree(status, reason) ==
  \/ status = "replied" /\ reason = None
  \/ status = "handed_off" /\ reason \in HandoffReason

\* The three-way rule on a ticket, shared by the Ticket model and the CHECK of the schema.
StatusReplyAndReasonAgree(status, reply, reason) ==
  \/ status = "processing" /\ reply = None /\ reason = None
  \/ status = "replied" /\ reply \in ReplyTemplate /\ reason = None
  \/ status = "handed_off" /\ reply = None /\ reason \in HandoffReason

-----------------------------------------------------------------------------
\* The trace step types: one constructor each, and the set they build.

IntentClassified(i) == [type |-> "intent_classified", intent |-> i]

LLMDecision(i, d, t) ==
  [type |-> "llm_decision", iteration |-> i, decision |-> d, tool |-> t]

ToolCallStep(t) == [type |-> "tool_call", tool |-> t]

ToolResultStep(t, ok) == [type |-> "tool_result", tool |-> t, ok |-> ok]

GroundingCheck(passed) == [type |-> "grounding_check", passed |-> passed]

FinalDecision(o, r, d) ==
  [type |-> "final_decision", outcome |-> o, reason |-> r, detail |-> d]

\* `tool` is set exactly when the decision is a tool call.
LLMDecisions ==
  [type : {"llm_decision"}, iteration : Nat \ {0},
   decision : {"tool_call"}, tool : Tools]
  \union
  [type : {"llm_decision"}, iteration : Nat \ {0},
   decision : {"reply", "handoff"}, tool : {None}]

FinalDecisions ==
  { s \in [type : {"final_decision"}, outcome : Terminal,
           reason : HandoffReason \union {None}, detail : Tools \union {None}] :
      OutcomeAndReasonAgree(s.outcome, s.reason) }

TraceStep ==
  [type : {"intent_classified"}, intent : Intent]
    \union LLMDecisions
    \union [type : {"tool_call"}, tool : Tools]
    \union [type : {"tool_result"}, tool : Tools, ok : BOOLEAN]
    \union [type : {"grounding_check"}, passed : BOOLEAN]
    \union FinalDecisions

-----------------------------------------------------------------------------
\* The tools whose records a template's fields are filled from ...
RenderNeeds(template) ==
  {"get_user"}
    \union (IF template \in {"billing_failed", "billing_pending"} THEN {"get_invoices"} ELSE {})
    \union (IF template \in {"session_completed", "session_interrupted"}
            THEN {"get_charging_sessions"} ELSE {})

\* ... and those that source the status words of its prose as well.
Evidence(template) ==
  RenderNeeds(template) \union (IF template = "billing_all_paid" THEN {"get_invoices"} ELSE {})

-----------------------------------------------------------------------------
\* Reading a trace.

Positions(tr, type) == { n \in 1..Len(tr) : tr[n].type = type }

\* A final_decision in the last place, nowhere else, that says what is persisted.
EndsWithItsDecision(tr, status, reason) ==
  /\ tr # <<>>
  /\ Last(tr).type = "final_decision"
  /\ Last(tr).outcome = status
  /\ Last(tr).reason = reason
  /\ \A n \in 1 .. Len(tr) - 1 : tr[n].type # "final_decision"
=============================================================================
