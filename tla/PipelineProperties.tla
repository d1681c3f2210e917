------------------------- MODULE PipelineProperties -------------------------
(***************************************************************************)
(* What makes the pipeline correct.  The safety properties relate a stored *)
(* ticket, its trace, the counters and the point its handling has reached. *)
(***************************************************************************)
EXTENDS Pipeline

IsTerminal(t) == store[t].status \in Terminal

\* The traces there are: the one a run is building and the one a ticket was stored with.
Traces == { run[t].trace : t \in Tickets } \union { store[t].trace : t \in Tickets }

Decisions(tr) == Positions(tr, "llm_decision")

\* The decision that ended the loop, for a run that got that far.
LastDecision(tr) ==
  IF Decisions(tr) = {} THEN "none" ELSE tr[Max(Decisions(tr))].decision

OkTools(tr) == { tr[n].tool : n \in ToolResults(tr, TRUE) }

StoredAs(status) == { t \in Tickets : store[t].status = status }

StoredFor(reason) == { t \in Tickets : store[t].reason = reason }

-----------------------------------------------------------------------------
\* A terminal ticket's trace has exactly one final_decision, in the last place, agreeing
\* with the status and reason in the row; a ticket still processing shows no trace at all
\* (tracing/models.py:136, ADR 0013).
TerminalIsExplained ==
  \A t \in Tickets :
    IF IsTerminal(t)
    THEN EndsWithItsDecision(store[t].trace, store[t].status, store[t].reason)
    ELSE store[t].trace = <<>>

\* A failed tool result ends the decision making: no later step but the final decision
\* follows it, so a model never works around an error (orchestrator.py:188).
FailureEndsTheRun ==
  \A tr \in Traces :
    \A n \in ToolResults(tr, FALSE) :
      \A m \in n + 1 .. Len(tr) : m = n + 1 /\ tr[m].type = "final_decision"

\* Every tool_call is answered, by the very next step, by a tool_result of the same tool,
\* unless the tool is still running; so no stored trace holds an unanswered call
\* (orchestrator.py:180-185).
ToolCallsAreAnswered ==
  \A tr \in Traces :
    \A n \in Positions(tr, "tool_call") :
      \/ n < Len(tr) /\ tr[n + 1].type = "tool_result" /\ tr[n + 1].tool = tr[n].tool
      \/ n = Len(tr) /\ \E t \in Tickets : pc[t] = "tool" /\ run[t].inFlight = tr[n].tool

\* What a run knows is what its trace shows it was told: the history holds the tools whose
\* results were recorded as ok and no other (orchestrator.py:187-190).
HistoryIsTraced ==
  \A t \in Tickets : pc[t] \in Deciding => run[t].history = OkTools(run[t].trace)

\* The decisions of a trace are numbered 1, 2, ... and there are at most MAX_ITERATIONS.
LoopIsBounded ==
  \A tr \in Traces :
    /\ Cardinality(Decisions(tr)) <= MaxIterations
    /\ \A n \in Decisions(tr) :
         tr[n].iteration = Cardinality({ m \in Decisions(tr) : m <= n })

\* A reply is sent only after a passed grounding check that immediately precedes the final
\* decision, with every tool call succeeded and each tool the template speaks about among
\* them (orchestrator.py:215-235, templates.py:72-122).
RepliesAreEarned ==
  \A t \in StoredAs("replied") :
    LET tr == store[t].trace IN
    /\ Positions(tr, "grounding_check") = {Len(tr) - 1}
    /\ tr[Len(tr) - 1].passed
    /\ LastDecision(tr) = "reply"
    /\ ToolResults(tr, FALSE) = {}
    /\ Evidence(store[t].reply) \subseteq OkTools(tr)

\* Each handoff reason is backed by the step that produced it, unless the model gave it
\* (enums.py:75-91; orchestrator.py:158-212, 232-233).
ReasonsAreEarned ==
  \A t \in StoredAs("handed_off") :
    LET tr == store[t].trace
        reason == store[t].reason
        cause == tr[Len(tr) - 1]   \* an empty decision leaves no step before the last
    IN
    LastDecision(tr) = "handoff" \/
      /\ reason \in {"USER_NOT_FOUND", "DATA_NOT_FOUND"} =>
           /\ cause = ToolResultStep(Last(tr).detail, FALSE)
           /\ ToolResults(tr, FALSE) = {Len(tr) - 1}
      /\ reason = "UNSUPPORTED_INTENT" =>
           /\ Len(tr) = 2
           /\ cause = IntentClassified("unknown")
      /\ reason = "ITERATION_CAP_EXCEEDED" =>
           /\ Cardinality(Decisions(tr)) = MaxIterations
           /\ cause.type = "tool_result" /\ cause.ok
      /\ reason = "UNGROUNDED_REPLY" => cause = GroundingCheck(FALSE)
      /\ reason = "TOOL_ERROR" => Positions(tr, "grounding_check") = {}

\* A client that polls the instant it holds a 202 finds a ticket, whatever died or failed
\* since (api/routes.py:43-44); the run it was promised never starts on an unknown id.
AcceptedIsStored == \A t \in accepted : store[t] # NoTicket

\* The counters never claim an outcome storage does not hold (orchestrator.py:130-131),
\* and never a handoff that is not a ticket.
CountedIsStored ==
  /\ \A s \in Terminal : metrics.tickets[s] <= Cardinality(StoredAs(s))
  /\ \A r \in HandoffReason : metrics.handoffs[r] <= Cardinality(StoredFor(r))
  /\ SumFunction(metrics.handoffs) <= metrics.tickets["handed_off"]
  /\ SumFunction(metrics.iterations) <= SumFunction(metrics.tickets)

\* While the process lives, the counters miss exactly the runs that are between their
\* write and the counter in question (observability/metrics.py:249-270).
CountersMissOnlyTheCounting ==
  crashes = 0 =>
    LET Past(places) == { t \in Tickets : IsTerminal(t) /\ pc[t] \notin places }
        ended == Past(Counting)
    IN
    /\ \A s \in Terminal :
         metrics.tickets[s] = Cardinality(StoredAs(s) \intersect Past({"count_ticket"}))
    /\ \A r \in HandoffReason :
         metrics.handoffs[r] =
           Cardinality(StoredFor(r) \intersect Past({"count_ticket", "count_handoff"}))
    /\ SumFunction(metrics.iterations) = Cardinality(ended)
    /\ \A ok \in BOOLEAN :
         metrics.tools[ok] =
           SumFunction([t \in ended |-> Cardinality(ToolResults(store[t].trace, ok))])

\* A run that lost nothing to storage or to a crash ends with a terminal ticket: there is
\* no third way for one to be left in `processing` (orchestrator.py:209-212).
OnlyFaultsStrand ==
  \A t \in Tickets :
    store[t].status = "processing" /\ pc[t] \notin Handling => faults + crashes > 0

-----------------------------------------------------------------------------
\* Both terminal states are final (enums.py:28): no step changes a terminal row.
TerminalIsFinal == [][\A t \in Tickets : IsTerminal(t) => store'[t] = store[t]]_store

\* Every accepted ticket is handled to the end: it reaches a terminal state and is counted,
\* or its run was cut off by a failing repository or by the death of the process.
AcceptedIsSettled ==
  \A t \in Tickets :
    t \in accepted ~> \/ pc[t] = "ended" /\ IsTerminal(t)
                      \/ pc[t] \in Stranded

\* The pipeline keeps the promise of TicketLifecycle.
ViewOf(row) ==
  [status |-> row.status, reply |-> row.reply, reason |-> row.reason,
   explained |-> EndsWithItsDecision(row.trace, row.status, row.reason)]

Lifecycle ==
  INSTANCE TicketLifecycle WITH
    Reasons <- HandoffReason, Templates <- ReplyTemplate,
    view <- [t \in Tickets |-> ViewOf(store[t])]

ImplementsLifecycle == Lifecycle!Spec

-----------------------------------------------------------------------------
\* The inductive invariant behind the theorems of PipelineProofs: what a run's locals, a
\* row and a 202 look like at each place of the handling.

Undecided(tr) == \A n \in 1 .. Len(tr) : tr[n].type # "final_decision"

RunFits(place, r) ==
  /\ place = "decide" => r.iteration \in 1 .. MaxIterations + 1
  /\ place = "tool" => r.inFlight \in Tools /\ r.iteration \in 1 .. MaxIterations
  /\ place = "ground" => r.draft \in ReplyTemplate
  /\ place \in {"final", "write"} \union Counting => r.outcome.status \in Terminal
  /\ place \in Deciding \union {"final"} => Undecided(r.trace)
  /\ place = "write" =>
       EndsWithItsDecision(r.trace, r.outcome.status, r.outcome.reason)

RowFits(place, row) ==
  /\ place \in {"idle", "refused"} <=> row = NoTicket
  /\ place \in Handling \union {"read_failed", "write_failed"} => row = NewTicket
  /\ place \in Counting \union {"ended"} => row.status \in Terminal
  /\ row.status \in Terminal => EndsWithItsDecision(row.trace, row.status, row.reason)
  /\ row.status \notin Terminal => row.trace = <<>>

AcceptanceFits(place, isAccepted) ==
  /\ isAccepted => place \notin {"idle", "refused", "created"}
  /\ place \in Handling \ {"created"} => isAccepted

PlacesFit ==
  \A t \in Tickets :
    /\ RunFits(pc[t], run[t])
    /\ RowFits(pc[t], store[t])
    /\ AcceptanceFits(pc[t], t \in accepted)

IInv == TypeOK /\ PlacesFit
=============================================================================
