------------------------------ MODULE Pipeline ------------------------------
(***************************************************************************)
(* The service from the acceptance of a ticket to its counted outcome:     *)
(* POST /tickets (api/routes.py), one background run of run_pipeline per   *)
(* ticket (pipeline/orchestrator.py), the repository seen through its      *)
(* protocol (storage/protocol.py), record_run (observability/metrics.py),  *)
(* and the process that hosts them all, which may die at any moment.       *)
(*                                                                         *)
(* Runs of different tickets interleave step by step.  What a run asks of  *)
(* the outside is nondeterministic: the model may classify, call, reply,   *)
(* give up or raise as it likes (llm/protocol.py, llm/ollama.py), a tool   *)
(* may fail in each way the loaders can (tools/loaders.py).  The           *)
(* repository's operations are atomic here, as its lock and transaction    *)
(* make them.  The process loses every run and every counter in a crash;   *)
(* nothing picks a ticket up again (ADR 0001).                             *)
(***************************************************************************)
EXTENDS Domain, FiniteSets

CONSTANTS
  Tickets,         \* the ticket ids clients submit
  MaxIterations,   \* MAX_ITERATIONS
  Intents,         \* the intents the model classifies into
  Templates,       \* the templates it may name in a Reply
  Reasons,         \* the reasons it may give in a Handoff
  MaxFaults,       \* bound: repository calls that raise
  MaxCrashes       \* bound: deaths of the process

ASSUME IterationsAssumption == MaxIterations \in Nat \ {0}
ASSUME ModelAssumption ==
  Intents \subseteq Intent /\ Templates \subseteq ReplyTemplate /\ Reasons \subseteq HandoffReason
ASSUME BoundsAssumption == MaxFaults \in Nat /\ MaxCrashes \in Nat

VARIABLES
  store,      \* the repository: ticket id -> ticket and its trace
  faults,     \* how many repository calls have raised
  accepted,   \* the ids some client was answered 202 for
  pc,         \* where the handling of each ticket stands
  run,        \* the locals of each run: recorder, loop variable, history, ...
  metrics,    \* the process-wide MetricRegistry
  crashes     \* how many times the process has died

vars == <<store, faults, accepted, pc, run, metrics, crashes>>

-----------------------------------------------------------------------------
NoTicket == [status |-> "absent", reply |-> None, reason |-> None, trace |-> <<>>]

NewTicket == [NoTicket EXCEPT !.status = "processing"]

StoredTicket ==
  { k \in [status : TicketStatus, reply : ReplyTemplate \union {None},
           reason : HandoffReason \union {None}, trace : Seq(TraceStep)] :
      StatusReplyAndReasonAgree(k.status, k.reply, k.reason) }

\* Until _decide returns, a run's outcome is "processing".
Outcome ==
  { o \in [status : TicketStatus, reply : ReplyTemplate \union {None},
           reason : HandoffReason \union {None}, detail : Tools \union {None}] :
      StatusReplyAndReasonAgree(o.status, o.reply, o.reason) }

Run == [trace : Seq(TraceStep), iteration : 0 .. MaxIterations + 1, history : SUBSET Tools,
        inFlight : Tools \union {None}, draft : ReplyTemplate \union {None},
        outcome : Outcome]

NoRun ==
  [trace |-> <<>>, iteration |-> 0, history |-> {}, inFlight |-> None, draft |-> None,
   outcome |-> [status |-> "processing", reply |-> None, reason |-> None, detail |-> None]]

MetricRegistry ==
  [tickets : [Terminal -> Nat], handoffs : [HandoffReason -> Nat],
   iterations : [0 .. MaxIterations -> Nat], tools : [BOOLEAN -> Nat], ungrounded : Nat]

NoMetrics ==
  [tickets |-> [s \in Terminal |-> 0], handoffs |-> [r \in HandoffReason |-> 0],
   iterations |-> [n \in 0 .. MaxIterations |-> 0], tools |-> [ok \in BOOLEAN |-> 0],
   ungrounded |-> 0]

\* Where a ticket's handling stands: the request thread, the run, record_run, ...
Deciding == {"classify", "decide", "tool", "ground"}
Handling == {"created", "scheduled"} \union Deciding \union {"final", "write"}
Counting == {"count_ticket", "count_handoff", "count_steps"}
Stranded == {"read_failed", "write_failed", "lost"}
Places == {"idle", "refused", "ended"} \union Handling \union Counting \union Stranded

TypeOK ==
  /\ store \in [Tickets -> {NoTicket} \union StoredTicket]
  /\ faults \in 0 .. MaxFaults
  /\ accepted \subseteq Tickets
  /\ pc \in [Tickets -> Places]
  /\ run \in [Tickets -> Run]
  /\ metrics \in MetricRegistry
  /\ crashes \in 0 .. MaxCrashes

Init ==
  /\ store = [t \in Tickets |-> NoTicket]
  /\ faults = 0
  /\ accepted = {}
  /\ pc = [t \in Tickets |-> "idle"]
  /\ run = [t \in Tickets |-> NoRun]
  /\ metrics = NoMetrics
  /\ crashes = 0

Goto(t, from, to) == pc[t] = from /\ pc' = [pc EXCEPT ![t] = to]

\* A step of a run that touches nothing but the run's own locals.
Local == UNCHANGED <<store, faults, accepted, metrics, crashes>>

Recorded(t, step) == Append(run[t].trace, step)

-----------------------------------------------------------------------------
\* POST /tickets: the row is written first, then the run is scheduled and 202 answered.

\* Bug: the row is left for the run to write.
CreateTicketUnwritten(t) ==
  /\ Goto(t, "idle", "created")
  /\ UNCHANGED <<store, faults, accepted, run, metrics, crashes>>

CreateTicket(t) ==
  /\ Goto(t, "idle", "created")
  /\ store' = [store EXCEPT ![t] = NewTicket]
  /\ UNCHANGED <<faults, accepted, run, metrics, crashes>>

CreateFails(t) ==
  /\ Goto(t, "idle", "refused")
  /\ faults < MaxFaults
  /\ faults' = faults + 1
  /\ UNCHANGED <<store, accepted, run, metrics, crashes>>

Accept(t) ==
  /\ Goto(t, "created", "scheduled")
  /\ accepted' = accepted \union {t}
  /\ UNCHANGED <<store, faults, run, metrics, crashes>>

-----------------------------------------------------------------------------
\* run_pipeline: the read that opens it, outside every handler.

StartRun(t) ==
  /\ Goto(t, "scheduled", "classify")
  /\ store[t] # NoTicket
  /\ run' = [run EXCEPT ![t] = NoRun]
  /\ Local

ReadFails(t) ==
  /\ Goto(t, "scheduled", "read_failed")
  /\ faults < MaxFaults
  /\ faults' = faults + 1
  /\ UNCHANGED <<store, accepted, run, metrics, crashes>>

-----------------------------------------------------------------------------
\* _decide: every way out of it is an outcome, and none of them writes.

\* Bug: a handoff with a holding message for a reply.
HandedOffWithReply(reason, detail) ==
  [status |-> "handed_off", reply |-> "billing_pending", reason |-> reason, detail |-> detail]

HandedOff(reason, detail) ==
  [status |-> "handed_off", reply |-> None, reason |-> reason, detail |-> detail]

Replied(reply) ==
  [status |-> "replied", reply |-> reply, reason |-> None, detail |-> None]

\* Bug: no catch-all, so the exception leaves the run.
Escapes(t, from) ==
  /\ Goto(t, from, "write_failed")
  /\ run' = [run EXCEPT ![t] = NoRun]
  /\ Local

\* The catch-all: an exception of the model or of the rendering.
Raises(t, from) ==
  /\ Goto(t, from, "final")
  /\ run' = [run EXCEPT ![t].outcome = HandedOff("TOOL_ERROR", None)]
  /\ Local

Classify(t) ==
  \E intent \in Intents \ {"unknown"} :
    /\ Goto(t, "classify", "decide")
    /\ run' = [run EXCEPT ![t].trace = Recorded(t, IntentClassified(intent)),
                          ![t].iteration = 1]
    /\ Local

ClassifyUnknown(t) ==
  /\ "unknown" \in Intents
  /\ Goto(t, "classify", "final")
  /\ run' = [run EXCEPT ![t].trace = Recorded(t, IntentClassified("unknown")),
                        ![t].outcome = HandedOff("UNSUPPORTED_INTENT", None)]
  /\ Local

ClassifyRaises(t) == Raises(t, "classify")

\* One round of the bounded loop: ask the model, record what it chose, start to obey.
\* Bug: the observation joins the history before the tool has run.
DecideToolCallObserved(t) ==
  \E tool \in Tools :
    /\ Goto(t, "decide", "tool")
    /\ run[t].iteration <= MaxIterations
    /\ run' = [run EXCEPT
         ![t].trace = Append(Recorded(t, LLMDecision(run[t].iteration, "tool_call", tool)),
                             ToolCallStep(tool)),
         ![t].history = @ \union {tool},
         ![t].inFlight = tool]
    /\ Local

\* Bug: one round too many.
DecideReplyOnceMore(t) ==
  \E template \in Templates :
    /\ Goto(t, "decide", "ground")
    /\ run[t].iteration <= MaxIterations + 1
    /\ run' = [run EXCEPT
         ![t].trace = Recorded(t, LLMDecision(run[t].iteration, "reply", None)),
         ![t].draft = template]
    /\ Local

DecideToolCall(t) ==
  \E tool \in Tools :
    /\ Goto(t, "decide", "tool")
    /\ run[t].iteration <= MaxIterations
    /\ run' = [run EXCEPT
         ![t].trace = Append(Recorded(t, LLMDecision(run[t].iteration, "tool_call", tool)),
                             ToolCallStep(tool)),
         ![t].inFlight = tool]
    /\ Local

DecideReply(t) ==
  \E template \in Templates :
    /\ Goto(t, "decide", "ground")
    /\ run[t].iteration <= MaxIterations
    /\ run' = [run EXCEPT
         ![t].trace = Recorded(t, LLMDecision(run[t].iteration, "reply", None)),
         ![t].draft = template]
    /\ Local

DecideHandoff(t) ==
  \E reason \in Reasons :
    /\ Goto(t, "decide", "final")
    /\ run[t].iteration <= MaxIterations
    /\ run' = [run EXCEPT
         ![t].trace = Recorded(t, LLMDecision(run[t].iteration, "handoff", None)),
         ![t].outcome = HandedOff(reason, None)]
    /\ Local

DecideRaises(t) == run[t].iteration <= MaxIterations /\ Raises(t, "decide")

\* Bugs: the cap is applied a round early, or never.
IterationCapReachedEarly(t) ==
  /\ Goto(t, "decide", "final")
  /\ run[t].iteration >= MaxIterations
  /\ run[t].iteration > 1
  /\ run' = [run EXCEPT ![t].outcome = HandedOff("ITERATION_CAP_EXCEEDED", None)]
  /\ Local

IterationCapMissed(t) ==
  /\ Goto(t, "decide", "final")
  /\ run[t].iteration > MaxIterations + 1
  /\ run' = [run EXCEPT ![t].outcome = HandedOff("ITERATION_CAP_EXCEEDED", None)]
  /\ Local

IterationCapReached(t) ==
  /\ Goto(t, "decide", "final")
  /\ run[t].iteration > MaxIterations
  /\ run' = [run EXCEPT ![t].outcome = HandedOff("ITERATION_CAP_EXCEEDED", None)]
  /\ Local

-----------------------------------------------------------------------------
\* The tool, and the summary of its result, which shares its handler.

ToolReturns(t) ==
  LET tool == run[t].inFlight IN
  /\ Goto(t, "tool", "decide")
  /\ tool \in Registered
  /\ run' = [run EXCEPT ![t].trace = Recorded(t, ToolResultStep(tool, TRUE)),
                        ![t].history = @ \union {tool},
                        ![t].inFlight = None,
                        ![t].iteration = @ + 1]
  /\ Local

\* The exceptions a tool call may end in, by the handoff reason each is given.
Failures(tool) ==
  {"TOOL_ERROR"}
    \union (IF tool \in Registered THEN {"USER_NOT_FOUND"} ELSE {})
    \union (IF tool \in Registered \ {"get_user"} THEN {"DATA_NOT_FOUND"} ELSE {})

\* Bugs: the failure is shown to the model, which goes on; or it is not recorded.
ToolFailsAndGoesOn(t) ==
  LET tool == run[t].inFlight IN
  /\ Goto(t, "tool", "decide")
  /\ run' = [run EXCEPT ![t].trace = Recorded(t, ToolResultStep(tool, FALSE)),
                        ![t].inFlight = None,
                        ![t].iteration = @ + 1]
  /\ Local

ToolFailsUnrecorded(t) ==
  \E reason \in Failures(run[t].inFlight) :
    /\ Goto(t, "tool", "final")
    /\ run' = [run EXCEPT ![t].outcome = HandedOff(reason, None)]
    /\ Local

ToolFails(t) ==
  LET tool == run[t].inFlight IN
  \E reason \in Failures(tool) :
    /\ Goto(t, "tool", "final")
    /\ run' = [run EXCEPT
         ![t].trace = Recorded(t, ToolResultStep(tool, FALSE)),
         ![t].outcome = HandedOff(reason, IF reason = "TOOL_ERROR" THEN None ELSE tool)]
    /\ Local

-----------------------------------------------------------------------------
\* _ground: render the draft from the facts of the history, then verify the text.

RenderRaises(t) == Raises(t, "ground")

GroundingPasses(t) ==
  /\ Goto(t, "ground", "final")
  /\ Evidence(run[t].draft) \subseteq run[t].history
  /\ run' = [run EXCEPT ![t].trace = Recorded(t, GroundingCheck(TRUE)),
                        ![t].outcome = Replied(run[t].draft)]
  /\ Local

\* Bug: the violations are recorded and the reply is sent all the same.
GroundingFailsUnheeded(t) ==
  /\ Goto(t, "ground", "final")
  /\ RenderNeeds(run[t].draft) \subseteq run[t].history
  /\ run' = [run EXCEPT ![t].trace = Recorded(t, GroundingCheck(FALSE)),
                        ![t].outcome = Replied(run[t].draft)]
  /\ Local

GroundingFails(t) ==
  /\ Goto(t, "ground", "final")
  /\ RenderNeeds(run[t].draft) \subseteq run[t].history
  /\ run' = [run EXCEPT ![t].trace = Recorded(t, GroundingCheck(FALSE)),
                        ![t].outcome = HandedOff("UNGROUNDED_REPLY", None)]
  /\ Local

-----------------------------------------------------------------------------
\* Below the catch-all: the last step of the trace, the one write, the counters.

\* Bug: an outcome without its step.
RecordNothing(t) == Goto(t, "final", "write") /\ UNCHANGED run /\ Local

RecordDecision(t) ==
  LET o == run[t].outcome IN
  /\ Goto(t, "final", "write")
  /\ run' = [run EXCEPT ![t].trace = Recorded(t, FinalDecision(o.status, o.reason, o.detail))]
  /\ Local

\* Bugs: the row in one transaction and the trace in a second; the trace not at all.
FinaliseInTwo(t) ==
  LET o == run[t].outcome
      row == [status |-> o.status, reply |-> o.reply, reason |-> o.reason, trace |-> <<>>]
  IN
  /\ pc[t] = "write"
  /\ IF store[t].status \in Terminal
     THEN /\ pc' = [pc EXCEPT ![t] = "count_ticket"]
          /\ store' = [store EXCEPT ![t].trace = run[t].trace]
     ELSE /\ pc' = pc
          /\ store' = [store EXCEPT ![t] = row]
  /\ UNCHANGED <<faults, accepted, run, metrics, crashes>>

FinaliseUntraced(t) ==
  LET o == run[t].outcome IN
  /\ Goto(t, "write", "count_ticket")
  /\ store' = [store EXCEPT ![t] =
       [status |-> o.status, reply |-> o.reply, reason |-> o.reason, trace |-> <<>>]]
  /\ UNCHANGED <<faults, accepted, run, metrics, crashes>>

Finalise(t) ==
  LET o == run[t].outcome IN
  /\ Goto(t, "write", "count_ticket")
  /\ store' = [store EXCEPT ![t] =
       [status |-> o.status, reply |-> o.reply, reason |-> o.reason, trace |-> run[t].trace]]
  /\ UNCHANGED <<faults, accepted, run, metrics, crashes>>

\* Bug: the exception of the write is swallowed and the run counted.
FinaliseFailsSwallowed(t) ==
  /\ Goto(t, "write", "count_ticket")
  /\ faults < MaxFaults
  /\ faults' = faults + 1
  /\ UNCHANGED <<store, accepted, run, metrics, crashes>>

FinaliseFails(t) ==
  /\ Goto(t, "write", "write_failed")
  /\ faults < MaxFaults
  /\ faults' = faults + 1
  /\ run' = [run EXCEPT ![t] = NoRun]
  /\ UNCHANGED <<store, accepted, metrics, crashes>>

\* record_run: one counter at a time, each under its own lock.
CountTicket(t) ==
  /\ Goto(t, "count_ticket", "count_handoff")
  /\ metrics' = [metrics EXCEPT !.tickets[run[t].outcome.status] = @ + 1]
  /\ UNCHANGED <<store, faults, accepted, run, crashes>>

CountHandoff(t) ==
  LET reason == run[t].outcome.reason IN
  /\ Goto(t, "count_handoff", "count_steps")
  /\ metrics' = IF reason = None THEN metrics
                ELSE [metrics EXCEPT !.handoffs[reason] = @ + 1]
  /\ UNCHANGED <<store, faults, accepted, run, crashes>>

ToolResults(tr, ok) == { n \in Positions(tr, "tool_result") : tr[n].ok = ok }

FailedChecks(tr) == { n \in Positions(tr, "grounding_check") : ~tr[n].passed }

\* Bug: only the successful tool calls are counted.
CountStepsOk(t) ==
  LET tr == run[t].trace IN
  /\ Goto(t, "count_steps", "ended")
  /\ metrics' = [metrics EXCEPT
       !.iterations[Cardinality(Positions(tr, "llm_decision"))] = @ + 1,
       !.tools[TRUE] = @ + Cardinality(ToolResults(tr, TRUE)),
       !.ungrounded = @ + Cardinality(FailedChecks(tr))]
  /\ run' = [run EXCEPT ![t] = NoRun]
  /\ UNCHANGED <<store, faults, accepted, crashes>>

CountSteps(t) ==
  LET tr == run[t].trace
      decisions == Cardinality(Positions(tr, "llm_decision"))
  IN
  /\ Goto(t, "count_steps", "ended")
  /\ metrics' = [metrics EXCEPT
       !.iterations[decisions] = @ + 1,
       !.tools = [ok \in BOOLEAN |-> @[ok] + Cardinality(ToolResults(tr, ok))],
       !.ungrounded = @ + Cardinality(FailedChecks(tr))]
  /\ run' = [run EXCEPT ![t] = NoRun]
  /\ UNCHANGED <<store, faults, accepted, crashes>>

-----------------------------------------------------------------------------
\* The process dies and is started again: the rows are all that is left.
Crash ==
  /\ crashes < MaxCrashes
  /\ crashes' = crashes + 1
  /\ pc' = [t \in Tickets |-> IF pc[t] \in Handling \union Counting THEN "lost" ELSE pc[t]]
  /\ run' = [t \in Tickets |-> NoRun]
  /\ metrics' = NoMetrics
  /\ UNCHANGED <<store, faults, accepted>>

\* What the process does with a ticket once its row is written.
Handle(t) ==
  \/ Accept(t) \/ StartRun(t) \/ ReadFails(t)
  \/ Classify(t) \/ ClassifyUnknown(t) \/ ClassifyRaises(t)
  \/ DecideToolCall(t) \/ DecideReply(t) \/ DecideHandoff(t) \/ DecideRaises(t)
  \/ IterationCapReached(t)
  \/ ToolReturns(t) \/ ToolFails(t)
  \/ RenderRaises(t) \/ GroundingPasses(t) \/ GroundingFails(t)
  \/ RecordDecision(t) \/ Finalise(t) \/ FinaliseFails(t)
  \/ CountTicket(t) \/ CountHandoff(t) \/ CountSteps(t)

Next ==
  \/ \E t \in Tickets : CreateTicket(t) \/ CreateFails(t) \/ Handle(t)
  \/ Crash

Spec == Init /\ [][Next]_vars

\* A thread of the pool keeps running the handler and the task it was given, the model
\* answers or times out, a tool reads a file: the handling of a ticket never just stops.
FairSpec == Spec /\ \A t \in Tickets : WF_vars(Handle(t))
=============================================================================
