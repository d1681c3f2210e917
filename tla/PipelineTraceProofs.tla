------------------------ MODULE PipelineTraceProofs ------------------------
(***************************************************************************)
(* Theorems about whole traces: what the steps of a run say of each other, *)
(* whatever the model, the tools and the repository do; and about the      *)
(* counters, which sum what the traces and the rows say.                   *)
(***************************************************************************)
EXTENDS PipelineProofs, FoldLemmas

-----------------------------------------------------------------------------
\* What a step of the system does to one ticket: its place, its run's locals and its row.

Goes(t, from, to) == pc[t] = from /\ pc'[t] = to /\ store'[t] = store[t]

Adds(t, step) == run'[t].trace = Append(run[t].trace, step)

\* Nothing is learnt: no observation, no round.
Knows(t) == run'[t].history = run[t].history /\ run'[t].iteration = run[t].iteration

Stays(t) == pc'[t] = pc[t] /\ run'[t] = run[t] /\ store'[t] = store[t]

\* A step outside the run, or one that ends it.
Leaves(t) ==
  /\ pc'[t] \notin Deciding \union {"final", "write"}
  /\ \/ run'[t] = NoRun
     \/ run'[t] = run[t] /\ pc[t] \notin Deciding \union {"final", "write"}
  /\ store'[t] = store[t] \/ store'[t] = NewTicket

Starts(t) == Goes(t, "scheduled", "classify") /\ run'[t] = NoRun

Classifies(t) ==
  /\ Goes(t, "classify", "decide")
  /\ \E intent \in Intent : Adds(t, IntentClassified(intent))
  /\ run'[t].history = run[t].history
  /\ run'[t].iteration = 1

Calls(t, tool) ==
  /\ Goes(t, "decide", "tool")
  /\ run[t].iteration \in 1 .. MaxIterations
  /\ run'[t].trace = Append(Append(run[t].trace, LLMDecision(run[t].iteration, "tool_call", tool)),
                            ToolCallStep(tool))
  /\ run'[t].inFlight = tool
  /\ Knows(t)

Drafts(t) ==
  /\ Goes(t, "decide", "ground")
  /\ run[t].iteration \in 1 .. MaxIterations
  /\ Adds(t, LLMDecision(run[t].iteration, "reply", None))
  /\ Knows(t)

Observes(t) ==
  /\ Goes(t, "tool", "decide")
  /\ Adds(t, ToolResultStep(run[t].inFlight, TRUE))
  /\ run'[t].history = run[t].history \union {run[t].inFlight}
  /\ run'[t].iteration = run[t].iteration + 1

Replies(t) ==
  /\ Goes(t, "ground", "final")
  /\ Adds(t, GroundingCheck(TRUE))
  /\ run'[t].outcome = Replied(run[t].draft)
  /\ Evidence(run[t].draft) \subseteq run[t].history
  /\ Knows(t)

\* The ways to a handoff, by the step that is left behind, if any.
HandsOver(t) ==
  LET o == run'[t].outcome IN
  /\ \E from \in Deciding : Goes(t, from, "final")
  /\ o.status = "handed_off"
  /\ \/ pc[t] # "tool" /\ run'[t].trace = run[t].trace /\ o.reason = "TOOL_ERROR"
     \/ /\ pc[t] = "decide" /\ run[t].iteration > MaxIterations
        /\ run'[t].trace = run[t].trace /\ o.reason = "ITERATION_CAP_EXCEEDED"
     \/ /\ pc[t] = "classify"
        /\ Adds(t, IntentClassified("unknown")) /\ o.reason = "UNSUPPORTED_INTENT"
     \/ /\ pc[t] = "decide" /\ run[t].iteration \in 1 .. MaxIterations
        /\ Adds(t, LLMDecision(run[t].iteration, "handoff", None))
     \/ /\ pc[t] = "tool"
        /\ Adds(t, ToolResultStep(run[t].inFlight, FALSE))
        /\ \/ o.reason = "TOOL_ERROR"
           \/ o.reason \in {"USER_NOT_FOUND", "DATA_NOT_FOUND"} /\ o.detail = run[t].inFlight
     \/ /\ pc[t] = "ground"
        /\ Adds(t, GroundingCheck(FALSE)) /\ o.reason = "UNGROUNDED_REPLY"

Concludes(t) ==
  LET o == run[t].outcome IN
  /\ Goes(t, "final", "write")
  /\ Adds(t, FinalDecision(o.status, o.reason, o.detail))
  /\ run'[t].outcome = o

Writes(t) ==
  LET o == run[t].outcome IN
  /\ pc[t] = "write" /\ pc'[t] = "count_ticket"
  /\ run'[t] = run[t]
  /\ store'[t] = [status |-> o.status, reply |-> o.reply, reason |-> o.reason,
                  trace |-> run[t].trace]

Moves(t) ==
  \/ Stays(t) \/ Leaves(t) \/ Starts(t) \/ Classifies(t)
  \/ \E tool \in Tools : Calls(t, tool)
  \/ Drafts(t) \/ Observes(t) \/ Replies(t) \/ HandsOver(t) \/ Concludes(t) \/ Writes(t)

LEMMA OthersStay ==
  ASSUME IInv, NEW t \in Tickets, NEW u \in Tickets, u # t,
         CreateTicket(t) \/ CreateFails(t) \/ Handle(t)
  PROVE  Stays(u)
BY DEF IInv, TypeOK, Stays, CreateTicket, CreateFails, Goto, Handle, Accept, StartRun, ReadFails,
       Classify, ClassifyUnknown, ClassifyRaises, DecideToolCall, DecideReply, DecideHandoff,
       DecideRaises, IterationCapReached, ToolReturns, ToolFails, RenderRaises, GroundingPasses,
       GroundingFails, RecordDecision, Finalise, FinaliseFails, CountTicket, CountHandoff,
       CountSteps, Raises, Local

LEMMA HandlingMoves ==
  ASSUME IInv, NEW t \in Tickets, CreateTicket(t) \/ CreateFails(t) \/ Handle(t)
  PROVE  Moves(t)
<1>1. /\ run[t] \in Run /\ RunFits(pc[t], run[t])
      /\ pc \in [Tickets -> Places] /\ run \in [Tickets -> Run]
      /\ store \in [Tickets -> {NoTicket} \union StoredTicket]
  BY DEF IInv, TypeOK, PlacesFit
<1> USE DEF Goto, Local, Goes, Adds, Knows, Recorded, Deciding, Counting
<1>2. CASE CreateTicket(t) \/ CreateFails(t) \/ Accept(t) \/ ReadFails(t) \/ FinaliseFails(t)
           \/ CountTicket(t) \/ CountHandoff(t) \/ CountSteps(t)
  <2>1. Leaves(t)
    BY <1>1, <1>2 DEF Leaves, CreateTicket, CreateFails, Accept, ReadFails, FinaliseFails,
       CountTicket, CountHandoff, CountSteps
  <2> QED BY <2>1 DEF Moves
<1>3. CASE StartRun(t)
  BY <1>1, <1>3 DEF Moves, Starts, StartRun
<1>4. CASE Classify(t)
  <2>1. Classifies(t)
    BY <1>1, <1>4, ModelAssumption DEF Classifies, Classify, Run
  <2> QED BY <2>1 DEF Moves
<1>5. CASE DecideToolCall(t)
  <2>1. PICK tool \in Tools : Calls(t, tool)
    BY <1>1, <1>5, IterationsAssumption DEF Calls, DecideToolCall, Run, RunFits
  <2> QED BY <2>1 DEF Moves
<1>6. CASE DecideReply(t)
  <2>1. Drafts(t)
    BY <1>1, <1>6, IterationsAssumption DEF Drafts, DecideReply, Run, RunFits
  <2> QED BY <2>1 DEF Moves
<1>7. CASE ToolReturns(t)
  <2>1. Observes(t)
    BY <1>1, <1>7 DEF Observes, ToolReturns, Run
  <2> QED BY <2>1 DEF Moves
<1>8. CASE GroundingPasses(t)
  <2>1. Replies(t)
    BY <1>1, <1>8 DEF Replies, GroundingPasses, Run, Replied
  <2> QED BY <2>1 DEF Moves
<1>9. ASSUME NEW from \in Deciding \ {"tool"}, Raises(t, from)
      PROVE  Moves(t)
  <2>1. pc[t] = from /\ pc'[t] = "final" /\ store' = store
    BY <1>1, <1>9 DEF Raises
  <2>2. /\ run'[t].trace = run[t].trace
        /\ run'[t].outcome.status = "handed_off" /\ run'[t].outcome.reason = "TOOL_ERROR"
    BY <1>1, <1>9 DEF HandedOff, Raises, Run
  <2>3. HandsOver(t)
    BY <1>9, <2>1, <2>2 DEF HandsOver
  <2> QED BY <2>3 DEF Moves
<1>10. CASE IterationCapReached(t)
  <2>1. HandsOver(t)
    BY <1>1, <1>10 DEF HandsOver, HandedOff, IterationCapReached, Run
  <2> QED BY <2>1 DEF Moves
<1>11. CASE ClassifyUnknown(t)
  <2>1. HandsOver(t)
    BY <1>1, <1>11 DEF HandsOver, HandedOff, ClassifyUnknown, Run
  <2> QED BY <2>1 DEF Moves
<1>12. CASE GroundingFails(t)
  <2>1. HandsOver(t)
    BY <1>1, <1>12 DEF HandsOver, HandedOff, GroundingFails, Run
  <2> QED BY <2>1 DEF Moves
<1>13. CASE ToolFails(t)
  <2> DEFINE tool == run[t].inFlight
             step == ToolResultStep(tool, FALSE)
  <2>1. PICK reason \in Failures(tool) :
          /\ pc[t] = "tool" /\ pc' = [pc EXCEPT ![t] = "final"] /\ store' = store
          /\ run' = [run EXCEPT
               ![t].trace = Append(run[t].trace, step),
               ![t].outcome = HandedOff(reason, IF reason = "TOOL_ERROR" THEN None ELSE tool)]
    BY <1>13 DEF ToolFails
  <2> DEFINE o == HandedOff(reason, IF reason = "TOOL_ERROR" THEN None ELSE tool)
  <2>2. /\ o.status = "handed_off"
        /\ \/ o.reason = "TOOL_ERROR"
           \/ o.reason \in {"USER_NOT_FOUND", "DATA_NOT_FOUND"} /\ o.detail = tool
    BY DEF HandedOff, Failures
  <2> HIDE DEF step, tool, o
  <2>3. run' = [run EXCEPT ![t].trace = Append(run[t].trace, step), ![t].outcome = o]
    BY <2>1 DEF o
  <2>4. pc'[t] = "final" /\ run'[t].trace = Append(run[t].trace, step) /\ run'[t].outcome = o
    BY <1>1, <2>1, <2>3 DEF Run
  <2>5. HandsOver(t)
    BY <2>1, <2>2, <2>4 DEF HandsOver, step, tool
  <2> QED BY <2>5 DEF Moves
<1>14. CASE DecideHandoff(t)
  <2>1. HandsOver(t)
    BY <1>1, <1>14, IterationsAssumption DEF HandsOver, HandedOff, DecideHandoff, Run, RunFits
  <2> QED BY <2>1 DEF Moves
<1>15. CASE RecordDecision(t)
  <2>1. Concludes(t)
    BY <1>1, <1>15 DEF Concludes, RecordDecision, Run
  <2> QED BY <2>1 DEF Moves
<1>16. CASE Finalise(t)
  <2>1. Writes(t)
    BY <1>1, <1>16 DEF Writes, Finalise
  <2> QED BY <2>1 DEF Moves
<1>17. ClassifyRaises(t) \/ DecideRaises(t) \/ RenderRaises(t) =>
         \E from \in Deciding \ {"tool"} : Raises(t, from)
  BY DEF ClassifyRaises, DecideRaises, RenderRaises
<1> QED
  BY <1>2, <1>3, <1>4, <1>5, <1>6, <1>7, <1>8, <1>9, <1>10, <1>11, <1>12, <1>13, <1>14,
     <1>15, <1>16, <1>17
  DEF Handle

LEMMA StepsAreMoves ==
  ASSUME IInv, [Next]_vars, NEW u \in Tickets
  PROVE  Moves(u)
<1>1. ASSUME NEW t \in Tickets, CreateTicket(t) \/ CreateFails(t) \/ Handle(t)
      PROVE  Moves(u)
  BY <1>1, HandlingMoves, OthersStay DEF Moves
<1>2. CASE Crash
  <2>1. pc'[u] \notin Deciding \union {"final", "write"} /\ run'[u] = NoRun /\ store'[u] = store[u]
    BY <1>2 DEF Crash, Handling, Deciding
  <2> QED BY <2>1 DEF Moves, Leaves
<1>3. CASE UNCHANGED vars
  BY <1>3 DEF vars, Moves, Stays
<1> QED BY <1>1, <1>2, <1>3 DEF Next

-----------------------------------------------------------------------------
\* A trace and the step that is added to it.

Extends(tr, step, new) ==
  /\ Len(tr) \in Nat
  /\ Len(new) = Len(tr) + 1
  /\ new[Len(new)] = step
  /\ \A n \in 1 .. Len(tr) : new[n] = tr[n]

LEMMA AppendExtends ==
  ASSUME NEW tr \in Seq(TraceStep), NEW step
  PROVE  Extends(tr, step, Append(tr, step))
BY DEF Extends

LEMMA AddsExtends ==
  ASSUME IInv, NEW t \in Tickets, NEW step, Adds(t, step)
  PROVE  Extends(run[t].trace, step, run'[t].trace)
BY RunFacts, AppendExtends DEF Adds

\* A sequence of calls and answers.
AnswersCalls(tr, place, r) ==
  \A n \in Positions(tr, "tool_call") :
    \/ n < Len(tr) /\ tr[n + 1].type = "tool_result" /\ tr[n + 1].tool = tr[n].tool
    \/ n = Len(tr) /\ place = "tool" /\ r.inFlight = tr[n].tool

EndsAtFailure(tr) ==
  \A n \in ToolResults(tr, FALSE) :
    \A m \in n + 1 .. Len(tr) : m = n + 1 /\ tr[m].type = "final_decision"

\* What the calls of a trace, their results and the history of its run have to do with
\* each other at each place.
ToolsFit(place, r) ==
  /\ AnswersCalls(r.trace, place, r)
  /\ EndsAtFailure(r.trace)
  /\ place \in Deciding => ToolResults(r.trace, FALSE) = {} /\ r.history = OkTools(r.trace)
  /\ place = "final" => ToolResults(r.trace, FALSE) \subseteq {Len(r.trace)}

LEMMA ExtendedAnswers ==
  ASSUME NEW tr, NEW step, NEW new, Extends(tr, step, new),
         NEW p, NEW r, NEW q, NEW s, AnswersCalls(tr, p, r),
         p = "tool" => step.type = "tool_result" /\ step.tool = r.inFlight,
         step.type = "tool_call" => q = "tool" /\ s.inFlight = step.tool
  PROVE  AnswersCalls(new, q, s)
<1> SUFFICES ASSUME NEW n \in 1 .. Len(new), new[n].type = "tool_call"
             PROVE  \/ n < Len(new) /\ new[n + 1].type = "tool_result"
                                    /\ new[n + 1].tool = new[n].tool
                    \/ n = Len(new) /\ q = "tool" /\ s.inFlight = new[n].tool
  BY DEF AnswersCalls, Positions
<1>1. CASE n = Len(new)
  BY <1>1 DEF Extends
<1>2. CASE n < Len(new)
  <2>1. n \in 1 .. Len(tr) /\ new[n] = tr[n]
    BY <1>2 DEF Extends
  <2>2. n \in Positions(tr, "tool_call")
    BY <2>1 DEF Positions
  <2>3. CASE n < Len(tr)
    <3>1. n + 1 \in 1 .. Len(tr) /\ new[n + 1] = tr[n + 1]
      BY <2>1, <2>3 DEF Extends
    <3> QED BY <2>1, <2>2, <2>3, <3>1, <1>2 DEF AnswersCalls
  <2>4. CASE n = Len(tr)
    <3>1. p = "tool" /\ r.inFlight = tr[n].tool
      BY <2>2, <2>4 DEF AnswersCalls
    <3>2. new[n + 1] = step
      BY <2>4 DEF Extends
    <3> QED BY <2>1, <3>1, <3>2, <1>2
  <2> QED BY <2>1, <2>3, <2>4 DEF Extends
<1> QED BY <1>1, <1>2 DEF Extends

LEMMA ExtendedResults ==
  ASSUME NEW tr, NEW step, NEW new, Extends(tr, step, new)
  PROVE  /\ step.type = "tool_result" /\ step.ok = TRUE =>
              ToolResults(new, TRUE) = ToolResults(tr, TRUE) \union {Len(new)}
         /\ ~(step.type = "tool_result" /\ step.ok = TRUE) =>
              ToolResults(new, TRUE) = ToolResults(tr, TRUE)
         /\ ToolResults(new, FALSE) \subseteq ToolResults(tr, FALSE) \union {Len(new)}
         /\ ~(step.type = "tool_result" /\ step.ok = FALSE) =>
              ToolResults(new, FALSE) = ToolResults(tr, FALSE)
BY DEF ToolResults, Positions, Extends

LEMMA ExtendedTools ==
  ASSUME NEW tr, NEW step, NEW new, Extends(tr, step, new)
  PROVE  OkTools(new) =
           OkTools(tr)
             \union (IF step.type = "tool_result" /\ step.ok = TRUE THEN {step.tool} ELSE {})
<1>1. \A n \in ToolResults(tr, TRUE) : new[n].tool = tr[n].tool
  BY DEF ToolResults, Positions, Extends
<1>2. new[Len(new)].tool = step.tool
  BY DEF Extends
<1>3. CASE step.type = "tool_result" /\ step.ok = TRUE
  <2>1. ToolResults(new, TRUE) = ToolResults(tr, TRUE) \union {Len(new)}
    BY <1>3, ExtendedResults
  <2> QED BY <1>1, <1>2, <1>3, <2>1 DEF OkTools
<1>4. CASE ~(step.type = "tool_result" /\ step.ok = TRUE)
  <2>1. ToolResults(new, TRUE) = ToolResults(tr, TRUE)
    BY <1>4, ExtendedResults
  <2> QED BY <1>1, <1>4, <2>1 DEF OkTools
<1> QED BY <1>3, <1>4

LEMMA ExtendedEnd ==
  ASSUME NEW tr, NEW step, NEW new, Extends(tr, step, new),
         \/ ToolResults(tr, FALSE) = {}
         \/ ToolResults(tr, FALSE) \subseteq {Len(tr)} /\ step.type = "final_decision"
  PROVE  EndsAtFailure(new)
<1> SUFFICES ASSUME NEW n \in ToolResults(new, FALSE), NEW m \in n + 1 .. Len(new)
             PROVE  m = n + 1 /\ new[m].type = "final_decision"
  BY DEF EndsAtFailure
<1>1. n \in 1 .. Len(new)
  BY DEF ToolResults, Positions
<1>2. n # Len(new)
  BY <1>1 DEF Extends
<1>3. n \in ToolResults(tr, FALSE)
  <2>1. ToolResults(new, FALSE) \subseteq ToolResults(tr, FALSE) \union {Len(new)}
    BY ExtendedResults
  <2> QED BY <1>2, <2>1
<1>4. n = Len(tr) /\ step.type = "final_decision"
  BY <1>3
<1> QED BY <1>1, <1>4 DEF Extends

\* All of it for one ticket, whose row was written when no call was under way.
ToolsFitTicket(t) ==
  /\ ToolsFit(pc[t], run[t])
  /\ AnswersCalls(store[t].trace, "ended", run[t])
  /\ EndsAtFailure(store[t].trace)

LEMMA NothingUnanswered ==
  ASSUME NEW tr, NEW p, NEW r, AnswersCalls(tr, p, r), p # "tool", NEW q, NEW s
  PROVE  AnswersCalls(tr, q, s)
BY DEF AnswersCalls

LEMMA EmptyTraceFits ==
  ASSUME NEW q, NEW s
  PROVE  /\ AnswersCalls(<<>>, q, s) /\ EndsAtFailure(<<>>)
         /\ ToolResults(<<>>, FALSE) = {} /\ OkTools(<<>>) = {}
<1>1. Len(<<>>) = 0 /\ 1 .. 0 = {}
  OBVIOUS
<1> QED BY <1>1 DEF AnswersCalls, EndsAtFailure, OkTools, ToolResults, Positions

LEMMA NoRunFits ==
  ASSUME NEW place
  PROVE  ToolsFit(place, NoRun)
<1>1. NoRun.trace = <<>> /\ NoRun.history = {}
  BY DEF NoRun
<1>2. AnswersCalls(NoRun.trace, place, NoRun)
  BY <1>1, EmptyTraceFits
<1> QED BY <1>1, <1>2, EmptyTraceFits DEF ToolsFit

\* A step that is no result, or an ok one, after no failure.
LEMMA QuietStep ==
  ASSUME NEW tr, NEW step, NEW new, Extends(tr, step, new),
         ToolResults(tr, FALSE) = {}, step.type # "tool_result"
  PROVE  EndsAtFailure(new) /\ ToolResults(new, FALSE) = {} /\ OkTools(new) = OkTools(tr)
<1>1. EndsAtFailure(new)
  BY ExtendedEnd
<1>2. ToolResults(new, FALSE) = {}
  BY DEF ToolResults, Positions, Extends
<1>3. OkTools(new) = OkTools(tr)
  BY ExtendedTools
<1> QED BY <1>1, <1>2, <1>3

LEMMA OkStep ==
  ASSUME NEW tr, NEW tool, NEW new, Extends(tr, ToolResultStep(tool, TRUE), new),
         ToolResults(tr, FALSE) = {}
  PROVE  /\ EndsAtFailure(new) /\ ToolResults(new, FALSE) = {}
         /\ OkTools(new) = OkTools(tr) \union {tool}
<1> DEFINE step == ToolResultStep(tool, TRUE)
<1>1. step.type = "tool_result" /\ step.ok = TRUE /\ step.tool = tool
  BY DEF ToolResultStep
<1> HIDE DEF step
<1>2. Extends(tr, step, new)
  BY DEF step
<1>3. EndsAtFailure(new)
  BY <1>2, ExtendedEnd
<1>4. ToolResults(new, FALSE) = {}
  BY <1>1, <1>2, ExtendedResults
<1>5. OkTools(new) = OkTools(tr) \union {tool}
  BY <1>1, <1>2, ExtendedTools
<1> QED BY <1>3, <1>4, <1>5

LEMMA RowsKeepFitting ==
  ASSUME NEW t \in Tickets, ToolsFitTicket(t), store'[t] = store[t]
  PROVE  AnswersCalls(store'[t].trace, "ended", run'[t]) /\ EndsAtFailure(store'[t].trace)
BY NothingUnanswered DEF ToolsFitTicket

LEMMA MovesKeepToolsFitting ==
  ASSUME IInv, NEW t \in Tickets, ToolsFitTicket(t), Moves(t)
  PROVE  ToolsFitTicket(t)'
<1> DEFINE tr == run[t].trace
           new == run'[t].trace
<1>1. ToolsFit(pc[t], run[t])
  BY DEF ToolsFitTicket
<1> SUFFICES ToolsFit(pc'[t], run'[t]) /\ AnswersCalls(store'[t].trace, "ended", run'[t])
               /\ EndsAtFailure(store'[t].trace)
  BY DEF ToolsFitTicket
<1> USE DEF Goes, Knows, Deciding
<1>2. CASE Stays(t)
  BY <1>1, <1>2, RowsKeepFitting DEF Stays
<1>3. CASE Leaves(t)
  <2>1. ToolsFit(pc'[t], run'[t])
    <3>1. CASE run'[t] = NoRun
      BY <3>1, NoRunFits
    <3>2. CASE run'[t] = run[t] /\ pc[t] \notin Deciding \union {"final", "write"}
      BY <1>1, <1>3, <3>2, NothingUnanswered DEF Leaves, ToolsFit
    <3> QED BY <1>3, <3>1, <3>2 DEF Leaves
  <2>2. CASE store'[t] = NewTicket
    <3>1. store'[t].trace = <<>>
      BY <2>2 DEF NewTicket, NoTicket
    <3> QED BY <2>1, <3>1, EmptyTraceFits
  <2> QED BY <1>3, <2>1, <2>2, RowsKeepFitting DEF Leaves
<1>4. CASE Starts(t)
  <2>1. ToolsFit(pc'[t], run'[t])
    BY <1>4, NoRunFits DEF Starts
  <2> QED BY <1>4, <2>1, RowsKeepFitting DEF Starts
<1>5. CASE Classifies(t)
  <2>1. PICK intent \in Intent : Adds(t, IntentClassified(intent))
    BY <1>5 DEF Classifies
  <2> DEFINE step == IntentClassified(intent)
  <2>2. Extends(tr, step, new) /\ step.type = "intent_classified"
    BY <2>1, AddsExtends DEF IntentClassified
  <2> HIDE DEF step
  <2>3. AnswersCalls(new, pc'[t], run'[t])
    BY <1>1, <1>5, <2>2, ExtendedAnswers DEF ToolsFit, Classifies
  <2>4. ToolResults(tr, FALSE) = {} /\ run'[t].history = OkTools(tr)
    BY <1>1, <1>5 DEF ToolsFit, Classifies
  <2>5. EndsAtFailure(new) /\ ToolResults(new, FALSE) = {} /\ OkTools(new) = OkTools(tr)
    BY <2>2, <2>4, QuietStep
  <2>6. ToolsFit(pc'[t], run'[t])
    BY <1>5, <2>3, <2>4, <2>5 DEF ToolsFit, Classifies
  <2> QED BY <1>5, <2>6, RowsKeepFitting DEF Classifies
<1>6. ASSUME NEW tool \in Tools, Calls(t, tool)
      PROVE  ToolsFit(pc'[t], run'[t])
  <2> DEFINE step1 == LLMDecision(run[t].iteration, "tool_call", tool)
             step2 == ToolCallStep(tool)
             mid == Append(tr, step1)
  <2>1. Extends(tr, step1, mid) /\ step1.type = "llm_decision"
    BY RunFacts, AppendExtends DEF LLMDecision
  <2>2. Extends(mid, step2, new) /\ step2.type = "tool_call" /\ step2.tool = tool
    <3>1. mid \in Seq(TraceStep)
      BY <1>6, RunFacts, StepTypes DEF Calls
    <3> QED BY <1>6, <3>1, AppendExtends DEF Calls, ToolCallStep
  <2>3. new = Append(mid, step2)
    BY <1>6 DEF Calls
  <2> HIDE DEF step1, step2, mid
  <2>4. pc[t] = "decide" /\ pc'[t] = "tool" /\ run'[t].inFlight = tool
    BY <1>6 DEF Calls
  <2>5. AnswersCalls(mid, "decide", run[t])
    BY <1>1, <2>1, <2>4, ExtendedAnswers DEF ToolsFit
  <2>6. AnswersCalls(new, pc'[t], run'[t])
    BY <2>2, <2>4, <2>5, ExtendedAnswers
  <2>7. ToolResults(tr, FALSE) = {} /\ run'[t].history = OkTools(tr)
    BY <1>1, <1>6 DEF ToolsFit, Calls
  <2>8. ToolResults(mid, FALSE) = {} /\ OkTools(mid) = OkTools(tr)
    BY <2>1, <2>7, QuietStep
  <2>9. EndsAtFailure(new) /\ ToolResults(new, FALSE) = {} /\ OkTools(new) = OkTools(tr)
    BY <2>2, <2>8, QuietStep
  <2> QED BY <2>4, <2>6, <2>7, <2>9 DEF ToolsFit
<1>7. CASE Drafts(t)
  <2> DEFINE step == LLMDecision(run[t].iteration, "reply", None)
  <2>1. Extends(tr, step, new) /\ step.type = "llm_decision"
    BY <1>7, AddsExtends DEF Drafts, LLMDecision
  <2> HIDE DEF step
  <2>2. AnswersCalls(new, pc'[t], run'[t])
    BY <1>1, <1>7, <2>1, ExtendedAnswers DEF ToolsFit, Drafts
  <2>3. ToolResults(tr, FALSE) = {} /\ run'[t].history = OkTools(tr)
    BY <1>1, <1>7 DEF ToolsFit, Drafts
  <2>4. EndsAtFailure(new) /\ ToolResults(new, FALSE) = {} /\ OkTools(new) = OkTools(tr)
    BY <2>1, <2>3, QuietStep
  <2>5. ToolsFit(pc'[t], run'[t])
    BY <1>7, <2>2, <2>3, <2>4 DEF ToolsFit, Drafts
  <2> QED BY <1>7, <2>5, RowsKeepFitting DEF Drafts
<1>8. CASE Observes(t)
  <2> DEFINE tool == run[t].inFlight
             step == ToolResultStep(tool, TRUE)
  <2>1. Extends(tr, step, new)
    BY <1>8, AddsExtends DEF Observes
  <2>2. step.type = "tool_result" /\ step.tool = tool
    BY DEF ToolResultStep
  <2>3. /\ ToolResults(tr, FALSE) = {}
        /\ run'[t].history = OkTools(tr) \union {tool}
    BY <1>1, <1>8 DEF ToolsFit, Observes
  <2>4. /\ EndsAtFailure(new) /\ ToolResults(new, FALSE) = {}
        /\ OkTools(new) = OkTools(tr) \union {tool}
    BY <2>1, <2>3, OkStep
  <2> HIDE DEF step
  <2>5. AnswersCalls(new, pc'[t], run'[t])
    BY <1>1, <1>8, <2>1, <2>2, ExtendedAnswers DEF ToolsFit, Observes
  <2>6. ToolsFit(pc'[t], run'[t])
    BY <1>8, <2>3, <2>4, <2>5 DEF ToolsFit, Observes
  <2> QED BY <1>8, <2>6, RowsKeepFitting DEF Observes
<1>9. CASE Replies(t)
  <2> DEFINE step == GroundingCheck(TRUE)
  <2>1. Extends(tr, step, new) /\ step.type = "grounding_check"
    BY <1>9, AddsExtends DEF Replies, GroundingCheck
  <2> HIDE DEF step
  <2>2. AnswersCalls(new, pc'[t], run'[t])
    BY <1>1, <1>9, <2>1, ExtendedAnswers DEF ToolsFit, Replies
  <2>3. ToolResults(tr, FALSE) = {}
    BY <1>1, <1>9 DEF ToolsFit, Replies
  <2>4. EndsAtFailure(new) /\ ToolResults(new, FALSE) = {}
    BY <2>1, <2>3, QuietStep
  <2>5. ToolsFit(pc'[t], run'[t])
    BY <1>9, <2>2, <2>4 DEF ToolsFit, Replies
  <2> QED BY <1>9, <2>5, RowsKeepFitting DEF Replies
<1>10. CASE HandsOver(t)
  <2>1. ToolResults(tr, FALSE) = {} /\ pc[t] \in Deciding /\ pc'[t] = "final"
    BY <1>1, <1>10 DEF ToolsFit, HandsOver
  <2>2. ASSUME pc[t] # "tool", new = tr PROVE ToolsFit(pc'[t], run'[t])
    BY <1>1, <2>1, <2>2, NothingUnanswered DEF ToolsFit
  <2>3. ASSUME NEW step, Adds(t, step), step.type # "tool_call",
               pc[t] = "tool" => step.type = "tool_result" /\ step.tool = run[t].inFlight
        PROVE  ToolsFit(pc'[t], run'[t])
    <3>1. Extends(tr, step, new)
      BY <2>3, AddsExtends
    <3>2. AnswersCalls(new, pc'[t], run'[t])
      BY <1>1, <2>3, <3>1, ExtendedAnswers DEF ToolsFit
    <3>3. EndsAtFailure(new) /\ ToolResults(new, FALSE) \subseteq {Len(new)}
      BY <2>1, <3>1, ExtendedEnd, ExtendedResults
    <3> QED BY <2>1, <3>2, <3>3 DEF ToolsFit
  <2>4. ToolsFit(pc'[t], run'[t])
    BY <1>10, <2>2, <2>3
    DEF HandsOver, IntentClassified, LLMDecision, ToolResultStep, GroundingCheck
  <2> QED BY <1>10, <2>4, RowsKeepFitting DEF HandsOver
<1>11. CASE Concludes(t)
  <2>1. PICK step : Adds(t, step) /\ step.type = "final_decision"
    BY <1>11 DEF Concludes, FinalDecision
  <2>2. Extends(tr, step, new)
    BY <2>1, AddsExtends
  <2>3. AnswersCalls(new, pc'[t], run'[t])
    BY <1>1, <1>11, <2>1, <2>2, ExtendedAnswers DEF ToolsFit, Concludes
  <2>4. EndsAtFailure(new)
    BY <1>1, <1>11, <2>1, <2>2, ExtendedEnd DEF ToolsFit, Concludes
  <2>5. ToolsFit(pc'[t], run'[t])
    BY <1>11, <2>3, <2>4 DEF ToolsFit, Concludes
  <2> QED BY <1>11, <2>5, RowsKeepFitting DEF Concludes
<1>12. CASE Writes(t)
  BY <1>1, <1>12, NothingUnanswered DEF ToolsFit, Writes
<1>13. CASE \E tool \in Tools : Calls(t, tool)
  BY <1>6, <1>13, RowsKeepFitting DEF Calls
<1> QED
  BY <1>2, <1>3, <1>4, <1>5, <1>7, <1>8, <1>9, <1>10, <1>11, <1>12, <1>13 DEF Moves

ToolsInv == IInv /\ \A t \in Tickets : ToolsFitTicket(t)

LEMMA AlwaysToolsInv == Spec => []ToolsInv
<1>1. Init => ToolsInv
  <2> SUFFICES ASSUME Init, NEW t \in Tickets PROVE ToolsFitTicket(t)
    BY InitEstablishesIInv DEF ToolsInv
  <2>1. run[t] = NoRun /\ store[t].trace = <<>>
    BY DEF Init, NoTicket
  <2> QED BY <2>1, NoRunFits, EmptyTraceFits DEF ToolsFitTicket
<1>2. ToolsInv /\ [Next]_vars => ToolsInv'
  <2> SUFFICES ASSUME ToolsInv, [Next]_vars, NEW t \in Tickets PROVE ToolsFitTicket(t)'
    BY NextKeepsIInv DEF ToolsInv
  <2> QED BY StepsAreMoves, MovesKeepToolsFitting DEF ToolsInv
<1> QED BY <1>1, <1>2, PTL DEF Spec

\* No model, tool or exception ever leaves a call in a trace without its result, except
\* for the one whose tool is running.
THEOREM ToolCallsAlwaysAnswered == Spec => []ToolCallsAreAnswered
<1>1. ToolsInv => ToolCallsAreAnswered
  <2> SUFFICES ASSUME ToolsInv, NEW t \in Tickets, NEW tr \in {run[t].trace, store[t].trace},
                      NEW n \in Positions(tr, "tool_call"),
                      ~(n < Len(tr) /\ tr[n + 1].type = "tool_result" /\ tr[n + 1].tool = tr[n].tool)
               PROVE  n = Len(tr) /\ pc[t] = "tool" /\ run[t].inFlight = tr[n].tool
    BY DEF ToolCallsAreAnswered, Traces
  <2>1. ~AnswersCalls(tr, "ended", run[t])
    BY DEF AnswersCalls
  <2>2. tr = run[t].trace /\ AnswersCalls(tr, pc[t], run[t])
    BY <2>1 DEF ToolsInv, ToolsFitTicket, ToolsFit
  <2> QED BY <2>2 DEF AnswersCalls
<1> QED BY <1>1, AlwaysToolsInv, PTL

\* A model is never asked again after a failed call.
THEOREM FailureAlwaysEndsTheRun == Spec => []FailureEndsTheRun
<1>1. ToolsInv => FailureEndsTheRun
  <2> SUFFICES ASSUME ToolsInv, NEW t \in Tickets, NEW tr \in {run[t].trace, store[t].trace}
               PROVE  EndsAtFailure(tr)
    <3>1. FailureEndsTheRun <=> \A tr \in Traces : EndsAtFailure(tr)
      BY DEF FailureEndsTheRun, EndsAtFailure
    <3> QED BY <3>1 DEF Traces
  <2> QED BY DEF ToolsInv, ToolsFitTicket, ToolsFit
<1> QED BY <1>1, AlwaysToolsInv, PTL

\* While a run is deciding, it knows the results its trace shows and no others.
THEOREM HistoryAlwaysTraced == Spec => []HistoryIsTraced
<1>1. ToolsInv => HistoryIsTraced
  BY DEF ToolsInv, ToolsFitTicket, ToolsFit, HistoryIsTraced
<1> QED BY <1>1, AlwaysToolsInv, PTL

-----------------------------------------------------------------------------
\* A ticket without an end has a fault or a death behind it.

StrandingHasCause == \A t \in Tickets : pc[t] \in Stranded => faults + crashes > 0

\* No exception of the model, of a tool or of the guardrails leaves a ticket processing.
THEOREM OnlyFaultsEverStrand == Spec => []OnlyFaultsStrand
<1>1. Init => IInv /\ StrandingHasCause
  BY InitEstablishesIInv DEF Init, StrandingHasCause, Stranded
<1>2. IInv /\ StrandingHasCause /\ [Next]_vars => (IInv /\ StrandingHasCause)'
  <2> SUFFICES ASSUME IInv, StrandingHasCause, [Next]_vars, IInv',
                      NEW u \in Tickets, pc'[u] \in Stranded
               PROVE  faults' + crashes' > 0
    BY NextKeepsIInv DEF StrandingHasCause
  <2>1. /\ faults \in Nat /\ crashes \in Nat /\ faults' \in Nat /\ crashes' \in Nat
        /\ pc \in [Tickets -> Places]
    BY BoundsAssumption DEF IInv, TypeOK
  <2>2. CASE Crash
    BY <2>1, <2>2 DEF Crash
  <2>3. CASE \E t \in Tickets : CreateFails(t) \/ ReadFails(t) \/ FinaliseFails(t)
    <3>1. faults' = faults + 1
      BY <2>3 DEF CreateFails, ReadFails, FinaliseFails
    <3>2. faults \in Nat /\ crashes' \in Nat
      BY <2>1
    <3>3. \A m, n \in Nat : m + 1 + n > 0
      OBVIOUS
    <3> QED BY <3>1, <3>2, <3>3
  <2>4. CASE UNCHANGED vars
    <3>1. pc' = pc /\ faults' = faults /\ crashes' = crashes
      BY <2>4 DEF vars
    <3> QED BY <3>1 DEF StrandingHasCause
  <2>5. ASSUME NEW t \in Tickets, NEW from, NEW to, Goto(t, from, to), to \notin Stranded,
               UNCHANGED <<faults, crashes>>
        PROVE  faults' + crashes' > 0
    <3>1. pc[u] \in Stranded
      BY <2>1, <2>5 DEF Goto
    <3> QED BY <2>5, <3>1 DEF StrandingHasCause
  <2>6. ASSUME NEW t \in Tickets, CreateTicket(t) \/ Handle(t),
               ~CreateFails(t), ~ReadFails(t), ~FinaliseFails(t)
        PROVE  faults' + crashes' > 0
    BY <2>5, <2>6
    DEF CreateTicket, Handle, Accept, StartRun, Classify, ClassifyUnknown, ClassifyRaises,
        DecideToolCall, DecideReply, DecideHandoff, DecideRaises, IterationCapReached,
        ToolReturns, ToolFails, RenderRaises, GroundingPasses, GroundingFails, RecordDecision,
        Finalise, CountTicket, CountHandoff, CountSteps, Raises, Local, Stranded
  <2> QED BY <2>2, <2>3, <2>4, <2>6 DEF Next
<1>3. IInv /\ StrandingHasCause => OnlyFaultsStrand
  <2> SUFFICES ASSUME IInv, StrandingHasCause, NEW t \in Tickets,
                      store[t].status = "processing", pc[t] \notin Handling
               PROVE  pc[t] \in Stranded
    BY DEF StrandingHasCause, OnlyFaultsStrand
  <2>1. pc[t] \in Places /\ RowFits(pc[t], store[t])
    BY DEF IInv, TypeOK, PlacesFit
  <2> QED BY <2>1 DEF RowFits, Places, NoTicket, Terminal
<1> QED BY <1>1, <1>2, <1>3, PTL DEF Spec

-----------------------------------------------------------------------------
\* The rounds of the loop.

Numbered(tr) ==
  \A n \in Decisions(tr) : tr[n].iteration = Cardinality({ m \in Decisions(tr) : m <= n })

RoundsFit(place, r) ==
  /\ Numbered(r.trace)
  /\ Cardinality(Decisions(r.trace)) <= MaxIterations
  /\ place = "classify" => Decisions(r.trace) = {}
  /\ place = "decide" => r.iteration = Cardinality(Decisions(r.trace)) + 1
  /\ place = "tool" => r.iteration = Cardinality(Decisions(r.trace))

LEMMA DecisionsAreFinite ==
  ASSUME NEW tr, Len(tr) \in Nat
  PROVE  IsFiniteSet(Decisions(tr)) /\ Cardinality(Decisions(tr)) \in Nat
<1>1. IsFiniteSet(1 .. Len(tr)) /\ Decisions(tr) \subseteq 1 .. Len(tr)
  BY FS_Interval DEF Decisions, Positions
<1> QED BY <1>1, FS_Subset, FS_CardinalityType

LEMMA OtherStep ==
  ASSUME NEW tr, NEW step, NEW new, Extends(tr, step, new),
         Numbered(tr), step.type # "llm_decision"
  PROVE  Decisions(new) = Decisions(tr) /\ Numbered(new)
<1>1. Decisions(new) = Decisions(tr)
  BY DEF Decisions, Positions, Extends
<1>2. \A n \in Decisions(tr) : new[n] = tr[n]
  BY DEF Decisions, Positions, Extends
<1> QED BY <1>1, <1>2 DEF Numbered

LEMMA NextDecision ==
  ASSUME NEW tr, NEW step, NEW new, Extends(tr, step, new),
         Numbered(tr), step.type = "llm_decision",
         step.iteration = Cardinality(Decisions(tr)) + 1
  PROVE  /\ Decisions(new) = Decisions(tr) \union {Len(new)}
         /\ Cardinality(Decisions(new)) = Cardinality(Decisions(tr)) + 1
         /\ Numbered(new)
<1> DEFINE old == Decisions(tr)
<1>1. Decisions(new) = old \union {Len(new)} /\ Len(new) \notin old
  BY DEF Decisions, Positions, Extends
<1>2. Cardinality(Decisions(new)) = Cardinality(old) + 1
  BY <1>1, DecisionsAreFinite, FS_AddElement DEF Extends
<1>3. ASSUME NEW n \in Decisions(new)
      PROVE  new[n].iteration = Cardinality({ m \in Decisions(new) : m <= n })
  <2>1. old \subseteq 1 .. Len(tr) /\ Len(tr) \in Nat /\ Len(new) = Len(tr) + 1
    BY DEF Decisions, Positions, Extends
  <2>2. CASE n = Len(new)
    <3>1. { m \in Decisions(new) : m <= n } = Decisions(new)
      BY <1>1, <2>1, <2>2
    <3> QED BY <1>2, <2>2, <3>1 DEF Extends
  <2>3. CASE n \in old
    <3>1. { m \in Decisions(new) : m <= n } = { m \in old : m <= n }
      BY <1>1, <2>1, <2>3
    <3>2. new[n] = tr[n]
      BY <2>1, <2>3 DEF Extends
    <3> QED BY <2>3, <3>1, <3>2 DEF Numbered
  <2> QED BY <1>1, <2>2, <2>3
<1> QED BY <1>1, <1>2, <1>3 DEF Numbered

RoundsFitTicket(t) ==
  /\ RoundsFit(pc[t], run[t])
  /\ Numbered(store[t].trace) /\ Cardinality(Decisions(store[t].trace)) <= MaxIterations

LEMMA NoRoundsFit ==
  /\ Numbered(<<>>) /\ Decisions(<<>>) = {} /\ Cardinality(Decisions(<<>>)) <= MaxIterations
  /\ \A place : place \notin {"decide", "tool"} => RoundsFit(place, NoRun)
<1>1. Decisions(<<>>) = {}
  BY EmptyTraceFits DEF Decisions, Positions
<1>2. Cardinality({}) = 0
  BY FS_EmptySet
<1>3. Numbered(<<>>) /\ Cardinality(Decisions(<<>>)) <= MaxIterations
  BY <1>1, <1>2, IterationsAssumption DEF Numbered
<1>4. NoRun.trace = <<>>
  BY DEF NoRun
<1> QED BY <1>1, <1>3, <1>4 DEF RoundsFit

LEMMA MovesKeepRounds ==
  ASSUME IInv, NEW t \in Tickets, RoundsFitTicket(t), Moves(t)
  PROVE  RoundsFitTicket(t)'
<1> DEFINE tr == run[t].trace
           new == run'[t].trace
           rounds == Cardinality(Decisions(tr))
<1>1. RoundsFit(pc[t], run[t])
  BY DEF RoundsFitTicket
<1>2. rounds \in Nat
  BY RunFacts, DecisionsAreFinite
<1>3. store'[t] = store[t] =>
        Numbered(store'[t].trace) /\ Cardinality(Decisions(store'[t].trace)) <= MaxIterations
  BY DEF RoundsFitTicket
<1> SUFFICES /\ RoundsFit(pc'[t], run'[t]) /\ Numbered(store'[t].trace)
             /\ Cardinality(Decisions(store'[t].trace)) <= MaxIterations
  BY DEF RoundsFitTicket
<1> USE DEF Goes, Knows, Deciding
<1>4. ASSUME NEW step, Adds(t, step), step.type # "llm_decision"
      PROVE  Decisions(new) = Decisions(tr) /\ Numbered(new)
  BY <1>1, <1>4, AddsExtends, OtherStep DEF RoundsFit
<1>5. ASSUME NEW mid, NEW d, NEW tool, pc[t] = "decide",
             Extends(tr, LLMDecision(run[t].iteration, d, tool), mid)
      PROVE  Numbered(mid) /\ Cardinality(Decisions(mid)) = run[t].iteration
  <2> DEFINE step == LLMDecision(run[t].iteration, d, tool)
  <2>1. step.type = "llm_decision" /\ step.iteration = run[t].iteration
    BY DEF LLMDecision
  <2>2. Numbered(tr) /\ run[t].iteration = rounds + 1
    BY <1>1, <1>5 DEF RoundsFit
  <2> HIDE DEF step
  <2>3. Extends(tr, step, mid)
    BY <1>5 DEF step
  <2> QED BY <2>1, <2>2, <2>3, NextDecision
<1>6. CASE Stays(t)
  BY <1>1, <1>3, <1>6 DEF Stays
<1>7. CASE Leaves(t)
  <2>1. RoundsFit(pc'[t], run'[t])
    BY <1>1, <1>7, NoRoundsFit DEF Leaves, RoundsFit
  <2>2. store'[t] = NewTicket => store'[t].trace = <<>>
    BY DEF NewTicket, NoTicket
  <2> QED BY <1>3, <1>7, <2>1, <2>2, NoRoundsFit DEF Leaves
<1>8. CASE Starts(t)
  BY <1>3, <1>8, NoRoundsFit DEF Starts
<1>9. CASE Classifies(t)
  <2>1. Decisions(new) = Decisions(tr) /\ Numbered(new)
    BY <1>4, <1>9 DEF Classifies, IntentClassified
  <2>2. Decisions(tr) = {}
    BY <1>1, <1>9 DEF RoundsFit, Classifies
  <2>3. Cardinality(Decisions(new)) = 0
    BY <2>1, <2>2, FS_EmptySet
  <2> QED BY <1>3, <1>9, <2>1, <2>3, IterationsAssumption DEF RoundsFit, Classifies
<1>10. ASSUME NEW tool \in Tools, Calls(t, tool)
       PROVE  RoundsFit(pc'[t], run'[t]) /\ store'[t] = store[t]
  <2> DEFINE step1 == LLMDecision(run[t].iteration, "tool_call", tool)
             step2 == ToolCallStep(tool)
             mid == Append(tr, step1)
  <2>1. Extends(tr, step1, mid)
    BY RunFacts, AppendExtends
  <2>2. Extends(mid, step2, new) /\ step2.type = "tool_call"
    <3>1. mid \in Seq(TraceStep)
      BY <1>10, RunFacts, StepTypes DEF Calls
    <3> QED BY <1>10, <3>1, AppendExtends DEF Calls, ToolCallStep
  <2>3. pc[t] = "decide" /\ pc'[t] = "tool" /\ run[t].iteration \in 1 .. MaxIterations
        /\ run'[t].iteration = run[t].iteration /\ store'[t] = store[t]
    BY <1>10 DEF Calls
  <2>4. Numbered(mid) /\ Cardinality(Decisions(mid)) = run[t].iteration
    BY <1>5, <2>1, <2>3
  <2> HIDE DEF step1, step2, mid
  <2>5. Decisions(new) = Decisions(mid) /\ Numbered(new)
    BY <2>2, <2>4, OtherStep
  <2> QED BY <2>3, <2>4, <2>5, IterationsAssumption DEF RoundsFit
<1>11. CASE Drafts(t)
  <2>1. Numbered(new) /\ Cardinality(Decisions(new)) = run[t].iteration
    BY <1>5, <1>11, AddsExtends DEF Drafts
  <2> QED BY <1>3, <1>11, <2>1, IterationsAssumption DEF RoundsFit, Drafts
<1>12. CASE Observes(t)
  <2>1. Decisions(new) = Decisions(tr) /\ Numbered(new)
    BY <1>4, <1>12 DEF Observes, ToolResultStep
  <2> QED BY <1>1, <1>2, <1>3, <1>12, <2>1 DEF RoundsFit, Observes
<1>13. CASE Replies(t)
  <2>1. Decisions(new) = Decisions(tr) /\ Numbered(new)
    BY <1>4, <1>13 DEF Replies, GroundingCheck
  <2> QED BY <1>1, <1>3, <1>13, <2>1 DEF RoundsFit, Replies
<1>14. CASE HandsOver(t)
  <2>1. pc'[t] = "final" /\ store'[t] = store[t]
    BY <1>14 DEF HandsOver
  <2>2. Numbered(new) /\ Cardinality(Decisions(new)) <= MaxIterations
    <3>1. CASE new = tr
      BY <1>1, <3>1 DEF RoundsFit
    <3>2. ASSUME pc[t] = "decide", run[t].iteration \in 1 .. MaxIterations,
                 Adds(t, LLMDecision(run[t].iteration, "handoff", None))
          PROVE  Numbered(new) /\ Cardinality(Decisions(new)) <= MaxIterations
      BY <1>5, <3>2, AddsExtends, IterationsAssumption
    <3>3. ASSUME NEW step, Adds(t, step), step.type # "llm_decision"
          PROVE  Numbered(new) /\ Cardinality(Decisions(new)) <= MaxIterations
      BY <1>1, <1>4, <3>3 DEF RoundsFit
    <3> QED BY <1>14, <3>1, <3>2, <3>3
            DEF HandsOver, IntentClassified, ToolResultStep, GroundingCheck
  <2> QED BY <1>3, <2>1, <2>2 DEF RoundsFit
<1>15. CASE Concludes(t)
  <2>1. PICK step : Adds(t, step) /\ step.type # "llm_decision"
    BY <1>15 DEF Concludes, FinalDecision
  <2>2. Decisions(new) = Decisions(tr) /\ Numbered(new)
    BY <1>4, <2>1
  <2> QED BY <1>1, <1>3, <1>15, <2>2 DEF RoundsFit, Concludes
<1>16. CASE Writes(t)
  BY <1>1, <1>16 DEF RoundsFit, Writes
<1>17. CASE \E tool \in Tools : Calls(t, tool)
  BY <1>3, <1>10, <1>17
<1> QED
  BY <1>6, <1>7, <1>8, <1>9, <1>11, <1>12, <1>13, <1>14, <1>15, <1>16, <1>17 DEF Moves

RoundsInv == IInv /\ \A t \in Tickets : RoundsFitTicket(t)

LEMMA RoundsInvAtFirst == Init => RoundsInv
<1> SUFFICES ASSUME Init, NEW t \in Tickets PROVE RoundsFitTicket(t)
  BY InitEstablishesIInv DEF RoundsInv
<1>1. run[t] = NoRun /\ store[t].trace = <<>> /\ pc[t] = "idle"
  BY DEF Init, NoTicket
<1> QED BY <1>1, NoRoundsFit DEF RoundsFitTicket

LEMMA NextKeepsRoundsInv == RoundsInv /\ [Next]_vars => RoundsInv'
<1> SUFFICES ASSUME RoundsInv, [Next]_vars, NEW t \in Tickets PROVE RoundsFitTicket(t)'
  BY NextKeepsIInv DEF RoundsInv
<1> QED BY StepsAreMoves, MovesKeepRounds DEF RoundsInv

LEMMA AlwaysRoundsInv == Spec => []RoundsInv
BY RoundsInvAtFirst, NextKeepsRoundsInv, PTL DEF Spec

\* For every cap: no trace shows more rounds, and they are numbered from 1 without gaps.
THEOREM LoopAlwaysBounded == Spec => []LoopIsBounded
<1>1. RoundsInv => LoopIsBounded
  <2> SUFFICES ASSUME RoundsInv, NEW t \in Tickets, NEW tr \in {run[t].trace, store[t].trace}
               PROVE  Cardinality(Decisions(tr)) <= MaxIterations /\ Numbered(tr)
    BY DEF LoopIsBounded, Numbered, Traces
  <2> QED BY DEF RoundsInv, RoundsFitTicket, RoundsFit
<1> QED BY <1>1, AlwaysRoundsInv, PTL

-----------------------------------------------------------------------------
\* What comes before an outcome: `last` is the place before the final decision's.

LastWord(tr, d) ==
  \E n \in Decisions(tr) : tr[n].decision = d /\ \A m \in Decisions(tr) : m <= n

Earned(tr, last, reply) ==
  /\ last \in 1 .. Len(tr)
  /\ Positions(tr, "grounding_check") = {last}
  /\ tr[last] = GroundingCheck(TRUE)
  /\ LastWord(tr, "reply")
  /\ ToolResults(tr, FALSE) = {}
  /\ Evidence(reply) \subseteq OkTools(tr)

Caused(tr, last, reason, tool) ==
  \/ LastWord(tr, "handoff")
  \/ /\ reason # "TOOL_ERROR" => last \in 1 .. Len(tr)
     /\ reason \in {"USER_NOT_FOUND", "DATA_NOT_FOUND"} =>
          tr[last] = ToolResultStep(tool, FALSE) /\ ToolResults(tr, FALSE) = {last}
     /\ reason = "UNSUPPORTED_INTENT" => last = 1 /\ tr[last] = IntentClassified("unknown")
     /\ reason = "ITERATION_CAP_EXCEEDED" =>
          /\ Cardinality(Decisions(tr)) = MaxIterations
          /\ \E name \in Tools : tr[last] = ToolResultStep(name, TRUE)
     /\ reason = "UNGROUNDED_REPLY" => tr[last] = GroundingCheck(FALSE)
     /\ reason = "TOOL_ERROR" => Positions(tr, "grounding_check") = {}

Justifies(tr, last, status, reply, reason, tool) ==
  /\ status = "replied" => Earned(tr, last, reply)
  /\ status = "handed_off" => Caused(tr, last, reason, tool)

\* A concluded trace justifies what was concluded; its last step names the tool.
Justified(tr, status, reply, reason) ==
  status \in Terminal =>
    Len(tr) \in Nat \ {0} /\ Justifies(tr, Len(tr) - 1, status, reply, reason, tr[Len(tr)].detail)

EndFits(place, r) ==
  LET tr == r.trace
      o == r.outcome
  IN
  /\ place = "classify" => tr = <<>>
  /\ place \in Deciding => Positions(tr, "grounding_check") = {}
  /\ place = "decide" =>
       \/ r.iteration = 1
       \/ Len(tr) \in Nat \ {0} /\ \E name \in Tools : tr[Len(tr)] = ToolResultStep(name, TRUE)
  /\ place = "ground" => LastWord(tr, "reply")
  /\ place = "final" => Justifies(tr, Len(tr), o.status, o.reply, o.reason, o.detail)
  /\ place = "write" => Justified(tr, o.status, o.reply, o.reason)

LEMMA ExtendedPositions ==
  ASSUME NEW tr, NEW step, NEW new, Extends(tr, step, new), NEW type
  PROVE  /\ step.type # type => Positions(new, type) = Positions(tr, type)
         /\ step.type = type => Positions(new, type) = Positions(tr, type) \union {Len(new)}
BY DEF Positions, Extends

LEMMA SameWord ==
  ASSUME NEW tr, NEW step, NEW new, Extends(tr, step, new), step.type # "llm_decision",
         NEW d, LastWord(tr, d)
  PROVE  LastWord(new, d)
<1>1. Decisions(new) = Decisions(tr)
  BY ExtendedPositions DEF Decisions
<1>2. \A n \in Decisions(tr) : new[n] = tr[n]
  BY DEF Decisions, Positions, Extends
<1> QED BY <1>1, <1>2 DEF LastWord

LEMMA NewWord ==
  ASSUME NEW tr, NEW step, NEW new, Extends(tr, step, new), step.type = "llm_decision"
  PROVE  LastWord(new, step.decision)
<1>1. Decisions(new) = Decisions(tr) \union {Len(new)}
  BY ExtendedPositions DEF Decisions
<1>2. \A m \in Decisions(tr) : m <= Len(new)
  BY DEF Decisions, Positions, Extends
<1>3. new[Len(new)] = step /\ Len(new) <= Len(new)
  BY DEF Extends
<1> QED BY <1>1, <1>2, <1>3 DEF LastWord

\* The final decision changes nothing of what it follows from.
LEMMA FinalStepJustified ==
  ASSUME NEW tr, NEW step, NEW new, Extends(tr, step, new), step.type = "final_decision",
         NEW status, NEW reply, NEW reason,
         Justifies(tr, Len(tr), status, reply, reason, step.detail)
  PROVE  Justified(new, status, reply, reason)
<1> DEFINE last == Len(tr)
           tool == step.detail
<1>1. Len(new) \in Nat \ {0} /\ Len(new) - 1 = last /\ new[Len(new)].detail = tool
  BY DEF Extends
<1>2. /\ Positions(new, "grounding_check") = Positions(tr, "grounding_check")
      /\ Decisions(new) = Decisions(tr)
  BY ExtendedPositions DEF Decisions
<1>3. ToolResults(new, FALSE) = ToolResults(tr, FALSE) /\ OkTools(new) = OkTools(tr)
  BY ExtendedResults, ExtendedTools
<1>4. last \in 1 .. Len(tr) => last \in 1 .. Len(new) /\ new[last] = tr[last]
  BY DEF Extends
<1>5. \A d : LastWord(tr, d) => LastWord(new, d)
  BY SameWord
<1>6. ASSUME status = "replied" PROVE Earned(new, last, reply)
  <2>1. Earned(tr, last, reply)
    BY <1>6 DEF Justifies
  <2> QED BY <2>1, <1>2, <1>3, <1>4, <1>5 DEF Earned
<1>7. ASSUME status = "handed_off" PROVE Caused(new, last, reason, tool)
  <2>1. Caused(tr, last, reason, tool)
    BY <1>7 DEF Justifies
  <2>2. CASE LastWord(tr, "handoff")
    BY <1>5, <2>2 DEF Caused
  <2>3. CASE ~LastWord(tr, "handoff")
    <3>1. CASE reason = "TOOL_ERROR"
      BY <1>2, <2>1, <2>3, <3>1 DEF Caused
    <3>2. CASE reason # "TOOL_ERROR"
      BY <1>2, <1>3, <1>4, <2>1, <2>3, <3>2 DEF Caused
    <3> QED BY <3>1, <3>2
  <2> QED BY <2>2, <2>3
<1> QED BY <1>1, <1>6, <1>7 DEF Justified, Justifies

EndFitsTicket(t) ==
  /\ EndFits(pc[t], run[t])
  /\ Justified(store[t].trace, store[t].status, store[t].reply, store[t].reason)

LEMMA NoRunEnds ==
  ASSUME NEW place, place \notin {"decide", "ground", "final", "write"}
  PROVE  EndFits(place, NoRun)
<1>1. NoRun.trace = <<>> /\ Positions(<<>>, "grounding_check") = {}
  BY DEF NoRun, Positions
<1> QED BY <1>1 DEF EndFits

\* A place outside the run asks for nothing.
LEMMA OutsideFits ==
  ASSUME NEW place, place \notin Deciding \union {"final", "write"}, NEW r
  PROVE  EndFits(place, r)
BY DEF EndFits, Deciding

LEMMA MovesKeepEnds ==
  ASSUME IInv, NEW t \in Tickets, ToolsFitTicket(t), RoundsFitTicket(t), EndFitsTicket(t),
         Moves(t)
  PROVE  EndFitsTicket(t)'
<1> DEFINE tr == run[t].trace
           new == run'[t].trace
           o == run'[t].outcome
<1>1. ToolsFit(pc[t], run[t]) /\ RoundsFit(pc[t], run[t]) /\ EndFits(pc[t], run[t])
  BY DEF ToolsFitTicket, RoundsFitTicket, EndFitsTicket
<1>2. store'[t] = store[t] =>
        Justified(store'[t].trace, store'[t].status, store'[t].reply, store'[t].reason)
  BY DEF EndFitsTicket
<1> SUFFICES
      /\ EndFits(pc'[t], run'[t])
      /\ Justified(store'[t].trace, store'[t].status, store'[t].reply, store'[t].reason)
  BY DEF EndFitsTicket
<1> USE DEF Goes, Knows, Deciding
<1>3. ASSUME NEW step, Adds(t, step), pc[t] \in Deciding, step.type # "grounding_check"
      PROVE  Positions(new, "grounding_check") = {}
  BY <1>1, <1>3, AddsExtends, ExtendedPositions DEF EndFits
<1>4. CASE Stays(t)
  BY <1>1, <1>2, <1>4 DEF Stays
<1>5. CASE Leaves(t)
  <2>1. EndFits(pc'[t], run'[t])
    BY <1>5, OutsideFits DEF Leaves
  <2>2. ASSUME store'[t] = NewTicket
        PROVE  Justified(store'[t].trace, store'[t].status, store'[t].reply, store'[t].reason)
    <3>1. store'[t].status = "processing"
      BY <2>2 DEF NewTicket, NoTicket
    <3> QED BY <3>1 DEF Justified, Terminal
  <2> QED BY <1>2, <1>5, <2>1, <2>2 DEF Leaves
<1>6. CASE Starts(t)
  BY <1>2, <1>6, NoRunEnds DEF Starts
<1>7. CASE Classifies(t)
  <2>1. Positions(new, "grounding_check") = {}
    BY <1>3, <1>7 DEF Classifies, IntentClassified
  <2> QED BY <1>2, <1>7, <2>1 DEF EndFits, Classifies
<1>8. ASSUME NEW tool \in Tools, Calls(t, tool)
      PROVE  EndFits(pc'[t], run'[t]) /\ store'[t] = store[t]
  <2> DEFINE step1 == LLMDecision(run[t].iteration, "tool_call", tool)
             step2 == ToolCallStep(tool)
             mid == Append(tr, step1)
  <2>1. Extends(tr, step1, mid) /\ step1.type = "llm_decision"
    BY RunFacts, AppendExtends DEF LLMDecision
  <2>2. Extends(mid, step2, new) /\ step2.type = "tool_call"
    <3>1. mid \in Seq(TraceStep)
      BY <1>8, RunFacts, StepTypes DEF Calls
    <3> QED BY <1>8, <3>1, AppendExtends DEF Calls, ToolCallStep
  <2> HIDE DEF step1, step2, mid
  <2>3. Positions(tr, "grounding_check") = {}
    BY <1>1, <1>8 DEF EndFits, Calls
  <2>4. Positions(new, "grounding_check") = {}
    BY <2>1, <2>2, <2>3, ExtendedPositions
  <2> QED BY <1>8, <2>4 DEF EndFits, Calls
<1>9. CASE Drafts(t)
  <2> DEFINE step == LLMDecision(run[t].iteration, "reply", None)
  <2>1. step.type = "llm_decision" /\ step.decision = "reply"
    BY DEF LLMDecision
  <2>2. Adds(t, step) /\ Extends(tr, step, new)
    BY <1>9, AddsExtends DEF Drafts
  <2> HIDE DEF step
  <2>3. Positions(new, "grounding_check") = {} /\ LastWord(new, "reply")
    BY <1>3, <1>9, <2>1, <2>2, NewWord DEF Drafts
  <2> QED BY <1>2, <1>9, <2>3 DEF EndFits, Drafts
<1>10. CASE Observes(t)
  <2> DEFINE tool == run[t].inFlight
             step == ToolResultStep(tool, TRUE)
  <2>1. step.type = "tool_result" /\ tool \in Tools
    BY <1>10, RunFacts DEF ToolResultStep, Observes, RunFits
  <2>2. Adds(t, step) /\ Extends(tr, step, new)
    BY <1>10, AddsExtends DEF Observes
  <2>3. Len(new) \in Nat \ {0} /\ new[Len(new)] = ToolResultStep(tool, TRUE)
    BY <2>2 DEF Extends
  <2> HIDE DEF step
  <2>4. Positions(new, "grounding_check") = {}
    BY <1>3, <1>10, <2>1, <2>2 DEF Observes
  <2> QED BY <1>2, <1>10, <2>1, <2>3, <2>4 DEF EndFits, Observes
<1>11. CASE Replies(t)
  <2> DEFINE step == GroundingCheck(TRUE)
  <2>1. Extends(tr, step, new) /\ step.type = "grounding_check"
    BY <1>11, AddsExtends DEF Replies, GroundingCheck
  <2>2. Len(new) \in 1 .. Len(new) /\ new[Len(new)] = GroundingCheck(TRUE)
    BY <2>1 DEF Extends
  <2>3. o.status = "replied" /\ o.reply = run[t].draft
    BY <1>11 DEF Replies, Replied
  <2> HIDE DEF step
  <2>4. Positions(new, "grounding_check") = {Len(new)}
    BY <1>1, <1>11, <2>1, ExtendedPositions DEF EndFits, Replies
  <2>5. LastWord(new, "reply")
    BY <1>1, <1>11, <2>1, SameWord DEF EndFits, Replies
  <2>6. ToolResults(tr, FALSE) = {} /\ Evidence(o.reply) \subseteq OkTools(tr)
    BY <1>1, <1>11, <2>3 DEF ToolsFit, Replies
  <2>7. ToolResults(new, FALSE) = {} /\ OkTools(new) = OkTools(tr)
    BY <2>1, <2>6, QuietStep
  <2>8. Earned(new, Len(new), o.reply)
    BY <2>2, <2>4, <2>5, <2>6, <2>7 DEF Earned
  <2>9. Justifies(new, Len(new), o.status, o.reply, o.reason, o.detail)
    BY <2>3, <2>8 DEF Justifies
  <2> QED BY <1>2, <1>11, <2>9 DEF EndFits, Replies
<1>12. CASE HandsOver(t)
  <2>1. pc'[t] = "final" /\ store'[t] = store[t] /\ o.status = "handed_off" /\ pc[t] \in Deciding
    BY <1>12 DEF HandsOver
  <2>2. ToolResults(tr, FALSE) = {} /\ Positions(tr, "grounding_check") = {}
    BY <1>1, <2>1 DEF ToolsFit, EndFits
  <2>3. ASSUME new = tr, o.reason = "TOOL_ERROR"
        PROVE  Caused(new, Len(new), o.reason, o.detail)
    BY <2>2, <2>3 DEF Caused
  <2>4. ASSUME pc[t] = "decide", run[t].iteration > MaxIterations, new = tr,
               o.reason = "ITERATION_CAP_EXCEEDED"
        PROVE  Caused(new, Len(new), o.reason, o.detail)
    <3>1. Cardinality(Decisions(tr)) = MaxIterations
      <4>1. /\ Cardinality(Decisions(tr)) <= MaxIterations
            /\ run[t].iteration = Cardinality(Decisions(tr)) + 1
        BY <1>1, <2>4 DEF RoundsFit
      <4>2. Cardinality(Decisions(tr)) \in Nat
        BY RunFacts, DecisionsAreFinite
      <4> QED BY <2>4, <4>1, <4>2, IterationsAssumption
    <3>2. run[t].iteration # 1
      BY <2>4, IterationsAssumption
    <3>3. /\ Len(tr) \in Nat \ {0}
          /\ \E name \in Tools : tr[Len(tr)] = ToolResultStep(name, TRUE)
      BY <1>1, <2>4, <3>2 DEF EndFits
    <3>4. Len(tr) \in 1 .. Len(tr)
      BY <3>3
    <3> QED BY <2>4, <3>1, <3>3, <3>4 DEF Caused
  <2>5. ASSUME pc[t] = "classify", Adds(t, IntentClassified("unknown")),
               o.reason = "UNSUPPORTED_INTENT"
        PROVE  Caused(new, Len(new), o.reason, o.detail)
    <3>1. Extends(tr, IntentClassified("unknown"), new) /\ Len(tr) = 0
      BY <1>1, <2>5, AddsExtends DEF EndFits
    <3>2. Len(new) = 1 /\ new[Len(new)] = IntentClassified("unknown")
      BY <3>1 DEF Extends
    <3> QED BY <2>5, <3>2 DEF Caused
  <2>6. ASSUME Adds(t, LLMDecision(run[t].iteration, "handoff", None))
        PROVE  Caused(new, Len(new), o.reason, o.detail)
    <3> DEFINE step == LLMDecision(run[t].iteration, "handoff", None)
    <3>1. step.type = "llm_decision" /\ step.decision = "handoff" /\ Extends(tr, step, new)
      BY <2>6, AddsExtends DEF LLMDecision
    <3> HIDE DEF step
    <3>2. LastWord(new, "handoff")
      BY <3>1, NewWord
    <3> QED BY <3>2 DEF Caused
  <2>7. ASSUME pc[t] = "tool", Adds(t, ToolResultStep(run[t].inFlight, FALSE)),
               \/ o.reason = "TOOL_ERROR"
               \/ o.reason \in {"USER_NOT_FOUND", "DATA_NOT_FOUND"} /\ o.detail = run[t].inFlight
        PROVE  Caused(new, Len(new), o.reason, o.detail)
    <3> DEFINE step == ToolResultStep(run[t].inFlight, FALSE)
    <3>1. Extends(tr, step, new)
      BY <2>7, AddsExtends
    <3>2. step.type = "tool_result" /\ step.ok = FALSE
      BY DEF ToolResultStep
    <3>3. Len(new) \in 1 .. Len(new) /\ new[Len(new)] = step
      BY <3>1 DEF Extends
    <3>4. Positions(new, "grounding_check") = {}
      BY <1>3, <2>1, <2>7, <3>2
    <3>5. ToolResults(new, FALSE) = {Len(new)}
      <4>1. Len(new) \in ToolResults(new, FALSE)
        BY <3>2, <3>3 DEF ToolResults, Positions
      <4>2. ToolResults(new, FALSE) \subseteq {Len(new)}
        BY <2>2, <3>1, ExtendedResults
      <4> QED BY <4>1, <4>2
    <3> QED BY <2>7, <3>3, <3>4, <3>5 DEF Caused
  <2>8. ASSUME Adds(t, GroundingCheck(FALSE)), o.reason = "UNGROUNDED_REPLY"
        PROVE  Caused(new, Len(new), o.reason, o.detail)
    <3>1. Extends(tr, GroundingCheck(FALSE), new)
      BY <2>8, AddsExtends
    <3>2. Len(new) \in 1 .. Len(new) /\ new[Len(new)] = GroundingCheck(FALSE)
      BY <3>1 DEF Extends
    <3> QED BY <2>8, <3>2 DEF Caused
  <2>9. Caused(new, Len(new), o.reason, o.detail)
    BY <1>12, <2>3, <2>4, <2>5, <2>6, <2>7, <2>8 DEF HandsOver
  <2>10. Justifies(new, Len(new), o.status, o.reply, o.reason, o.detail)
    BY <2>1, <2>9 DEF Justifies
  <2> QED BY <1>2, <2>1, <2>10 DEF EndFits
<1>13. CASE Concludes(t)
  <2> DEFINE step == FinalDecision(o.status, o.reason, o.detail)
  <2>1. /\ pc[t] = "final" /\ pc'[t] = "write" /\ store'[t] = store[t]
        /\ o = run[t].outcome /\ Adds(t, step)
    BY <1>13 DEF Concludes
  <2>2. step.type = "final_decision" /\ step.detail = o.detail
    BY DEF FinalDecision
  <2>3. Extends(tr, step, new)
    BY <2>1, AddsExtends
  <2>4. Justifies(tr, Len(tr), o.status, o.reply, o.reason, o.detail)
    BY <1>1, <2>1 DEF EndFits
  <2> HIDE DEF step
  <2>5. Justified(new, o.status, o.reply, o.reason)
    BY <2>2, <2>3, <2>4, FinalStepJustified
  <2> QED BY <1>2, <2>1, <2>5 DEF EndFits
<1>14. CASE Writes(t)
  <2>1. EndFits(pc'[t], run'[t])
    BY <1>14, OutsideFits DEF Writes
  <2> QED BY <1>1, <1>14, <2>1 DEF EndFits, Writes
<1>15. CASE \E tool \in Tools : Calls(t, tool)
  BY <1>2, <1>8, <1>15
<1> QED
  BY <1>4, <1>5, <1>6, <1>7, <1>9, <1>10, <1>11, <1>12, <1>13, <1>14, <1>15 DEF Moves

EndsInv == ToolsInv /\ RoundsInv /\ \A t \in Tickets : EndFitsTicket(t)

LEMMA AlwaysEndsInv == Spec => []EndsInv
<1> DEFINE Ends == \A t \in Tickets : EndFitsTicket(t)
<1>1. Init => Ends
  <2> SUFFICES ASSUME Init, NEW t \in Tickets PROVE EndFitsTicket(t)
    OBVIOUS
  <2>1. run[t] = NoRun /\ store[t].status = "absent" /\ pc[t] = "idle"
    BY DEF Init, NoTicket
  <2> QED BY <2>1, NoRunEnds DEF EndFitsTicket, Justified, Terminal
<1>2. ToolsInv /\ RoundsInv /\ Ends /\ [Next]_vars => Ends'
  <2> SUFFICES ASSUME ToolsInv, RoundsInv, Ends, [Next]_vars, NEW t \in Tickets
               PROVE  EndFitsTicket(t)'
    OBVIOUS
  <2> QED BY StepsAreMoves, MovesKeepEnds DEF ToolsInv, RoundsInv
<1>3. ToolsInv /\ RoundsInv /\ Ends <=> EndsInv
  BY DEF EndsInv
<1> HIDE DEF Ends
<1> QED BY <1>1, <1>2, <1>3, AlwaysToolsInv, AlwaysRoundsInv, PTL DEF Spec

LEMMA LastWordIsLast ==
  ASSUME NEW tr, Len(tr) \in Nat, NEW d, LastWord(tr, d)
  PROVE  LastDecision(tr) = d
<1>1. PICK n \in Decisions(tr) : tr[n].decision = d /\ \A m \in Decisions(tr) : m <= n
  BY DEF LastWord
<1>2. Decisions(tr) \subseteq Nat
  BY DEF Decisions, Positions
<1>3. Max(Decisions(tr)) = n
  BY <1>1, <1>2 DEF Max
<1> QED BY <1>1, <1>3 DEF LastDecision

\* No reply is ever stored without the passed check and the records behind it.
THEOREM RepliesAlwaysEarned == Spec => []RepliesAreEarned
<1>1. EndsInv => RepliesAreEarned
  <2> SUFFICES ASSUME EndsInv, NEW t \in Tickets, store[t].status = "replied"
               PROVE  LET tr == store[t].trace IN
                      /\ Positions(tr, "grounding_check") = {Len(tr) - 1}
                      /\ tr[Len(tr) - 1].passed
                      /\ LastDecision(tr) = "reply"
                      /\ ToolResults(tr, FALSE) = {}
                      /\ Evidence(store[t].reply) \subseteq OkTools(tr)
    BY DEF RepliesAreEarned, StoredAs
  <2> DEFINE tr == store[t].trace
  <2>1. Len(tr) \in Nat /\ Earned(tr, Len(tr) - 1, store[t].reply)
    BY DEF EndsInv, EndFitsTicket, Justified, Justifies, Terminal
  <2>2. tr[Len(tr) - 1].passed
    BY <2>1 DEF Earned, GroundingCheck
  <2> QED BY <2>1, <2>2, LastWordIsLast DEF Earned
<1> QED BY <1>1, AlwaysEndsInv, PTL

\* A reason the model did not give has its cause in the step before the final decision.
THEOREM ReasonsAlwaysEarned == Spec => []ReasonsAreEarned
<1>1. EndsInv => ReasonsAreEarned
  <2> SUFFICES ASSUME EndsInv, NEW t \in Tickets, store[t].status = "handed_off",
                      LastDecision(store[t].trace) # "handoff"
               PROVE  LET tr == store[t].trace
                          reason == store[t].reason
                          cause == tr[Len(tr) - 1]
                      IN
                      /\ reason \in {"USER_NOT_FOUND", "DATA_NOT_FOUND"} =>
                           /\ cause = ToolResultStep(Last(tr).detail, FALSE)
                           /\ ToolResults(tr, FALSE) = {Len(tr) - 1}
                      /\ reason = "UNSUPPORTED_INTENT" =>
                           /\ Len(tr) = 2
                           /\ cause = IntentClassified("unknown")
                      /\ reason = "ITERATION_CAP_EXCEEDED" =>
                           /\ Cardinality(Decisions(tr)) = MaxIterations
                           /\ cause.type = "tool_result" /\ cause.ok
                      /\ reason = "UNGROUNDED_REPLY" => cause = GroundingCheck(FALSE)
                      /\ reason = "TOOL_ERROR" => Positions(tr, "grounding_check") = {}
    BY DEF ReasonsAreEarned, StoredAs
  <2> DEFINE tr == store[t].trace
             last == Len(tr) - 1
             reason == store[t].reason
  <2>1. Len(tr) \in Nat /\ Caused(tr, last, reason, tr[Len(tr)].detail)
    BY DEF EndsInv, EndFitsTicket, Justified, Justifies, Terminal
  <2>2. ~LastWord(tr, "handoff")
    BY <2>1, LastWordIsLast
  <2>3. Last(tr) = tr[Len(tr)]
    BY DEF Last
  <2>4. reason = "ITERATION_CAP_EXCEEDED" =>
          /\ Cardinality(Decisions(tr)) = MaxIterations
          /\ tr[last].type = "tool_result" /\ tr[last].ok
    <3> SUFFICES ASSUME reason = "ITERATION_CAP_EXCEEDED"
                 PROVE  /\ Cardinality(Decisions(tr)) = MaxIterations
                        /\ tr[last].type = "tool_result" /\ tr[last].ok
      OBVIOUS
    <3> HIDE DEF tr, last, reason
    <3>1. /\ Cardinality(Decisions(tr)) = MaxIterations
          /\ \E name \in Tools : tr[last] = ToolResultStep(name, TRUE)
      BY <2>1, <2>2 DEF Caused
    <3>2. \A name : /\ ToolResultStep(name, TRUE).type = "tool_result"
                    /\ ToolResultStep(name, TRUE).ok
      BY DEF ToolResultStep
    <3> QED BY <3>1, <3>2
  <2>5. reason = "UNSUPPORTED_INTENT" => Len(tr) = 2
    BY <2>1, <2>2 DEF Caused
  <2> QED BY <2>1, <2>2, <2>3, <2>4, <2>5 DEF Caused
<1> QED BY <1>1, AlwaysEndsInv, PTL

-----------------------------------------------------------------------------
\* The counters.

TicketsCounted(s) ==
  { t \in Tickets : pc[t] \in {"count_handoff", "count_steps", "ended"} /\ store[t].status = s }

HandoffsCounted(r) ==
  { t \in Tickets : pc[t] \in {"count_steps", "ended"} /\ store[t].reason = r }

\* The handoffs whose ticket is counted and whose reason is not.
HandoffsDue == { t \in Tickets : pc[t] = "count_handoff" /\ store[t].status = "handed_off" }

StepsDue == { t \in Tickets : pc[t] \in {"count_handoff", "count_steps"} }

Ended == { t \in Tickets : pc[t] = "ended" }

Started == { t \in Tickets : pc[t] # "idle" }

Results(ok) == [t \in Tickets |-> Cardinality(ToolResults(store[t].trace, ok))]

\* A crash forgets what was counted; until then nothing is missing.
Within(count, n) == count <= n /\ (crashes = 0 => count = n)

CountersFit ==
  /\ \A s \in Terminal : Within(metrics.tickets[s], Cardinality(TicketsCounted(s)))
  /\ \A r \in HandoffReason : Within(metrics.handoffs[r], Cardinality(HandoffsCounted(r)))
  /\ SumFunction(metrics.handoffs) + Cardinality(HandoffsDue) <= metrics.tickets["handed_off"]
  /\ SumFunction(metrics.iterations) + Cardinality(StepsDue) <= SumFunction(metrics.tickets)
  /\ crashes = 0 =>
       /\ SumFunction(metrics.iterations) = Cardinality(Ended)
       /\ \A ok \in BOOLEAN : metrics.tools[ok] = SumFunctionOnSet(Results(ok), Ended)

\* What record_run is given is what finalise has written.
CountsWhatIsStored ==
  \A t \in Tickets :
    pc[t] \in Counting =>
      /\ store[t].status = run[t].outcome.status
      /\ store[t].reason = run[t].outcome.reason
      /\ store[t].trace = run[t].trace

CountersInv ==
  /\ RoundsInv
  /\ IsFiniteSet(Started)
  /\ CountsWhatIsStored
  /\ \A t \in Tickets : pc[t] = "lost" => crashes > 0
  /\ CountersFit

LEMMA FiniteEnumerations ==
  /\ IsFiniteSet(Terminal) /\ IsFiniteSet(HandoffReason) /\ IsFiniteSet(0 .. MaxIterations)
<1>1. IsFiniteSet({}) /\ \A S, x : IsFiniteSet(S) => IsFiniteSet(S \union {x})
  BY FS_EmptySet, FS_AddElement
<1>2. Terminal = ({} \union {"replied"}) \union {"handed_off"}
  BY DEF Terminal
<1>3. HandoffReason =
        ((((({} \union {"USER_NOT_FOUND"}) \union {"DATA_NOT_FOUND"}) \union {"UNSUPPORTED_INTENT"})
          \union {"TOOL_ERROR"}) \union {"ITERATION_CAP_EXCEEDED"}) \union {"UNGROUNDED_REPLY"}
  BY DEF HandoffReason
<1>4. IsFiniteSet(0 .. MaxIterations)
  BY FS_Interval, IterationsAssumption
<1>5. IsFiniteSet(Terminal)
  BY <1>1, <1>2
<1>6. IsFiniteSet(HandoffReason)
  <2> DEFINE A == (({} \union {"USER_NOT_FOUND"}) \union {"DATA_NOT_FOUND"}) \union {"UNSUPPORTED_INTENT"}
  <2>1. IsFiniteSet(A)
    BY <1>1
  <2>2. HandoffReason =
          ((A \union {"TOOL_ERROR"}) \union {"ITERATION_CAP_EXCEEDED"}) \union {"UNGROUNDED_REPLY"}
    BY <1>3
  <2> HIDE DEF A
  <2> QED BY <1>1, <2>1, <2>2
<1> QED BY <1>4, <1>5, <1>6

LEMMA Joins ==
  ASSUME NEW S, IsFiniteSet(S), NEW t, t \notin S
  PROVE  Cardinality(S \union {t}) = Cardinality(S) + 1 /\ Cardinality(S) \in Nat
BY FS_AddElement, FS_CardinalityType

LEMMA Parts ==
  ASSUME IsFiniteSet(Started)
  PROVE  /\ \A s : IsFiniteSet(TicketsCounted(s)) /\ Cardinality(TicketsCounted(s)) \in Nat
         /\ \A r : IsFiniteSet(HandoffsCounted(r)) /\ Cardinality(HandoffsCounted(r)) \in Nat
         /\ IsFiniteSet(HandoffsDue) /\ Cardinality(HandoffsDue) \in Nat
         /\ IsFiniteSet(StepsDue) /\ Cardinality(StepsDue) \in Nat
         /\ IsFiniteSet(Ended) /\ Cardinality(Ended) \in Nat
<1>1. \A S : S \subseteq Started => IsFiniteSet(S) /\ Cardinality(S) \in Nat
  BY FS_Subset, FS_CardinalityType
<1>2. /\ \A s : TicketsCounted(s) \subseteq Started
      /\ \A r : HandoffsCounted(r) \subseteq Started
      /\ HandoffsDue \subseteq Started /\ StepsDue \subseteq Started /\ Ended \subseteq Started
  BY DEF TicketsCounted, HandoffsCounted, HandoffsDue, StepsDue, Ended, Started
<1> QED BY <1>1, <1>2

NothingCounted ==
  /\ \A s \in Terminal : NoMetrics.tickets[s] = 0
  /\ \A r \in HandoffReason : NoMetrics.handoffs[r] = 0
  /\ \A ok \in BOOLEAN : NoMetrics.tools[ok] = 0
  /\ SumFunction(NoMetrics.tickets) = 0
  /\ SumFunction(NoMetrics.handoffs) = 0
  /\ SumFunction(NoMetrics.iterations) = 0

LEMMA NoMetricsCountNothing == NothingCounted
<1>1. ASSUME NEW D, IsFiniteSet(D) PROVE SumFunction([x \in D |-> 0]) = 0
  <2> DEFINE f == [x \in D |-> 0]
  <2>1. DOMAIN f = D /\ \A x \in D : f[x] = 0
    OBVIOUS
  <2> HIDE DEF f
  <2>2. SumFunction(f) = 0
    BY <1>1, <2>1, SumOfDomain, SumOfZeros
  <2> QED BY <2>2 DEF f
<1>2. /\ NoMetrics.tickets = [s \in Terminal |-> 0]
      /\ NoMetrics.handoffs = [r \in HandoffReason |-> 0]
      /\ NoMetrics.iterations = [n \in 0 .. MaxIterations |-> 0]
      /\ NoMetrics.tools = [ok \in BOOLEAN |-> 0]
  BY DEF NoMetrics
<1>3. /\ SumFunction([s \in Terminal |-> 0]) = 0
      /\ SumFunction([r \in HandoffReason |-> 0]) = 0
      /\ SumFunction([n \in 0 .. MaxIterations |-> 0]) = 0
  BY <1>1, FiniteEnumerations
<1> QED BY <1>2, <1>3 DEF NothingCounted

LEMMA SumsAreNatural ==
  ASSUME IInv
  PROVE  /\ metrics.tickets["handed_off"] \in Nat
         /\ SumFunction(metrics.tickets) \in Nat
         /\ SumFunction(metrics.handoffs) \in Nat
         /\ SumFunction(metrics.iterations) \in Nat
BY SumIsNatural, FiniteEnumerations, MetricFields DEF Terminal

LEMMA StoredTraceType ==
  ASSUME IInv, NEW t \in Tickets
  PROVE  store[t].trace \in Seq(TraceStep)
<1>1. store[t] \in {NoTicket} \union StoredTicket
  BY DEF IInv, TypeOK
<1>2. NoTicket.trace \in Seq(TraceStep)
  BY DEF NoTicket
<1> QED BY <1>1, <1>2 DEF StoredTicket

LEMMA ResultsAreNatural ==
  ASSUME IInv
  PROVE  \A ok \in BOOLEAN : \A t \in Tickets : Results(ok)[t] \in Nat
<1> SUFFICES ASSUME NEW ok \in BOOLEAN, NEW t \in Tickets
             PROVE  Results(ok)[t] \in Nat
  OBVIOUS
<1>1. Cardinality(ToolResults(store[t].trace, ok)) \in Nat
  BY StoredTraceType, PositionsAreFinite DEF ToolResults, Positions
<1> QED BY <1>1 DEF Results

-----------------------------------------------------------------------------
\* Every step but three and the crash is out of the counters' sight.

Unseen(t) ==
  /\ pc[t] \notin {"count_handoff", "count_steps", "ended"}
  /\ pc'[t] \notin {"count_handoff", "count_steps", "ended"}
  /\ \A u \in Tickets \ {t} : pc'[u] = pc[u] /\ store'[u] = store[u]
  /\ metrics' = metrics /\ crashes' = crashes

LEMMA UnseenStep ==
  ASSUME CountersInv, NEW t \in Tickets, Unseen(t)
  PROVE  CountersFit'
<1>1. /\ \A s \in Terminal : TicketsCounted(s)' = TicketsCounted(s)
      /\ \A r \in HandoffReason : HandoffsCounted(r)' = HandoffsCounted(r)
      /\ HandoffsDue' = HandoffsDue
      /\ StepsDue' = StepsDue
      /\ Ended' = Ended
  BY DEF Unseen, TicketsCounted, HandoffsCounted, HandoffsDue, StepsDue, Ended
<1>2. ASSUME NEW ok \in BOOLEAN
      PROVE  SumFunctionOnSet(Results(ok)', Ended) = SumFunctionOnSet(Results(ok), Ended)
  <2>1. \A u \in Ended : Results(ok)'[u] = Results(ok)[u] /\ Results(ok)[u] \in Nat
    <3> SUFFICES ASSUME NEW u \in Ended
                 PROVE  Results(ok)'[u] = Results(ok)[u] /\ Results(ok)[u] \in Nat
      OBVIOUS
    <3>1. u \in Tickets /\ store'[u] = store[u]
      BY DEF Unseen, Ended
    <3> QED BY <3>1, ResultsAreNatural DEF Results, CountersInv, RoundsInv
  <2>2. IsFiniteSet(Ended)
    BY Parts DEF CountersInv
  <2> QED BY <2>1, <2>2, SumAgrees
<1> QED BY <1>1, <1>2 DEF CountersInv, CountersFit, Unseen, Within

-----------------------------------------------------------------------------
\* record_run, counter by counter.

\* What a step of record_run leaves alone.
CountingOf(t, from, to) ==
  /\ pc[t] = from /\ pc'[t] = to
  /\ \A u \in Tickets \ {t} : pc'[u] = pc[u]
  /\ store' = store /\ crashes' = crashes

LEMMA GotoIs ==
  ASSUME IInv, NEW t \in Tickets, NEW from, NEW to, Goto(t, from, to), store' = store, crashes' = crashes
  PROVE  CountingOf(t, from, to)
BY DEF Goto, CountingOf, IInv, TypeOK

LEMMA CountTicketCounts ==
  ASSUME CountersInv, NEW t \in Tickets, CountTicket(t)
  PROVE  CountersFit'
<1> DEFINE status == store[t].status
<1>1. CountingOf(t, "count_ticket", "count_handoff")
  BY GotoIs DEF CountTicket, CountersInv, RoundsInv
<1>2. /\ status = run[t].outcome.status /\ status \in Terminal
      /\ metrics.tickets \in [Terminal -> Nat] /\ metrics \in MetricRegistry
  BY <1>1, TicketFacts, MetricFields
  DEF CountingOf, CountersInv, RoundsInv, CountsWhatIsStored, Counting, RowFits
<1> HIDE DEF status
<1> DEFINE new == [metrics.tickets EXCEPT ![status] = @ + 1]
<1>3. /\ metrics'.tickets = new /\ metrics'.handoffs = metrics.handoffs
      /\ metrics'.iterations = metrics.iterations /\ metrics'.tools = metrics.tools
  BY <1>2 DEF CountTicket, MetricRegistry
<1>4. /\ SumFunction(new) = SumFunction(metrics.tickets) + 1
      /\ SumFunction(metrics.tickets) \in Nat
      /\ \A s \in Terminal :
           new[s] = IF s = status THEN metrics.tickets[s] + 1 ELSE metrics.tickets[s]
  BY <1>2, CounterGrows, FiniteEnumerations
<1> HIDE DEF new
<1>5. ASSUME NEW s \in Terminal
      PROVE  Within(metrics.tickets[s], Cardinality(TicketsCounted(s)))'
  <2>1. metrics.tickets[s] \in Nat
    BY <1>2
  <2>2. CASE s = status
    <3>1. t \notin TicketsCounted(s) /\ TicketsCounted(s)' = TicketsCounted(s) \union {t}
      BY <1>1, <2>2 DEF CountingOf, TicketsCounted, status
    <3>2. Cardinality(TicketsCounted(s))' = Cardinality(TicketsCounted(s)) + 1
      BY <3>1, Joins, Parts DEF CountersInv
    <3> QED BY <1>1, <1>3, <1>4, <2>1, <2>2, <3>2, Parts
            DEF CountersInv, CountersFit, Within, CountingOf
  <2>3. CASE s # status
    <3>1. TicketsCounted(s)' = TicketsCounted(s)
      BY <1>1, <2>3 DEF CountingOf, TicketsCounted, status
    <3> QED BY <1>1, <1>3, <1>4, <2>3, <3>1 DEF CountersInv, CountersFit, Within, CountingOf
  <2> QED BY <2>2, <2>3
<1>6. /\ \A r \in HandoffReason : HandoffsCounted(r)' = HandoffsCounted(r)
      /\ HandoffsDue' = IF status = "handed_off" THEN HandoffsDue \union {t} ELSE HandoffsDue
      /\ StepsDue' = StepsDue \union {t}
      /\ t \notin StepsDue /\ t \notin HandoffsDue
      /\ Ended' = Ended /\ \A ok \in BOOLEAN : Results(ok)' = Results(ok)
  BY <1>1 DEF CountingOf, HandoffsCounted, HandoffsDue, StepsDue, Ended, Results, status
<1>7. /\ Cardinality(StepsDue') = Cardinality(StepsDue) + 1
      /\ Cardinality(HandoffsDue') =
           IF status = "handed_off" THEN Cardinality(HandoffsDue) + 1 ELSE Cardinality(HandoffsDue)
  BY <1>6, Joins, Parts DEF CountersInv
<1>8. /\ metrics.tickets["handed_off"] \in Nat
      /\ SumFunction(metrics.handoffs) \in Nat /\ SumFunction(metrics.iterations) \in Nat
  BY <1>2, SumsAreNatural DEF CountersInv, RoundsInv, Terminal
<1>9. \A r \in HandoffReason : Within(metrics.handoffs[r], Cardinality(HandoffsCounted(r)))'
  BY <1>1, <1>3, <1>6 DEF CountersInv, CountersFit, Within, CountingOf
<1>10. (SumFunction(metrics.handoffs) + Cardinality(HandoffsDue) <= metrics.tickets["handed_off"])'
  BY <1>3, <1>4, <1>7, <1>8, Parts DEF CountersInv, CountersFit, Terminal
<1>11. (SumFunction(metrics.iterations) + Cardinality(StepsDue) <= SumFunction(metrics.tickets))'
  BY <1>3, <1>4, <1>7, <1>8, Parts DEF CountersInv, CountersFit
<1>12. (crashes = 0 =>
          /\ SumFunction(metrics.iterations) = Cardinality(Ended)
          /\ \A ok \in BOOLEAN : metrics.tools[ok] = SumFunctionOnSet(Results(ok), Ended))'
  BY <1>1, <1>3, <1>6 DEF CountersInv, CountersFit, CountingOf
<1> QED BY <1>5, <1>9, <1>10, <1>11, <1>12 DEF CountersFit

LEMMA CountHandoffCounts ==
  ASSUME CountersInv, NEW t \in Tickets, CountHandoff(t)
  PROVE  CountersFit'
<1> DEFINE reason == store[t].reason
<1>1. CountingOf(t, "count_handoff", "count_steps")
  BY GotoIs DEF CountHandoff, CountersInv, RoundsInv
<1>2. /\ reason = run[t].outcome.reason
      /\ reason \in HandoffReason <=> store[t].status = "handed_off"
      /\ reason \in HandoffReason \/ reason = None
      /\ None \notin HandoffReason
      /\ metrics.handoffs \in [HandoffReason -> Nat] /\ metrics \in MetricRegistry
  <2>1. reason = run[t].outcome.reason /\ store[t].status \in Terminal
    BY <1>1, TicketFacts DEF CountingOf, CountersInv, RoundsInv, CountsWhatIsStored, Counting, RowFits
  <2>2. store[t] \in StoredTicket
    BY <2>1 DEF CountersInv, RoundsInv, IInv, TypeOK, NoTicket, Terminal
  <2> QED BY <2>1, <2>2, MetricFields, NoneAssumption
          DEF CountersInv, RoundsInv, StoredTicket, StatusReplyAndReasonAgree, Terminal
<1> HIDE DEF reason
<1> DEFINE new == IF reason = None THEN metrics.handoffs
                  ELSE [metrics.handoffs EXCEPT ![reason] = @ + 1]
<1>3. /\ metrics'.handoffs = new /\ metrics'.tickets = metrics.tickets
      /\ metrics'.iterations = metrics.iterations /\ metrics'.tools = metrics.tools
  BY <1>2 DEF CountHandoff, MetricRegistry
<1>4. /\ SumFunction(metrics.handoffs) \in Nat
      /\ reason = None => SumFunction(new) = SumFunction(metrics.handoffs)
      /\ reason # None => SumFunction(new) = SumFunction(metrics.handoffs) + 1
      /\ \A r \in HandoffReason :
           new[r] = IF r = reason THEN metrics.handoffs[r] + 1 ELSE metrics.handoffs[r]
  <2>1. CASE reason = None
    BY <1>2, <2>1, SumsAreNatural DEF CountersInv, RoundsInv
  <2>2. CASE reason # None
    BY <1>2, <2>2, CounterGrows, FiniteEnumerations
  <2> QED BY <2>1, <2>2
<1> HIDE DEF new
<1>5. ASSUME NEW r \in HandoffReason
      PROVE  Within(metrics.handoffs[r], Cardinality(HandoffsCounted(r)))'
  <2>1. metrics.handoffs[r] \in Nat
    BY <1>2
  <2>2. CASE r = reason
    <3>1. t \notin HandoffsCounted(r) /\ HandoffsCounted(r)' = HandoffsCounted(r) \union {t}
      BY <1>1, <2>2 DEF CountingOf, HandoffsCounted, reason
    <3>2. Cardinality(HandoffsCounted(r))' = Cardinality(HandoffsCounted(r)) + 1
      BY <3>1, Joins, Parts DEF CountersInv
    <3> QED BY <1>1, <1>3, <1>4, <2>1, <2>2, <3>2, Parts
            DEF CountersInv, CountersFit, Within, CountingOf
  <2>3. CASE r # reason
    <3>1. HandoffsCounted(r)' = HandoffsCounted(r)
      BY <1>1, <2>3 DEF CountingOf, HandoffsCounted, reason
    <3> QED BY <1>1, <1>3, <1>4, <2>3, <3>1 DEF CountersInv, CountersFit, Within, CountingOf
  <2> QED BY <2>2, <2>3
<1>6. /\ \A s \in Terminal : TicketsCounted(s)' = TicketsCounted(s)
      /\ HandoffsDue' = HandoffsDue \ {t}
      /\ t \in HandoffsDue <=> reason # None
      /\ StepsDue' = StepsDue
      /\ Ended' = Ended /\ \A ok \in BOOLEAN : Results(ok)' = Results(ok)
  BY <1>1, <1>2 DEF CountingOf, TicketsCounted, HandoffsDue, StepsDue, Ended, Results
<1>7. Cardinality(HandoffsDue') =
        IF reason # None THEN Cardinality(HandoffsDue) - 1 ELSE Cardinality(HandoffsDue)
  <2>1. t \notin HandoffsDue => HandoffsDue \ {t} = HandoffsDue
    OBVIOUS
  <2> QED BY <1>6, <2>1, Parts, FS_RemoveElement DEF CountersInv
<1>8. metrics.tickets["handed_off"] \in Nat
  BY MetricFields DEF CountersInv, RoundsInv, Terminal
<1>9. \A s \in Terminal : Within(metrics.tickets[s], Cardinality(TicketsCounted(s)))'
  BY <1>1, <1>3, <1>6 DEF CountersInv, CountersFit, Within, CountingOf
<1>10. (SumFunction(metrics.handoffs) + Cardinality(HandoffsDue) <= metrics.tickets["handed_off"])'
  BY <1>3, <1>4, <1>7, <1>8, Parts DEF CountersInv, CountersFit
<1>11. (SumFunction(metrics.iterations) + Cardinality(StepsDue) <= SumFunction(metrics.tickets))'
  BY <1>3, <1>6 DEF CountersInv, CountersFit
<1>12. (crashes = 0 =>
          /\ SumFunction(metrics.iterations) = Cardinality(Ended)
          /\ \A ok \in BOOLEAN : metrics.tools[ok] = SumFunctionOnSet(Results(ok), Ended))'
  BY <1>1, <1>3, <1>6 DEF CountersInv, CountersFit, CountingOf
<1> QED BY <1>5, <1>9, <1>10, <1>11, <1>12 DEF CountersFit

LEMMA CountStepsCounts ==
  ASSUME CountersInv, NEW t \in Tickets, CountSteps(t)
  PROVE  CountersFit'
<1> DEFINE tr == run[t].trace
           rounds == Cardinality(Positions(tr, "llm_decision"))
           new == [metrics.iterations EXCEPT ![rounds] = @ + 1]
<1>1. CountingOf(t, "count_steps", "ended")
  BY GotoIs DEF CountSteps, CountersInv, RoundsInv
<1>2. /\ tr \in Seq(TraceStep) /\ tr = store[t].trace
      /\ rounds \in 0 .. MaxIterations
      /\ metrics.iterations \in [0 .. MaxIterations -> Nat] /\ metrics \in MetricRegistry
  <2>1. tr \in Seq(TraceStep) /\ tr = store[t].trace
    BY <1>1, RunFacts DEF CountersInv, RoundsInv, CountsWhatIsStored, CountingOf, Counting
  <2>2. rounds \in Nat
    BY <2>1, PositionsAreFinite DEF Positions
  <2>3. rounds <= MaxIterations
    BY DEF CountersInv, RoundsInv, RoundsFitTicket, RoundsFit, Decisions
  <2> QED BY <2>1, <2>2, <2>3, MetricFields, IterationsAssumption DEF CountersInv, RoundsInv
<1> HIDE DEF tr, rounds
<1>3. /\ metrics'.iterations = new
      /\ metrics'.tickets = metrics.tickets /\ metrics'.handoffs = metrics.handoffs
      /\ metrics'.tools =
           [ok \in BOOLEAN |-> metrics.tools[ok] + Cardinality(ToolResults(tr, ok))]
  BY <1>2 DEF CountSteps, MetricRegistry, tr, rounds
<1>4. SumFunction(new) = SumFunction(metrics.iterations) + 1
  BY <1>2, CounterGrows, FiniteEnumerations
<1> HIDE DEF new
<1>5. /\ \A s \in Terminal : TicketsCounted(s)' = TicketsCounted(s)
      /\ \A r \in HandoffReason : HandoffsCounted(r)' = HandoffsCounted(r)
      /\ HandoffsDue' = HandoffsDue
      /\ StepsDue' = StepsDue \ {t} /\ t \in StepsDue
      /\ Ended' = Ended \union {t} /\ t \notin Ended
      /\ \A ok \in BOOLEAN : Results(ok)' = Results(ok)
  BY <1>1 DEF CountingOf, TicketsCounted, HandoffsCounted, HandoffsDue, StepsDue, Ended, Results
<1>6. Cardinality(StepsDue') = Cardinality(StepsDue) - 1
  BY <1>5, Parts, FS_RemoveElement DEF CountersInv
<1>7. Cardinality(Ended') = Cardinality(Ended) + 1
  BY <1>5, Joins, Parts DEF CountersInv
<1>8. SumFunction(metrics.iterations) \in Nat /\ SumFunction(metrics.tickets) \in Nat
  BY SumsAreNatural DEF CountersInv, RoundsInv
<1>9. /\ \A s \in Terminal : Within(metrics.tickets[s], Cardinality(TicketsCounted(s)))'
      /\ \A r \in HandoffReason : Within(metrics.handoffs[r], Cardinality(HandoffsCounted(r)))'
      /\ (SumFunction(metrics.handoffs) + Cardinality(HandoffsDue) <= metrics.tickets["handed_off"])'
  BY <1>1, <1>3, <1>5 DEF CountersInv, CountersFit, Within, CountingOf
<1>10. (SumFunction(metrics.iterations) + Cardinality(StepsDue) <= SumFunction(metrics.tickets))'
  BY <1>3, <1>4, <1>6, <1>8, Parts DEF CountersInv, CountersFit
<1>11. (crashes = 0 => SumFunction(metrics.iterations) = Cardinality(Ended))'
  BY <1>1, <1>3, <1>4, <1>7, Parts DEF CountersInv, CountersFit, CountingOf
<1>12. ASSUME NEW ok \in BOOLEAN, crashes = 0
       PROVE  (metrics.tools[ok] = SumFunctionOnSet(Results(ok), Ended))'
  <2>1. \A u \in Tickets : Results(ok)[u] \in Nat
    BY ResultsAreNatural DEF CountersInv, RoundsInv
  <2>2. Results(ok)[t] = Cardinality(ToolResults(tr, ok))
    BY <1>2 DEF Results
  <2>3. SumFunctionOnSet(Results(ok), Ended \union {t}) =
          Results(ok)[t] + SumFunctionOnSet(Results(ok), Ended)
    <3>1. IsFiniteSet(Ended) /\ \A u \in Ended : u \in Tickets
      BY Parts DEF CountersInv, Ended
    <3> QED BY <1>5, <2>1, <3>1, SumWith
  <2>4. metrics.tools[ok] = SumFunctionOnSet(Results(ok), Ended)
    BY <1>12 DEF CountersInv, CountersFit
  <2>5. metrics'.tools[ok] = metrics.tools[ok] + Cardinality(ToolResults(tr, ok))
    BY <1>3
  <2>6. metrics.tools[ok] \in Nat
    BY MetricFields DEF CountersInv, RoundsInv
  <2>7. Results(ok)[t] \in Nat
    BY <2>1
  <2> QED BY <1>5, <2>2, <2>3, <2>4, <2>5, <2>6, <2>7
<1>13. crashes' = crashes
  BY <1>1 DEF CountingOf
<1> QED BY <1>9, <1>10, <1>11, <1>12, <1>13 DEF CountersFit

-----------------------------------------------------------------------------
\* The death of the process: every due ticket is lost, and with it every count.

LEMMA CrashForgets ==
  ASSUME CountersInv, Crash
  PROVE  CountersFit'
<1>1. metrics' = NoMetrics /\ crashes' = crashes + 1 /\ crashes \in Nat
  BY BoundsAssumption DEF Crash, CountersInv, RoundsInv, IInv, TypeOK
<1>2. IsFiniteSet(Started')
  <2>1. Started' = Started
    <3>1. \A t \in Tickets : pc'[t] = "idle" <=> pc[t] = "idle"
      BY DEF Crash, Handling, Deciding, Counting
    <3> QED BY <3>1 DEF Started
  <2> QED BY <2>1 DEF CountersInv
<1>3. HandoffsDue' = {} /\ StepsDue' = {}
  BY DEF Crash, HandoffsDue, StepsDue, Counting, CountersInv, RoundsInv, IInv, TypeOK
<1>4. /\ \A s : Cardinality(TicketsCounted(s)') \in Nat
      /\ \A r : Cardinality(HandoffsCounted(r)') \in Nat
  <2>1. \A S : S \subseteq Started' => Cardinality(S) \in Nat
    BY <1>2, FS_Subset, FS_CardinalityType
  <2>2. /\ \A s : TicketsCounted(s)' \subseteq Started'
        /\ \A r : HandoffsCounted(r)' \subseteq Started'
    BY DEF TicketsCounted, HandoffsCounted, Started
  <2> QED BY <2>1, <2>2
<1>5. NothingCounted
  BY NoMetricsCountNothing
<1>6. Cardinality({}) = 0
  BY FS_EmptySet
<1>7. crashes' # 0
  BY <1>1
<1>8. /\ \A s \in Terminal : Within(metrics.tickets[s], Cardinality(TicketsCounted(s)))'
      /\ \A r \in HandoffReason : Within(metrics.handoffs[r], Cardinality(HandoffsCounted(r)))'
  <2>1. ASSUME NEW m, NEW n \in Nat, m = 0 PROVE m <= n
    BY <2>1
  <2> QED BY <1>1, <1>4, <1>5, <1>7, <2>1 DEF Within, NothingCounted
<1>9. (SumFunction(metrics.handoffs) + Cardinality(HandoffsDue) <= metrics.tickets["handed_off"])'
  <2>1. SumFunction(NoMetrics.handoffs) + Cardinality({}) <= NoMetrics.tickets["handed_off"]
    BY <1>5, <1>6 DEF NothingCounted, Terminal
  <2> QED BY <1>1, <1>3, <2>1
<1>10. (SumFunction(metrics.iterations) + Cardinality(StepsDue) <= SumFunction(metrics.tickets))'
  <2>1. SumFunction(NoMetrics.iterations) + Cardinality({}) <= SumFunction(NoMetrics.tickets)
    BY <1>5, <1>6 DEF NothingCounted
  <2> QED BY <1>1, <1>3, <2>1
<1> QED BY <1>7, <1>8, <1>9, <1>10 DEF CountersFit

-----------------------------------------------------------------------------
\* The steps the counters do not see.

LEMMA OthersUnseen ==
  ASSUME IInv, NEW t \in Tickets, CreateTicket(t) \/ CreateFails(t) \/ Handle(t),
         ~CountTicket(t), ~CountHandoff(t), ~CountSteps(t)
  PROVE  Unseen(t)
<1>1. pc \in [Tickets -> Places] /\ store \in [Tickets -> {NoTicket} \union StoredTicket]
  BY DEF IInv, TypeOK
<1>2. ASSUME NEW from, NEW to, Goto(t, from, to),
             {from, to} \intersect {"count_handoff", "count_steps", "ended"} = {},
             \A u \in Tickets \ {t} : store'[u] = store[u], UNCHANGED <<metrics, crashes>>
      PROVE  Unseen(t)
  BY <1>1, <1>2 DEF Unseen, Goto
<1>3. ASSUME NEW row, store' = [store EXCEPT ![t] = row]
      PROVE  \A u \in Tickets \ {t} : store'[u] = store[u]
  BY <1>1, <1>3
<1>4. CASE CreateTicket(t)
  BY <1>2, <1>3, <1>4 DEF CreateTicket
<1>5. CASE Finalise(t)
  BY <1>2, <1>3, <1>5 DEF Finalise
<1>6. ASSUME NEW from \in Deciding, Raises(t, from) PROVE Unseen(t)
  BY <1>2, <1>6 DEF Raises, Local, Deciding
<1>7. CASE ClassifyRaises(t) \/ DecideRaises(t) \/ RenderRaises(t)
  BY <1>6, <1>7 DEF ClassifyRaises, DecideRaises, RenderRaises, Deciding
<1>8. CASE CreateFails(t) \/ Accept(t) \/ ReadFails(t) \/ FinaliseFails(t)
  BY <1>2, <1>8 DEF CreateFails, Accept, ReadFails, FinaliseFails
<1>9. CASE \/ StartRun(t) \/ Classify(t) \/ ClassifyUnknown(t)
           \/ DecideToolCall(t) \/ DecideReply(t) \/ DecideHandoff(t) \/ IterationCapReached(t)
           \/ ToolReturns(t) \/ ToolFails(t) \/ GroundingPasses(t) \/ GroundingFails(t)
           \/ RecordDecision(t)
  BY <1>2, <1>9
  DEF Local, StartRun, Classify, ClassifyUnknown, DecideToolCall, DecideReply, DecideHandoff,
      IterationCapReached, ToolReturns, ToolFails, GroundingPasses, GroundingFails, RecordDecision
<1> QED BY <1>4, <1>5, <1>7, <1>8, <1>9 DEF Handle

LEMMA HandlingKeepsCounters ==
  ASSUME CountersInv, NEW t \in Tickets, CreateTicket(t) \/ CreateFails(t) \/ Handle(t)
  PROVE  CountersFit'
<1>1. CASE CountTicket(t)
  BY <1>1, CountTicketCounts
<1>2. CASE CountHandoff(t)
  BY <1>2, CountHandoffCounts
<1>3. CASE CountSteps(t)
  BY <1>3, CountStepsCounts
<1>4. CASE ~CountTicket(t) /\ ~CountHandoff(t) /\ ~CountSteps(t)
  BY <1>4, OthersUnseen, UnseenStep DEF CountersInv, RoundsInv
<1> QED BY <1>1, <1>2, <1>3, <1>4

\* Only finitely many tickets have been submitted.
LEMMA FewStarted ==
  ASSUME CountersInv, [Next]_vars
  PROVE  IsFiniteSet(Started')
<1>1. pc \in [Tickets -> Places] /\ IsFiniteSet(Started)
  BY DEF CountersInv, RoundsInv, IInv, TypeOK
<1>2. ASSUME NEW t \in Tickets, CreateTicket(t) \/ CreateFails(t) \/ Handle(t)
      PROVE  IsFiniteSet(Started')
  <2>1. \A u \in Tickets \ {t} : pc'[u] = pc[u]
    BY <1>2, OthersStay DEF Stays, CountersInv, RoundsInv
  <2>2. Started' \subseteq Started \union {t}
    BY <2>1 DEF Started
  <2> QED BY <1>1, <2>2, FS_AddElement, FS_Subset
<1>3. CASE Crash
  BY <1>1, <1>3 DEF Crash, Started, Handling, Deciding, Counting
<1>4. CASE UNCHANGED vars
  BY <1>1, <1>4 DEF vars, Started
<1> QED BY <1>2, <1>3, <1>4 DEF Next

LEMMA CountsStayStored ==
  ASSUME CountersInv, [Next]_vars, NEW u \in Tickets, pc'[u] \in Counting
  PROVE  /\ store'[u].status = run'[u].outcome.status
         /\ store'[u].reason = run'[u].outcome.reason
         /\ store'[u].trace = run'[u].trace
<1>1. pc \in [Tickets -> Places] /\ run \in [Tickets -> Run] /\ IInv
      /\ store \in [Tickets -> {NoTicket} \union StoredTicket]
  BY DEF CountersInv, RoundsInv, IInv, TypeOK
<1>2. CASE pc[u] \in Counting /\ store'[u] = store[u] /\ run'[u] = run[u]
  BY <1>2 DEF CountersInv, CountsWhatIsStored
<1>3. ASSUME NEW t \in Tickets, CreateTicket(t) \/ CreateFails(t) \/ Handle(t)
      PROVE  \/ pc[u] \in Counting /\ store'[u] = store[u] /\ run'[u] = run[u]
             \/ Writes(u)
  <2>1. CASE u # t
    <3>1. Stays(u)
      BY <1>1, <1>3, <2>1, OthersStay
    <3> QED BY <3>1 DEF Stays
  <2>2. CASE u = t
    <3>1. ASSUME NEW from, NEW to, Goto(t, from, to), to \notin Counting PROVE FALSE
      BY <1>1, <2>2, <3>1 DEF Goto
    <3>2. CASE CountTicket(t) \/ CountHandoff(t)
      BY <1>1, <2>2, <3>2 DEF CountTicket, CountHandoff, Goto, Counting
    <3>3. CASE Finalise(t)
      BY <1>1, <2>2, <3>3 DEF Finalise, Goto, Writes
    <3> QED BY <1>3, <3>1, <3>2, <3>3
            DEF Counting, Handle, CreateTicket, CreateFails, Accept, StartRun, ReadFails, Classify,
                ClassifyUnknown, ClassifyRaises, DecideToolCall, DecideReply, DecideHandoff,
                DecideRaises, IterationCapReached, ToolReturns, ToolFails, RenderRaises,
                GroundingPasses, GroundingFails, RecordDecision, FinaliseFails, CountSteps, Raises
  <2> QED BY <2>1, <2>2
<1>4. CASE Writes(u)
  BY <1>4 DEF Writes
<1>5. CASE Crash
  BY <1>1, <1>5 DEF Crash, Counting
<1>6. CASE UNCHANGED vars
  BY <1>2, <1>6 DEF vars
<1> QED BY <1>2, <1>3, <1>4, <1>5, <1>6 DEF Next

LEMMA LostMeansCrash ==
  ASSUME CountersInv, [Next]_vars, NEW u \in Tickets, pc'[u] = "lost"
  PROVE  crashes' > 0
<1>1. pc \in [Tickets -> Places] /\ crashes \in Nat /\ IInv
  BY BoundsAssumption DEF CountersInv, RoundsInv, IInv, TypeOK
<1>2. CASE pc[u] = "lost" /\ crashes' = crashes
  BY <1>2 DEF CountersInv
<1>3. ASSUME NEW t \in Tickets, CreateTicket(t) \/ CreateFails(t) \/ Handle(t)
      PROVE  pc[u] = "lost" /\ crashes' = crashes
  <2>1. ASSUME NEW from, NEW to, Goto(t, from, to), to # "lost" PROVE pc[u] = "lost"
    BY <1>1, <2>1 DEF Goto
  <2>2. crashes' = crashes
    BY <1>1, <1>3, OthersUnseen DEF Unseen, CountTicket, CountHandoff, CountSteps
  <2> QED BY <1>3, <2>1, <2>2
          DEF Handle, CreateTicket, CreateFails, Accept, StartRun, ReadFails, Classify,
              ClassifyUnknown, ClassifyRaises, DecideToolCall, DecideReply, DecideHandoff,
              DecideRaises, IterationCapReached, ToolReturns, ToolFails, RenderRaises,
              GroundingPasses, GroundingFails, RecordDecision, Finalise, FinaliseFails,
              CountTicket, CountHandoff, CountSteps, Raises
<1>4. CASE Crash
  BY <1>1, <1>4 DEF Crash
<1>5. CASE UNCHANGED vars
  BY <1>2, <1>5 DEF vars
<1> QED BY <1>2, <1>3, <1>4, <1>5 DEF Next

LEMMA StutterKeepsCounters ==
  ASSUME CountersInv, UNCHANGED vars PROVE CountersFit'
BY DEF CountersInv, CountersFit, Within, TicketsCounted, HandoffsCounted, HandoffsDue, StepsDue,
       Ended, Results, vars

LEMMA AlwaysCountersInv == Spec => []CountersInv
<1>1. Init => CountersInv
  <2> SUFFICES ASSUME Init PROVE CountersInv
    OBVIOUS
  <2>1. \A t \in Tickets : pc[t] = "idle"
    BY DEF Init
  <2>2. RoundsInv
    BY RoundsInvAtFirst
  <2>3. /\ Started = {} /\ HandoffsDue = {} /\ StepsDue = {} /\ Ended = {}
        /\ \A s : TicketsCounted(s) = {}
        /\ \A r : HandoffsCounted(r) = {}
    BY <2>1 DEF Started, HandoffsDue, StepsDue, Ended, TicketsCounted, HandoffsCounted
  <2>4. Cardinality({}) = 0 /\ IsFiniteSet({})
    BY FS_EmptySet
  <2>5. NothingCounted /\ metrics = NoMetrics
    BY NoMetricsCountNothing DEF Init
  <2>6. \A ok \in BOOLEAN : SumFunctionOnSet(Results(ok), {}) = 0
    BY SumOfNone
  <2>7. /\ SumFunction(metrics.handoffs) + Cardinality(HandoffsDue) <= metrics.tickets["handed_off"]
        /\ SumFunction(metrics.iterations) + Cardinality(StepsDue) <= SumFunction(metrics.tickets)
    BY <2>3, <2>4, <2>5 DEF NothingCounted, Terminal
  <2>8. CountersFit
    BY <2>3, <2>4, <2>5, <2>6, <2>7 DEF CountersFit, Within, NothingCounted
  <2> QED BY <2>1, <2>2, <2>3, <2>4, <2>8 DEF CountersInv, CountsWhatIsStored, Counting
<1>2. CountersInv /\ [Next]_vars => CountersInv'
  <2> SUFFICES ASSUME CountersInv, [Next]_vars PROVE CountersInv'
    OBVIOUS
  <2>1. CountersFit'
    BY HandlingKeepsCounters, CrashForgets, StutterKeepsCounters DEF Next
  <2>2. RoundsInv'
    BY NextKeepsRoundsInv DEF CountersInv
  <2> QED BY <2>1, <2>2, FewStarted, CountsStayStored, LostMeansCrash
          DEF CountersInv, CountsWhatIsStored
<1> QED BY <1>1, <1>2, PTL DEF Spec

\* For every number of tickets and of rounds: no counter runs ahead of the rows in storage.
THEOREM CountersAlwaysStored == Spec => []CountedIsStored
<1>1. CountersInv => CountedIsStored
  <2> SUFFICES ASSUME CountersInv PROVE CountedIsStored
    OBVIOUS
  <2>1. \A t \in Tickets : pc[t] \in Counting \union {"ended"} => store[t] # NoTicket
    BY TicketFacts DEF CountersInv, RoundsInv, RowFits, Counting
  <2>2. \A t \in Tickets : store[t] # NoTicket => t \in Started
    BY TicketFacts DEF CountersInv, RoundsInv, RowFits, Started
  <2>3. ASSUME NEW S \in SUBSET Started, NEW C \in SUBSET S
        PROVE  Cardinality(C) <= Cardinality(S) /\ Cardinality(C) \in Nat /\ Cardinality(S) \in Nat
    BY <2>3, FS_Subset, FS_CardinalityType DEF CountersInv
  <2>4. ASSUME NEW s \in Terminal PROVE metrics.tickets[s] <= Cardinality(StoredAs(s))
    <3>1. TicketsCounted(s) \subseteq StoredAs(s)
      BY DEF TicketsCounted, StoredAs
    <3>2. StoredAs(s) \subseteq Started
      BY <2>2 DEF StoredAs, NoTicket, Terminal
    <3>3. metrics.tickets[s] <= Cardinality(TicketsCounted(s)) /\ metrics.tickets[s] \in Nat
      BY MetricFields DEF CountersInv, CountersFit, Within, RoundsInv
    <3> QED BY <2>3, <3>1, <3>2, <3>3
  <2>5. ASSUME NEW r \in HandoffReason PROVE metrics.handoffs[r] <= Cardinality(StoredFor(r))
    <3>1. HandoffsCounted(r) \subseteq StoredFor(r)
      BY DEF HandoffsCounted, StoredFor
    <3>2. StoredFor(r) \subseteq Started
      BY <2>2, NoneAssumption DEF StoredFor, NoTicket
    <3>3. metrics.handoffs[r] <= Cardinality(HandoffsCounted(r)) /\ metrics.handoffs[r] \in Nat
      BY MetricFields DEF CountersInv, CountersFit, Within, RoundsInv
    <3> QED BY <2>3, <3>1, <3>2, <3>3
  <2>6. /\ metrics.tickets["handed_off"] \in Nat /\ SumFunction(metrics.tickets) \in Nat
        /\ SumFunction(metrics.handoffs) \in Nat /\ SumFunction(metrics.iterations) \in Nat
    BY SumsAreNatural DEF CountersInv, RoundsInv
  <2>7. SumFunction(metrics.handoffs) <= metrics.tickets["handed_off"]
    BY <2>6, Parts DEF CountersInv, CountersFit
  <2>8. SumFunction(metrics.iterations) <= SumFunction(metrics.tickets)
    BY <2>6, Parts DEF CountersInv, CountersFit
  <2> QED BY <2>4, <2>5, <2>7, <2>8 DEF CountedIsStored
<1> QED BY <1>1, AlwaysCountersInv, PTL

\* For every number of tickets: until the first crash the counters are what storage says of
\* the tickets that are past the counter in question.
THEOREM CountersAlwaysMissOnlyTheCounting == Spec => []CountersMissOnlyTheCounting
<1>1. CountersInv => CountersMissOnlyTheCounting
  <2> SUFFICES ASSUME CountersInv, crashes = 0 PROVE CountersMissOnlyTheCounting
    BY DEF CountersMissOnlyTheCounting
  <2> DEFINE Past(places) == { t \in Tickets : IsTerminal(t) /\ pc[t] \notin places }
  <2>1. ASSUME NEW t \in Tickets PROVE IsTerminal(t) <=> pc[t] \in Counting \union {"ended"}
    <3>1. RowFits(pc[t], store[t]) /\ pc[t] \in Places /\ pc[t] # "lost"
      BY <2>1, TicketFacts DEF CountersInv, RoundsInv, IInv, TypeOK
    <3> QED BY <3>1 DEF RowFits, Places, Stranded, IsTerminal, NewTicket, NoTicket, Terminal
  <2>2. Past(Counting) = Ended
    BY <2>1 DEF Ended, Counting
  <2>3. \A s \in Terminal : StoredAs(s) \intersect Past({"count_ticket"}) = TicketsCounted(s)
    BY <2>1 DEF TicketsCounted, StoredAs, Counting
  <2>4. \A r \in HandoffReason :
          StoredFor(r) \intersect Past({"count_ticket", "count_handoff"}) = HandoffsCounted(r)
    BY <2>1 DEF HandoffsCounted, StoredFor, Counting
  <2>5. ASSUME NEW ok \in BOOLEAN
        PROVE  metrics.tools[ok] =
                 SumFunction([t \in Ended |-> Cardinality(ToolResults(store[t].trace, ok))])
    <3> DEFINE f == [t \in Ended |-> Cardinality(ToolResults(store[t].trace, ok))]
    <3>1. DOMAIN f = Ended /\ \A t \in Ended : f[t] = Results(ok)[t]
      BY DEF Results, Ended
    <3> HIDE DEF f
    <3>2. \A t \in Ended : Results(ok)[t] \in Nat
      BY ResultsAreNatural DEF CountersInv, RoundsInv, Ended
    <3>3. SumFunctionOnSet(f, Ended) = SumFunctionOnSet(Results(ok), Ended)
      BY <3>1, <3>2, Parts, SumAgrees DEF CountersInv
    <3>4. SumFunction(f) = SumFunctionOnSet(f, Ended)
      BY <3>1, SumOfDomain
    <3>5. metrics.tools[ok] = SumFunctionOnSet(Results(ok), Ended)
      BY DEF CountersInv, CountersFit
    <3> QED BY <3>3, <3>4, <3>5 DEF f
  <2>6. /\ \A s \in Terminal : metrics.tickets[s] = Cardinality(TicketsCounted(s))
        /\ \A r \in HandoffReason : metrics.handoffs[r] = Cardinality(HandoffsCounted(r))
        /\ SumFunction(metrics.iterations) = Cardinality(Ended)
    BY DEF CountersInv, CountersFit, Within
  <2> QED BY <2>2, <2>3, <2>4, <2>5, <2>6 DEF CountersMissOnlyTheCounting
<1> QED BY <1>1, AlwaysCountersInv, PTL
=============================================================================
