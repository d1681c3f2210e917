--------------------------- MODULE PipelineProofs ---------------------------
(***************************************************************************)
(* Theorems about the pipeline, for every set of tickets and tools, every  *)
(* MAX_ITERATIONS and every number of faults and crashes.                  *)
(***************************************************************************)
EXTENDS PipelineProperties, SequenceTheorems, FiniteSetTheorems, TLAPS

-----------------------------------------------------------------------------
\* The constructors of Domain build steps, and the outcomes of _decide are outcomes.

LEMMA StepTypes ==
  /\ \A i \in Intent : IntentClassified(i) \in TraceStep
  /\ \A n \in Nat \ {0}, tool \in Tools :
       LLMDecision(n, "tool_call", tool) \in TraceStep
  /\ \A n \in Nat \ {0}, d \in {"reply", "handoff"} :
       LLMDecision(n, d, None) \in TraceStep
  /\ \A tool \in Tools : ToolCallStep(tool) \in TraceStep
  /\ \A tool \in Tools, ok \in BOOLEAN : ToolResultStep(tool, ok) \in TraceStep
  /\ \A passed \in BOOLEAN : GroundingCheck(passed) \in TraceStep
<1>1. \A i \in Intent : IntentClassified(i) \in TraceStep
  BY DEF IntentClassified, TraceStep
<1>2. \A n \in Nat \ {0}, tool \in Tools :
        LLMDecision(n, "tool_call", tool) \in TraceStep
  BY DEF LLMDecision, LLMDecisions, TraceStep
<1>3. \A n \in Nat \ {0}, d \in {"reply", "handoff"} :
        LLMDecision(n, d, None) \in TraceStep
  BY DEF LLMDecision, LLMDecisions, TraceStep
<1>4. \A tool \in Tools : ToolCallStep(tool) \in TraceStep
  BY DEF ToolCallStep, TraceStep
<1>5. \A tool \in Tools, ok \in BOOLEAN : ToolResultStep(tool, ok) \in TraceStep
  BY DEF ToolResultStep, TraceStep
<1>6. \A passed \in BOOLEAN : GroundingCheck(passed) \in TraceStep
  BY DEF GroundingCheck, TraceStep
<1> QED BY <1>1, <1>2, <1>3, <1>4, <1>5, <1>6

LEMMA HandedOffType ==
  ASSUME NEW reason \in HandoffReason, NEW detail \in Tools \union {None}
  PROVE  HandedOff(reason, detail) \in Outcome
BY DEF HandedOff, Outcome, TicketStatus, Terminal, StatusReplyAndReasonAgree

LEMMA RepliedType ==
  ASSUME NEW reply \in ReplyTemplate
  PROVE  Replied(reply) \in Outcome
BY DEF Replied, Outcome, TicketStatus, Terminal, StatusReplyAndReasonAgree

LEMMA NoRunType == NoRun \in Run
BY IterationsAssumption DEF NoRun, Run, Outcome, TicketStatus, StatusReplyAndReasonAgree

LEMMA FinalDecisionType ==
  ASSUME NEW o \in Outcome, o.status \in Terminal
  PROVE  FinalDecision(o.status, o.reason, o.detail) \in TraceStep
BY NoneAssumption DEF FinalDecision, FinalDecisions, TraceStep, Outcome, Terminal, TicketStatus,
     StatusReplyAndReasonAgree, OutcomeAndReasonAgree

-----------------------------------------------------------------------------
\* Appending to a trace.

LEMMA AppendUndecided ==
  ASSUME NEW tr \in Seq(TraceStep), NEW step \in TraceStep,
         Undecided(tr), step.type # "final_decision"
  PROVE  Append(tr, step) \in Seq(TraceStep) /\ Undecided(Append(tr, step))
BY DEF Undecided

LEMMA AppendDecision ==
  ASSUME NEW tr \in Seq(TraceStep), Undecided(tr), NEW o, NEW r, NEW d
  PROVE  EndsWithItsDecision(Append(tr, FinalDecision(o, r, d)), o, r)
<1> DEFINE step == FinalDecision(o, r, d)
           new == Append(tr, step)
<1>1. step.type = "final_decision" /\ step.outcome = o /\ step.reason = r
  BY DEF FinalDecision
<1>2. Len(new) = Len(tr) + 1 /\ new[Len(tr) + 1] = step /\ Len(tr) \in Nat
  OBVIOUS
<1>3. \A n \in 1 .. Len(tr) : new[n] = tr[n]
  OBVIOUS
<1>4. new # <<>>
  BY <1>2
<1> QED BY <1>1, <1>2, <1>3, <1>4 DEF EndsWithItsDecision, Undecided, Last

-----------------------------------------------------------------------------
\* A step of a run that changes its place and its locals, and nothing else.

LEMMA LocalStep ==
  ASSUME IInv, NEW t \in Tickets, NEW from, NEW to, NEW r \in Run,
         from \in {"scheduled", "final"} \union Deciding,
         to \in Deciding \union {"final", "write"},
         Goto(t, from, to), RunFits(to, r),
         run' = [run EXCEPT ![t] = r], Local
  PROVE  IInv'
<1>1. TypeOK'
  BY DEF IInv, TypeOK, Goto, Local, Places, Handling, Deciding
<1>2. ASSUME NEW u \in Tickets
      PROVE  /\ RunFits(pc[u], run[u])'
             /\ RowFits(pc[u], store[u])'
             /\ AcceptanceFits(pc[u], u \in accepted)'
  <2>1. RunFits(pc[u], run[u]) /\ RowFits(pc[u], store[u])
           /\ AcceptanceFits(pc[u], u \in accepted)
    BY <1>2 DEF IInv, PlacesFit
  <2>2. store' = store /\ accepted' = accepted
    BY DEF Local
  <2>3. CASE u # t
    <3>1. pc'[u] = pc[u] /\ run'[u] = run[u]
      BY <1>2, <2>3 DEF IInv, TypeOK, Goto
    <3> QED BY <2>1, <2>2, <3>1
  <2>4. CASE u = t
    <3>1. pc'[t] = to /\ run'[t] = r /\ pc[t] = from
      BY DEF IInv, TypeOK, Goto
    <3>2. RowFits(to, store[t])
      BY <2>1, <2>4, <3>1 DEF RowFits, Handling, Deciding, Counting, NewTicket, NoTicket
    <3>3. AcceptanceFits(to, t \in accepted)
      BY <2>1, <2>4, <3>1 DEF AcceptanceFits, Handling, Deciding
    <3> QED BY <2>2, <2>4, <3>1, <3>2, <3>3
  <2> QED BY <2>3, <2>4
<1> QED BY <1>1, <1>2 DEF IInv, PlacesFit

\* What the invariant says of the run that is about to take a step.
LEMMA RunFacts ==
  ASSUME IInv, NEW t \in Tickets
  PROVE  /\ run[t] \in Run
         /\ run[t].trace \in Seq(TraceStep)
         /\ RunFits(pc[t], run[t])
         /\ pc[t] \in Deciding \union {"final"} => Undecided(run[t].trace)
BY DEF IInv, TypeOK, PlacesFit, Run, RunFits

-----------------------------------------------------------------------------
\* The local actions, one lemma each.

LEMMA StartRunKeepsIInv ==
  ASSUME IInv, NEW t \in Tickets, StartRun(t) PROVE IInv'
<1>1. RunFits("classify", NoRun)
  BY DEF RunFits, NoRun, Undecided, Deciding, Counting
<1> QED BY <1>1, NoRunType, LocalStep DEF StartRun, Deciding

LEMMA ClassifyKeepsIInv ==
  ASSUME IInv, NEW t \in Tickets, Classify(t) PROVE IInv'
<1>1. PICK intent \in Intents \ {"unknown"} :
        /\ Goto(t, "classify", "decide")
        /\ run' = [run EXCEPT ![t].trace = Recorded(t, IntentClassified(intent)),
                              ![t].iteration = 1]
        /\ Local
  BY DEF Classify
<1> DEFINE r == [run[t] EXCEPT !.trace = Recorded(t, IntentClassified(intent)),
                               !.iteration = 1]
<1>2. IntentClassified(intent) \in TraceStep
  BY StepTypes, ModelAssumption
<1>3. Recorded(t, IntentClassified(intent)) \in Seq(TraceStep)
        /\ Undecided(Recorded(t, IntentClassified(intent)))
  BY <1>1, <1>2, RunFacts, AppendUndecided DEF Recorded, IntentClassified, Goto, Deciding
<1>4. r \in Run
  <2>1. run[t] \in Run
    BY RunFacts
  <2>2. 1 \in 0 .. MaxIterations + 1
    BY IterationsAssumption
  <2> QED BY <1>3, <2>1, <2>2 DEF Run
<1>5. RunFits("decide", r)
  BY <1>3, RunFacts, IterationsAssumption DEF RunFits, Run, Deciding, Counting
<1>6. run' = [run EXCEPT ![t] = r]
  BY <1>1
<1> HIDE DEF r
<1> QED BY <1>1, <1>4, <1>5, <1>6, LocalStep DEF Deciding

\* One more step on the trace of a run that has not concluded.
LEMMA Records ==
  ASSUME IInv, NEW t \in Tickets, pc[t] \in Deciding,
         NEW step \in TraceStep, step.type # "final_decision"
  PROVE  Recorded(t, step) \in Seq(TraceStep) /\ Undecided(Recorded(t, step))
BY RunFacts, AppendUndecided DEF Recorded

\* The ways out of _decide: a last step and an outcome, or an outcome alone.
LEMMA ConcludesWith ==
  ASSUME IInv, NEW t \in Tickets, NEW from \in Deciding,
         NEW tr \in Seq(TraceStep), Undecided(tr),
         NEW o \in Outcome, o.status \in Terminal, Goto(t, from, "final"),
         run' = [run EXCEPT ![t].trace = tr, ![t].outcome = o], Local
  PROVE  IInv'
<1> DEFINE r == [run[t] EXCEPT !.trace = tr, !.outcome = o]
<1>1. run[t] \in Run
  BY RunFacts
<1>2. r \in Run /\ r.trace = tr /\ r.outcome = o
  BY <1>1 DEF Run
<1>3. RunFits("final", r)
  BY <1>2 DEF RunFits, Deciding
<1>4. run' = [run EXCEPT ![t] = r]
  OBVIOUS
<1> HIDE DEF r
<1> QED BY <1>2, <1>3, <1>4, LocalStep

LEMMA ConcludesSilently ==
  ASSUME IInv, NEW t \in Tickets, NEW from \in Deciding,
         NEW o \in Outcome, o.status \in Terminal, Goto(t, from, "final"),
         run' = [run EXCEPT ![t].outcome = o], Local
  PROVE  IInv'
<1> DEFINE r == [run[t] EXCEPT !.outcome = o]
<1>1. run[t] \in Run /\ Undecided(run[t].trace)
  BY RunFacts DEF Goto
<1>2. r \in Run /\ r.trace = run[t].trace /\ r.outcome = o
  BY <1>1 DEF Run
<1>3. RunFits("final", r)
  BY <1>1, <1>2 DEF RunFits, Deciding
<1>4. run' = [run EXCEPT ![t] = r]
  OBVIOUS
<1> HIDE DEF r
<1> QED BY <1>2, <1>3, <1>4, LocalStep

LEMMA HandsOff ==
  ASSUME NEW reason \in HandoffReason, NEW detail \in Tools \union {None}
  PROVE  HandedOff(reason, detail) \in Outcome /\ HandedOff(reason, detail).status \in Terminal
BY HandedOffType DEF HandedOff, Terminal

LEMMA RaisesKeepsIInv ==
  ASSUME IInv, NEW t \in Tickets, NEW from \in Deciding, Raises(t, from) PROVE IInv'
<1>1. "TOOL_ERROR" \in HandoffReason
  BY DEF HandoffReason
<1> QED BY <1>1, HandsOff, ConcludesSilently DEF Raises

LEMMA IterationCapReachedKeepsIInv ==
  ASSUME IInv, NEW t \in Tickets, IterationCapReached(t) PROVE IInv'
<1>1. "ITERATION_CAP_EXCEEDED" \in HandoffReason
  BY DEF HandoffReason
<1> QED BY <1>1, HandsOff, ConcludesSilently DEF IterationCapReached, Deciding

LEMMA ClassifyUnknownKeepsIInv ==
  ASSUME IInv, NEW t \in Tickets, ClassifyUnknown(t) PROVE IInv'
<1> DEFINE step == IntentClassified("unknown")
<1>1. step \in TraceStep /\ step.type # "final_decision"
  BY StepTypes DEF IntentClassified, Intent
<1>2. Recorded(t, step) \in Seq(TraceStep) /\ Undecided(Recorded(t, step))
  BY <1>1, Records DEF ClassifyUnknown, Goto, Deciding
<1>3. "UNSUPPORTED_INTENT" \in HandoffReason
  BY DEF HandoffReason
<1> QED BY <1>2, <1>3, HandsOff, ConcludesWith DEF ClassifyUnknown, Deciding

LEMMA DecideHandoffKeepsIInv ==
  ASSUME IInv, NEW t \in Tickets, DecideHandoff(t) PROVE IInv'
<1> DEFINE step == LLMDecision(run[t].iteration, "handoff", None)
<1>1. PICK reason \in Reasons :
        /\ Goto(t, "decide", "final")
        /\ run[t].iteration <= MaxIterations
        /\ run' = [run EXCEPT ![t].trace = Recorded(t, step),
                              ![t].outcome = HandedOff(reason, None)]
        /\ Local
  BY DEF DecideHandoff
<1>2. run[t].iteration \in Nat \ {0}
  BY <1>1, RunFacts, IterationsAssumption DEF RunFits, Goto
<1>3. step \in TraceStep /\ step.type # "final_decision"
  BY <1>2, StepTypes DEF LLMDecision
<1>4. Recorded(t, step) \in Seq(TraceStep) /\ Undecided(Recorded(t, step))
  BY <1>1, <1>3, Records DEF Goto, Deciding
<1>5. reason \in HandoffReason
  BY ModelAssumption
<1> HIDE DEF step
<1> QED BY <1>1, <1>4, <1>5, HandsOff, ConcludesWith DEF Deciding

LEMMA DecideToolCallKeepsIInv ==
  ASSUME IInv, NEW t \in Tickets, DecideToolCall(t) PROVE IInv'
<1>1. PICK tool \in Tools :
        /\ Goto(t, "decide", "tool")
        /\ run[t].iteration <= MaxIterations
        /\ run' = [run EXCEPT
             ![t].trace = Append(Recorded(t, LLMDecision(run[t].iteration, "tool_call", tool)),
                                 ToolCallStep(tool)),
             ![t].inFlight = tool]
        /\ Local
  BY DEF DecideToolCall
<1> DEFINE decision == LLMDecision(run[t].iteration, "tool_call", tool)
           tr == Append(Recorded(t, decision), ToolCallStep(tool))
           r == [run[t] EXCEPT !.trace = tr, !.inFlight = tool]
<1>2. run[t] \in Run /\ run[t].iteration \in 1 .. MaxIterations
  BY <1>1, RunFacts, IterationsAssumption DEF RunFits, Goto
<1>3. decision \in TraceStep /\ decision.type # "final_decision"
  BY <1>2, StepTypes, IterationsAssumption DEF LLMDecision
<1>4. Recorded(t, decision) \in Seq(TraceStep) /\ Undecided(Recorded(t, decision))
  BY <1>1, <1>3, Records DEF Goto, Deciding
<1>5. ToolCallStep(tool) \in TraceStep /\ ToolCallStep(tool).type # "final_decision"
  BY StepTypes DEF ToolCallStep
<1>6. tr \in Seq(TraceStep) /\ Undecided(tr)
  BY <1>4, <1>5, AppendUndecided
<1>7. run' = [run EXCEPT ![t] = r]
  BY <1>1
<1> HIDE DEF tr
<1>8. /\ r \in Run /\ r.trace = tr /\ r.inFlight = tool
      /\ r.iteration = run[t].iteration
  BY <1>2, <1>6 DEF Run
<1>9. RunFits("tool", r)
  BY <1>2, <1>6, <1>8 DEF RunFits, Deciding, Counting
<1> HIDE DEF r
<1> QED BY <1>1, <1>7, <1>8, <1>9, LocalStep DEF Deciding

LEMMA DecideReplyKeepsIInv ==
  ASSUME IInv, NEW t \in Tickets, DecideReply(t) PROVE IInv'
<1> DEFINE step == LLMDecision(run[t].iteration, "reply", None)
<1>1. PICK template \in Templates :
        /\ Goto(t, "decide", "ground")
        /\ run[t].iteration <= MaxIterations
        /\ run' = [run EXCEPT ![t].trace = Recorded(t, step), ![t].draft = template]
        /\ Local
  BY DEF DecideReply
<1> DEFINE r == [run[t] EXCEPT !.trace = Recorded(t, step), !.draft = template]
<1>2. run[t] \in Run /\ run[t].iteration \in Nat \ {0}
  BY <1>1, RunFacts, IterationsAssumption DEF RunFits, Goto
<1>3. step \in TraceStep /\ step.type # "final_decision"
  BY <1>2, StepTypes DEF LLMDecision
<1>4. Recorded(t, step) \in Seq(TraceStep) /\ Undecided(Recorded(t, step))
  BY <1>1, <1>3, Records DEF Goto, Deciding
<1>5. template \in ReplyTemplate
  BY ModelAssumption
<1>6. run' = [run EXCEPT ![t] = r]
  BY <1>1
<1> HIDE DEF step
<1>7. r \in Run /\ r.trace = Recorded(t, step) /\ r.draft = template
  BY <1>2, <1>4, <1>5 DEF Run
<1>8. RunFits("ground", r)
  BY <1>4, <1>5, <1>7 DEF RunFits, Deciding, Counting
<1> HIDE DEF r
<1> QED BY <1>1, <1>6, <1>7, <1>8, LocalStep DEF Deciding

LEMMA ToolReturnsKeepsIInv ==
  ASSUME IInv, NEW t \in Tickets, ToolReturns(t) PROVE IInv'
<1> DEFINE tool == run[t].inFlight
           step == ToolResultStep(tool, TRUE)
           r == [run[t] EXCEPT !.trace = Recorded(t, step), !.history = @ \union {tool},
                               !.inFlight = None, !.iteration = @ + 1]
<1>1. /\ Goto(t, "tool", "decide")
      /\ run' = [run EXCEPT ![t] = r]
      /\ Local
  BY DEF ToolReturns
<1>2. run[t] \in Run /\ run[t].iteration \in 1 .. MaxIterations /\ tool \in Tools
  BY <1>1, RunFacts DEF RunFits, Goto
<1>3. step \in TraceStep /\ step.type # "final_decision"
  BY <1>2, StepTypes DEF ToolResultStep
<1>4. Recorded(t, step) \in Seq(TraceStep) /\ Undecided(Recorded(t, step))
  BY <1>1, <1>3, Records DEF Goto, Deciding
<1> HIDE DEF step
<1>5. /\ r \in Run /\ r.trace = Recorded(t, step)
      /\ r.iteration = run[t].iteration + 1
  <2>1. run[t].iteration + 1 \in 0 .. MaxIterations + 1
    BY <1>2, IterationsAssumption
  <2>2. run[t].history \union {tool} \in SUBSET Tools
    BY <1>2 DEF Run
  <2> QED BY <1>2, <1>4, <2>1, <2>2 DEF Run
<1>6. RunFits("decide", r)
  BY <1>2, <1>4, <1>5, IterationsAssumption DEF RunFits, Deciding, Counting
<1> HIDE DEF r
<1> QED BY <1>1, <1>5, <1>6, LocalStep DEF Deciding

LEMMA ToolFailsKeepsIInv ==
  ASSUME IInv, NEW t \in Tickets, ToolFails(t) PROVE IInv'
<1> DEFINE tool == run[t].inFlight
           step == ToolResultStep(tool, FALSE)
<1>1. PICK reason \in Failures(tool) :
        /\ Goto(t, "tool", "final")
        /\ run' = [run EXCEPT
             ![t].trace = Recorded(t, step),
             ![t].outcome = HandedOff(reason, IF reason = "TOOL_ERROR" THEN None ELSE tool)]
        /\ Local
  BY DEF ToolFails
<1> DEFINE detail == IF reason = "TOOL_ERROR" THEN None ELSE tool
<1>2. tool \in Tools
  BY <1>1, RunFacts DEF RunFits, Goto
<1>3. step \in TraceStep /\ step.type # "final_decision"
  BY <1>2, StepTypes DEF ToolResultStep
<1>4. Recorded(t, step) \in Seq(TraceStep) /\ Undecided(Recorded(t, step))
  BY <1>1, <1>3, Records DEF Goto, Deciding
<1>5. reason \in HandoffReason /\ detail \in Tools \union {None}
  BY <1>2 DEF Failures, HandoffReason
<1>6. HandedOff(reason, detail) \in Outcome /\ HandedOff(reason, detail).status \in Terminal
  BY <1>5, HandsOff
<1> HIDE DEF step
<1> QED BY <1>1, <1>4, <1>6, ConcludesWith DEF Deciding

LEMMA GroundingPassesKeepsIInv ==
  ASSUME IInv, NEW t \in Tickets, GroundingPasses(t) PROVE IInv'
<1> DEFINE step == GroundingCheck(TRUE)
<1>1. step \in TraceStep /\ step.type # "final_decision"
  BY StepTypes DEF GroundingCheck
<1>2. Recorded(t, step) \in Seq(TraceStep) /\ Undecided(Recorded(t, step))
  BY <1>1, Records DEF GroundingPasses, Goto, Deciding
<1>3. run[t].draft \in ReplyTemplate
  BY RunFacts DEF GroundingPasses, Goto, RunFits
<1>4. Replied(run[t].draft) \in Outcome /\ Replied(run[t].draft).status \in Terminal
  BY <1>3, RepliedType DEF Replied, Terminal
<1> QED BY <1>2, <1>4, ConcludesWith DEF GroundingPasses, Deciding

LEMMA GroundingFailsKeepsIInv ==
  ASSUME IInv, NEW t \in Tickets, GroundingFails(t) PROVE IInv'
<1> DEFINE step == GroundingCheck(FALSE)
<1>1. step \in TraceStep /\ step.type # "final_decision"
  BY StepTypes DEF GroundingCheck
<1>2. Recorded(t, step) \in Seq(TraceStep) /\ Undecided(Recorded(t, step))
  BY <1>1, Records DEF GroundingFails, Goto, Deciding
<1>3. "UNGROUNDED_REPLY" \in HandoffReason
  BY DEF HandoffReason
<1> QED BY <1>2, <1>3, HandsOff, ConcludesWith DEF GroundingFails, Deciding

LEMMA RecordDecisionKeepsIInv ==
  ASSUME IInv, NEW t \in Tickets, RecordDecision(t) PROVE IInv'
<1> DEFINE o == run[t].outcome
           step == FinalDecision(o.status, o.reason, o.detail)
           r == [run[t] EXCEPT !.trace = Recorded(t, step)]
<1>1. Goto(t, "final", "write") /\ run' = [run EXCEPT ![t] = r] /\ Local
  BY DEF RecordDecision
<1>2. /\ run[t] \in Run /\ o \in Outcome /\ o.status \in Terminal
      /\ run[t].trace \in Seq(TraceStep) /\ Undecided(run[t].trace)
  BY <1>1, RunFacts DEF RunFits, Goto, Run
<1>3. step \in TraceStep
  BY <1>2, FinalDecisionType
<1>4. Recorded(t, step) \in Seq(TraceStep)
  BY <1>2, <1>3 DEF Recorded
<1>5. EndsWithItsDecision(Recorded(t, step), o.status, o.reason)
  BY <1>2, AppendDecision DEF Recorded
<1> HIDE DEF step
<1>6. r \in Run /\ r.trace = Recorded(t, step) /\ r.outcome = o
  BY <1>2, <1>4 DEF Run
<1>7. RunFits("write", r)
  BY <1>2, <1>5, <1>6 DEF RunFits, Deciding, Counting
<1> HIDE DEF r
<1> QED BY <1>1, <1>6, <1>7, LocalStep

-----------------------------------------------------------------------------
\* The actions on what is shared: the repository, the acceptances, the counters.

LEMMA TicketStep ==
  ASSUME IInv, TypeOK', NEW t \in Tickets,
         \A u \in Tickets \ {t} :
           /\ pc'[u] = pc[u] /\ run'[u] = run[u] /\ store'[u] = store[u]
           /\ u \in accepted' <=> u \in accepted,
         RunFits(pc'[t], run'[t]), RowFits(pc'[t], store'[t]),
         AcceptanceFits(pc'[t], t \in accepted')
  PROVE  IInv'
<1>1. ASSUME NEW u \in Tickets
      PROVE  /\ RunFits(pc[u], run[u])'
             /\ RowFits(pc[u], store[u])'
             /\ AcceptanceFits(pc[u], u \in accepted)'
  <2>1. CASE u = t
    BY <2>1
  <2>2. CASE u # t
    <3>1. /\ pc'[u] = pc[u] /\ run'[u] = run[u] /\ store'[u] = store[u]
          /\ u \in accepted' <=> u \in accepted
      BY <1>1, <2>2
    <3>2. RunFits(pc[u], run[u]) /\ RowFits(pc[u], store[u])
             /\ AcceptanceFits(pc[u], u \in accepted)
      BY <1>1 DEF IInv, PlacesFit
    <3>3. AcceptanceFits(pc'[u], u \in accepted')
      BY <3>1, <3>2 DEF AcceptanceFits
    <3> QED BY <3>1, <3>2, <3>3
  <2> QED BY <2>1, <2>2
<1> QED BY <1>1 DEF IInv, PlacesFit

\* What the invariant says of one ticket.
LEMMA TicketFacts ==
  ASSUME IInv, NEW t \in Tickets
  PROVE  /\ RunFits(pc[t], run[t])
         /\ RowFits(pc[t], store[t])
         /\ AcceptanceFits(pc[t], t \in accepted)
BY DEF IInv, PlacesFit

LEMMA NewTicketType == NewTicket \in StoredTicket /\ NewTicket # NoTicket
<1>1. NewTicket = [status |-> "processing", reply |-> None, reason |-> None, trace |-> <<>>]
  BY DEF NewTicket, NoTicket
<1>2. <<>> \in Seq(TraceStep)
  OBVIOUS
<1>3. NewTicket \in StoredTicket
  BY <1>1, <1>2 DEF StoredTicket, TicketStatus, StatusReplyAndReasonAgree
<1>4. NewTicket.status # NoTicket.status
  BY <1>1 DEF NoTicket
<1> QED BY <1>3, <1>4

\* A row that ends with its decision is neither missing nor new.
LEMMA TerminalRow ==
  ASSUME NEW row, row.status \in Terminal
  PROVE  row # NoTicket /\ row # NewTicket
BY DEF NoTicket, NewTicket, Terminal

LEMMA CreateTicketKeepsIInv ==
  ASSUME IInv, NEW t \in Tickets, CreateTicket(t) PROVE IInv'
<1> USE DEF CreateTicket, Goto
<1>1. TypeOK'
  BY NewTicketType DEF IInv, TypeOK, Places, Handling
<1>2. pc'[t] = "created" /\ run'[t] = run[t] /\ store'[t] = NewTicket /\ t \notin accepted'
  BY TicketFacts DEF IInv, TypeOK, AcceptanceFits
<1>3. RunFits(pc'[t], run'[t])
  BY <1>2 DEF RunFits, Deciding, Counting
<1>4. RowFits(pc'[t], store'[t])
  BY <1>2, NewTicketType DEF RowFits, Counting, NewTicket, NoTicket, Terminal
<1>5. AcceptanceFits(pc'[t], t \in accepted')
  BY <1>2 DEF AcceptanceFits
<1> QED BY <1>1, <1>3, <1>4, <1>5, TicketStep DEF IInv, TypeOK

LEMMA CreateFailsKeepsIInv ==
  ASSUME IInv, NEW t \in Tickets, CreateFails(t) PROVE IInv'
<1> USE DEF CreateFails, Goto
<1>1. TypeOK'
  BY BoundsAssumption DEF IInv, TypeOK, Places
<1>2. /\ pc[t] = "idle" /\ pc'[t] = "refused" /\ run'[t] = run[t] /\ store'[t] = store[t]
      /\ accepted' = accepted
  BY DEF IInv, TypeOK
<1>3. RunFits(pc'[t], run'[t])
  BY <1>2 DEF RunFits, Deciding, Counting
<1>4. RowFits(pc'[t], store'[t])
  BY <1>2, TicketFacts DEF RowFits, Counting, Handling, Deciding
<1>5. AcceptanceFits(pc'[t], t \in accepted')
  BY <1>2, TicketFacts DEF AcceptanceFits, Handling, Deciding
<1> QED BY <1>1, <1>3, <1>4, <1>5, TicketStep DEF IInv, TypeOK

LEMMA AcceptKeepsIInv ==
  ASSUME IInv, NEW t \in Tickets, Accept(t) PROVE IInv'
<1> USE DEF Accept, Goto
<1>1. TypeOK'
  BY DEF IInv, TypeOK, Places, Handling
<1>2. /\ pc[t] = "created" /\ pc'[t] = "scheduled" /\ run'[t] = run[t]
      /\ store'[t] = store[t] /\ t \in accepted'
  BY DEF IInv, TypeOK
<1>3. RunFits(pc'[t], run'[t])
  BY <1>2 DEF RunFits, Deciding, Counting
<1>4. RowFits(pc'[t], store'[t])
  BY <1>2, TicketFacts DEF RowFits, Counting, Handling, Deciding
<1>5. AcceptanceFits(pc'[t], t \in accepted')
  BY <1>2 DEF AcceptanceFits
<1> QED BY <1>1, <1>3, <1>4, <1>5, TicketStep DEF IInv, TypeOK

LEMMA ReadFailsKeepsIInv ==
  ASSUME IInv, NEW t \in Tickets, ReadFails(t) PROVE IInv'
<1> USE DEF ReadFails, Goto
<1>1. TypeOK'
  BY BoundsAssumption DEF IInv, TypeOK, Places, Stranded
<1>2. /\ pc[t] = "scheduled" /\ pc'[t] = "read_failed" /\ run'[t] = run[t]
      /\ store'[t] = store[t] /\ accepted' = accepted
  BY DEF IInv, TypeOK
<1>3. RunFits(pc'[t], run'[t])
  BY <1>2 DEF RunFits, Deciding, Counting
<1>4. RowFits(pc'[t], store'[t])
  BY <1>2, TicketFacts DEF RowFits, Counting, Handling, Deciding
<1>5. AcceptanceFits(pc'[t], t \in accepted')
  BY <1>2, TicketFacts DEF AcceptanceFits, Handling, Deciding
<1> QED BY <1>1, <1>3, <1>4, <1>5, TicketStep DEF IInv, TypeOK

LEMMA FinaliseKeepsIInv ==
  ASSUME IInv, NEW t \in Tickets, Finalise(t) PROVE IInv'
<1> DEFINE o == run[t].outcome
           row == [status |-> o.status, reply |-> o.reply, reason |-> o.reason,
                   trace |-> run[t].trace]
<1>1. /\ pc[t] = "write" /\ pc' = [pc EXCEPT ![t] = "count_ticket"]
      /\ store' = [store EXCEPT ![t] = row]
      /\ UNCHANGED <<faults, accepted, run, metrics, crashes>>
  BY DEF Finalise, Goto
<1>2. /\ o \in Outcome /\ run[t].trace \in Seq(TraceStep) /\ o.status \in Terminal
      /\ EndsWithItsDecision(run[t].trace, o.status, o.reason)
  BY <1>1, RunFacts DEF RunFits, Run
<1>3. row \in StoredTicket
  BY <1>2 DEF StoredTicket, Outcome
<1>4. /\ row.status = o.status /\ row.reason = o.reason /\ row.trace = run[t].trace
  OBVIOUS
<1>5. RowFits("count_ticket", row)
  BY <1>2, <1>4, TerminalRow DEF RowFits, Counting, Handling, Deciding
<1> HIDE DEF row
<1>6. TypeOK'
  BY <1>1, <1>3 DEF IInv, TypeOK, Places, Counting
<1>7. pc'[t] = "count_ticket" /\ run'[t] = run[t] /\ store'[t] = row /\ accepted' = accepted
  BY <1>1 DEF IInv, TypeOK
<1>8. RunFits(pc'[t], run'[t])
  BY <1>2, <1>7 DEF RunFits, Deciding
<1>9. AcceptanceFits(pc'[t], t \in accepted')
  BY <1>7 DEF AcceptanceFits, Handling, Deciding
<1> QED BY <1>1, <1>5, <1>6, <1>7, <1>8, <1>9, TicketStep DEF IInv, TypeOK

LEMMA FinaliseFailsKeepsIInv ==
  ASSUME IInv, NEW t \in Tickets, FinaliseFails(t) PROVE IInv'
<1> USE DEF FinaliseFails, Goto
<1>1. TypeOK'
  BY BoundsAssumption, NoRunType DEF IInv, TypeOK, Places, Stranded
<1>2. /\ pc[t] = "write" /\ pc'[t] = "write_failed" /\ store'[t] = store[t]
      /\ accepted' = accepted
  BY DEF IInv, TypeOK
<1>3. RunFits(pc'[t], run'[t])
  BY <1>2 DEF RunFits, Deciding, Counting
<1>4. RowFits(pc'[t], store'[t])
  BY <1>2, TicketFacts DEF RowFits, Counting, Handling, Deciding
<1>5. AcceptanceFits(pc'[t], t \in accepted')
  BY <1>2, TicketFacts DEF AcceptanceFits, Handling, Deciding
<1> QED BY <1>1, <1>3, <1>4, <1>5, TicketStep DEF IInv, TypeOK

-----------------------------------------------------------------------------
\* record_run and the death of the process.

LEMMA PositionsAreFinite ==
  ASSUME NEW tr \in Seq(TraceStep), NEW S \in SUBSET (1 .. Len(tr))
  PROVE  Cardinality(S) \in Nat
<1>1. Len(tr) \in Nat
  OBVIOUS
<1>2. IsFiniteSet(1 .. Len(tr))
  BY <1>1, FS_Interval
<1> QED BY <1>2, FS_Subset, FS_CardinalityType

\* A step of record_run moves the handling on and leaves the ticket as it is stored.
LEMMA CountingStep ==
  ASSUME IInv, NEW t \in Tickets, NEW from \in Counting,
         NEW to \in Counting \union {"ended"}, Goto(t, from, to),
         metrics' \in MetricRegistry,
         \/ run' = run
         \/ to = "ended" /\ run' = [run EXCEPT ![t] = NoRun],
         UNCHANGED <<store, faults, accepted, crashes>>
  PROVE  IInv'
<1>1. TypeOK'
  BY NoRunType DEF Goto, IInv, TypeOK, Places, Counting
<1>2. pc[t] = from /\ pc'[t] = to /\ store'[t] = store[t] /\ accepted' = accepted
  BY DEF Goto, IInv, TypeOK
<1>3. RunFits(pc'[t], run'[t])
  <2>1. CASE run' = run
    BY <1>2, <2>1, TicketFacts DEF RunFits, Deciding, Counting
  <2>2. CASE to = "ended"
    BY <1>2, <2>2 DEF RunFits, Deciding, Counting
  <2> QED BY <2>1, <2>2
<1>4. RowFits(pc'[t], store'[t])
  BY <1>2, TicketFacts DEF RowFits, Counting, Handling, Deciding
<1>5. AcceptanceFits(pc'[t], t \in accepted')
  BY <1>2, TicketFacts DEF AcceptanceFits, Handling, Deciding, Counting
<1> QED BY <1>1, <1>3, <1>4, <1>5, TicketStep DEF Goto, IInv, TypeOK

LEMMA IncrementType ==
  ASSUME NEW S, NEW f \in [S -> Nat], NEW k
  PROVE  [f EXCEPT ![k] = @ + 1] \in [S -> Nat]
<1> DEFINE g == [f EXCEPT ![k] = @ + 1]
<1>1. \A x \in S : g[x] = IF x = k THEN f[x] + 1 ELSE f[x]
  OBVIOUS
<1>2. g = [x \in S |-> g[x]]
  OBVIOUS
<1>3. \A x \in S : f[x] \in Nat
  OBVIOUS
<1> HIDE DEF g
<1>4. \A x \in S : g[x] \in Nat
  BY <1>1, <1>3
<1> QED BY <1>2, <1>4 DEF g

LEMMA MetricFields ==
  ASSUME IInv
  PROVE  /\ metrics \in MetricRegistry
         /\ metrics.tickets \in [Terminal -> Nat]
         /\ metrics.handoffs \in [HandoffReason -> Nat]
         /\ metrics.iterations \in [0 .. MaxIterations -> Nat]
         /\ metrics.tools \in [BOOLEAN -> Nat]
         /\ metrics.ungrounded \in Nat
BY DEF IInv, TypeOK, MetricRegistry

LEMMA CountTicketKeepsIInv ==
  ASSUME IInv, NEW t \in Tickets, CountTicket(t) PROVE IInv'
<1> DEFINE new == [metrics.tickets EXCEPT ![run[t].outcome.status] = @ + 1]
<1>1. new \in [Terminal -> Nat]
  BY MetricFields, IncrementType
<1>2. metrics' = [metrics EXCEPT !.tickets = new]
  BY DEF CountTicket
<1> HIDE DEF new
<1>3. metrics' \in MetricRegistry
  BY <1>1, <1>2, MetricFields DEF MetricRegistry
<1> QED BY <1>3, CountingStep DEF CountTicket, Counting

LEMMA CountHandoffKeepsIInv ==
  ASSUME IInv, NEW t \in Tickets, CountHandoff(t) PROVE IInv'
<1> DEFINE new == [metrics.handoffs EXCEPT ![run[t].outcome.reason] = @ + 1]
<1>1. new \in [HandoffReason -> Nat]
  BY MetricFields, IncrementType
<1>2. metrics' = metrics \/ metrics' = [metrics EXCEPT !.handoffs = new]
  BY DEF CountHandoff
<1> HIDE DEF new
<1>3. metrics' \in MetricRegistry
  BY <1>1, <1>2, MetricFields DEF MetricRegistry
<1> QED BY <1>3, CountingStep DEF CountHandoff, Counting

LEMMA CountStepsKeepsIInv ==
  ASSUME IInv, NEW t \in Tickets, CountSteps(t) PROVE IInv'
<1> DEFINE tr == run[t].trace
           decisions == Cardinality(Positions(tr, "llm_decision"))
           results == [ok \in BOOLEAN |-> Cardinality(ToolResults(tr, ok))]
           checks == Cardinality(FailedChecks(tr))
<1>1. tr \in Seq(TraceStep)
  BY RunFacts
<1>2. \A ok \in BOOLEAN : Cardinality(ToolResults(tr, ok)) \in Nat
  BY <1>1, PositionsAreFinite DEF ToolResults, Positions
<1>3. checks \in Nat
  BY <1>1, PositionsAreFinite DEF FailedChecks, Positions
<1>4. /\ metrics.iterations \in [0 .. MaxIterations -> Nat]
      /\ metrics.tools \in [BOOLEAN -> Nat]
      /\ metrics.ungrounded \in Nat /\ metrics \in MetricRegistry
  BY MetricFields
<1>5. [metrics.iterations EXCEPT ![decisions] = @ + 1] \in [0 .. MaxIterations -> Nat]
  BY <1>4, IncrementType
<1>6. [ok \in BOOLEAN |-> metrics.tools[ok] + Cardinality(ToolResults(tr, ok))]
        \in [BOOLEAN -> Nat]
  BY <1>2, <1>4
<1>7. metrics.ungrounded + checks \in Nat
  BY <1>3, <1>4
<1>8. metrics' = [metrics EXCEPT
        !.iterations = [metrics.iterations EXCEPT ![decisions] = @ + 1],
        !.tools = [ok \in BOOLEAN |-> metrics.tools[ok] + Cardinality(ToolResults(tr, ok))],
        !.ungrounded = metrics.ungrounded + checks]
  BY DEF CountSteps
<1>9. metrics' \in MetricRegistry
  BY <1>4, <1>5, <1>6, <1>7, <1>8 DEF MetricRegistry
<1> QED BY <1>9, CountingStep DEF CountSteps, Counting

LEMMA CrashKeepsIInv ==
  ASSUME IInv, Crash PROVE IInv'
<1>1. NoMetrics \in MetricRegistry
  BY DEF NoMetrics, MetricRegistry
<1>2. TypeOK'
  BY <1>1, NoRunType, BoundsAssumption DEF Crash, IInv, TypeOK, Places, Stranded
<1>3. ASSUME NEW u \in Tickets
      PROVE  /\ RunFits(pc[u], run[u])'
             /\ RowFits(pc[u], store[u])'
             /\ AcceptanceFits(pc[u], u \in accepted)'
  <2>1. RowFits(pc[u], store[u]) /\ AcceptanceFits(pc[u], u \in accepted)
    BY <1>3, TicketFacts
  <2>2. /\ pc'[u] = IF pc[u] \in Handling \union Counting THEN "lost" ELSE pc[u]
        /\ run'[u] = NoRun /\ store'[u] = store[u] /\ accepted' = accepted
        /\ pc[u] \in Places
    BY <1>3 DEF Crash, IInv, TypeOK
  <2>3. RunFits(pc'[u], NoRun)
    BY <2>2 DEF RunFits, Handling, Deciding, Counting
  <2>4. store[u] = NoTicket => pc[u] \in {"idle", "refused"}
    BY <2>1 DEF RowFits
  <2>5. RowFits(pc'[u], store[u])
    BY <2>1, <2>2, <2>4 DEF RowFits, Handling, Deciding, Counting
  <2>6. AcceptanceFits(pc'[u], u \in accepted)
    BY <2>1, <2>2 DEF AcceptanceFits, Handling, Deciding, Counting
  <2> QED BY <2>2, <2>3, <2>5, <2>6
<1> QED BY <1>2, <1>3 DEF IInv, PlacesFit

-----------------------------------------------------------------------------
LEMMA InitEstablishesIInv == Init => IInv
<1> SUFFICES ASSUME Init PROVE IInv
  OBVIOUS
<1>1. NoMetrics \in MetricRegistry
  BY DEF NoMetrics, MetricRegistry
<1>2. TypeOK
  BY <1>1, NoRunType, BoundsAssumption DEF Init, TypeOK, Places
<1>3. PlacesFit
  BY DEF Init, PlacesFit, RunFits, RowFits, AcceptanceFits, Handling, Deciding, Counting,
     NoTicket, Terminal
<1> QED BY <1>2, <1>3 DEF IInv

LEMMA HandleKeepsIInv ==
  ASSUME IInv, NEW t \in Tickets, Handle(t) PROVE IInv'
<1>1. CASE Accept(t) BY <1>1, AcceptKeepsIInv
<1>2. CASE StartRun(t) BY <1>2, StartRunKeepsIInv
<1>3. CASE ReadFails(t) BY <1>3, ReadFailsKeepsIInv
<1>4. CASE Classify(t) BY <1>4, ClassifyKeepsIInv
<1>5. CASE ClassifyUnknown(t) BY <1>5, ClassifyUnknownKeepsIInv
<1>6. CASE ClassifyRaises(t)
  BY <1>6, RaisesKeepsIInv DEF ClassifyRaises, Deciding
<1>7. CASE DecideToolCall(t) BY <1>7, DecideToolCallKeepsIInv
<1>8. CASE DecideReply(t) BY <1>8, DecideReplyKeepsIInv
<1>9. CASE DecideHandoff(t) BY <1>9, DecideHandoffKeepsIInv
<1>10. CASE DecideRaises(t)
  BY <1>10, RaisesKeepsIInv DEF DecideRaises, Deciding
<1>11. CASE IterationCapReached(t) BY <1>11, IterationCapReachedKeepsIInv
<1>12. CASE ToolReturns(t) BY <1>12, ToolReturnsKeepsIInv
<1>13. CASE ToolFails(t) BY <1>13, ToolFailsKeepsIInv
<1>14. CASE RenderRaises(t)
  BY <1>14, RaisesKeepsIInv DEF RenderRaises, Deciding
<1>15. CASE GroundingPasses(t) BY <1>15, GroundingPassesKeepsIInv
<1>16. CASE GroundingFails(t) BY <1>16, GroundingFailsKeepsIInv
<1>17. CASE RecordDecision(t) BY <1>17, RecordDecisionKeepsIInv
<1>18. CASE Finalise(t) BY <1>18, FinaliseKeepsIInv
<1>19. CASE FinaliseFails(t) BY <1>19, FinaliseFailsKeepsIInv
<1>20. CASE CountTicket(t) BY <1>20, CountTicketKeepsIInv
<1>21. CASE CountHandoff(t) BY <1>21, CountHandoffKeepsIInv
<1>22. CASE CountSteps(t) BY <1>22, CountStepsKeepsIInv
<1> QED
  BY <1>1, <1>2, <1>3, <1>4, <1>5, <1>6, <1>7, <1>8, <1>9, <1>10, <1>11, <1>12, <1>13,
     <1>14, <1>15, <1>16, <1>17, <1>18, <1>19, <1>20, <1>21, <1>22
  DEF Handle

LEMMA NextKeepsIInv == IInv /\ [Next]_vars => IInv'
<1> SUFFICES ASSUME IInv, [Next]_vars PROVE IInv'
  OBVIOUS
<1>1. CASE UNCHANGED vars
  BY <1>1 DEF vars, IInv, TypeOK, PlacesFit
<1>2. ASSUME NEW t \in Tickets, CreateTicket(t) PROVE IInv'
  BY <1>2, CreateTicketKeepsIInv
<1>3. ASSUME NEW t \in Tickets, CreateFails(t) PROVE IInv'
  BY <1>3, CreateFailsKeepsIInv
<1>4. ASSUME NEW t \in Tickets, Handle(t) PROVE IInv'
  BY <1>4, HandleKeepsIInv
<1>5. CASE Crash
  BY <1>5, CrashKeepsIInv
<1> QED BY <1>1, <1>2, <1>3, <1>4, <1>5 DEF Next

\* The inductive invariant holds in every reachable state.
LEMMA AlwaysIInv == Spec => []IInv
BY InitEstablishesIInv, NextKeepsIInv, PTL DEF Spec

\* What each place of the handling implies of the run, the row and the 202 of its ticket.
THEOREM PlacesAlwaysFit == Spec => []PlacesFit
<1>1. IInv => PlacesFit
  BY DEF IInv
<1> QED BY <1>1, AlwaysIInv, PTL

\* Every variable keeps its type: above all, no status, reply and reason are ever paired
\* against the rule of the Ticket model and the schema's CHECK.
THEOREM TypeCorrect == Spec => []TypeOK
<1>1. IInv => TypeOK
  BY DEF IInv
<1> QED BY <1>1, AlwaysIInv, PTL

\* Every terminal ticket carries exactly one final_decision, last and in agreement with
\* its row; no other ticket shows any trace.
THEOREM TerminalAlwaysExplained == Spec => []TerminalIsExplained
<1>1. IInv => TerminalIsExplained
  BY DEF IInv, PlacesFit, RowFits, TerminalIsExplained, IsTerminal
<1> QED BY <1>1, AlwaysIInv, PTL

\* Every ticket a client was answered 202 for can be read.
THEOREM AcceptedAlwaysStored == Spec => []AcceptedIsStored
<1>1. IInv => AcceptedIsStored
  BY DEF IInv, TypeOK, PlacesFit, RowFits, AcceptanceFits, AcceptedIsStored
<1> QED BY <1>1, AlwaysIInv, PTL

\* The steps that are not local to a run: all others leave rows and acceptances alone.
LEMMA SharedSteps ==
  ASSUME [Next]_vars
  PROVE  \/ \E t \in Tickets : CreateTicket(t) \/ Accept(t) \/ Finalise(t)
         \/ store' = store /\ accepted' = accepted
<1>1. ASSUME NEW t \in Tickets, Handle(t), ~Accept(t), ~Finalise(t)
      PROVE  store' = store /\ accepted' = accepted
  BY <1>1
  DEF Handle, StartRun, ReadFails, Classify, ClassifyUnknown, ClassifyRaises, DecideToolCall,
      DecideReply, DecideHandoff, DecideRaises, IterationCapReached, ToolReturns, ToolFails,
      RenderRaises, GroundingPasses, GroundingFails, RecordDecision, FinaliseFails,
      CountTicket, CountHandoff, CountSteps, Raises, Local
<1>2. ASSUME NEW t \in Tickets, CreateFails(t)
      PROVE  store' = store /\ accepted' = accepted
  BY <1>2 DEF CreateFails
<1>3. Crash => store' = store /\ accepted' = accepted
  BY DEF Crash
<1>4. UNCHANGED vars => store' = store /\ accepted' = accepted
  BY DEF vars
<1> QED BY <1>1, <1>2, <1>3, <1>4 DEF Next

\* No step, whatever fails or dies, changes a terminal ticket.
THEOREM TerminalAlwaysFinal == Spec => TerminalIsFinal
<1>1. IInv /\ [Next]_vars => [\A t \in Tickets : IsTerminal(t) => store'[t] = store[t]]_store
  <2> SUFFICES ASSUME IInv, [Next]_vars, store' # store,
                      NEW u \in Tickets, IsTerminal(u)
               PROVE  store'[u] = store[u]
    OBVIOUS
  <2>1. PICK t \in Tickets : CreateTicket(t) \/ Finalise(t)
    BY SharedSteps DEF Accept
  <2>2. RowFits(pc[t], store[t])
    BY TicketFacts
  <2>3. ~IsTerminal(t)
    BY <2>1, <2>2 DEF RowFits, CreateTicket, Finalise, Goto, Handling, NewTicket, NoTicket, IsTerminal, Terminal
  <2> QED BY <2>1, <2>3 DEF IInv, TypeOK, CreateTicket, Finalise
<1> QED BY <1>1, AlwaysIInv, PTL DEF Spec, TerminalIsFinal

-----------------------------------------------------------------------------
\* The pipeline implements the abstract lifecycle: each of its steps is a Submit, an
\* Answer, a Conclude, or shows a client nothing.

LEMMA EmptyTraceExplainsNothing ==
  ASSUME NEW s, NEW r
  PROVE  EndsWithItsDecision(<<>>, s, r) = FALSE
BY DEF EndsWithItsDecision

LEMMA AbsentView == ViewOf(NoTicket) = Lifecycle!Absent
BY EmptyTraceExplainsNothing DEF ViewOf, NoTicket, Lifecycle!Absent, Lifecycle!Unconcluded

LEMMA ProcessingView == ViewOf(NewTicket) = Lifecycle!Processing
<1>1. NewTicket = [status |-> "processing", reply |-> None, reason |-> None, trace |-> <<>>]
  BY DEF NewTicket, NoTicket
<1> QED BY <1>1, EmptyTraceExplainsNothing
        DEF ViewOf, Lifecycle!Processing, Lifecycle!Unconcluded

LEMMA ConcludedView ==
  ASSUME NEW row \in StoredTicket, row.status \in Terminal,
         EndsWithItsDecision(row.trace, row.status, row.reason)
  PROVE  ViewOf(row) \in Lifecycle!Conclusions
<1>1. EndsWithItsDecision(row.trace, row.status, row.reason) = TRUE
  BY DEF EndsWithItsDecision
<1>2. ViewOf(row) = [status |-> row.status, reply |-> row.reply, reason |-> row.reason,
                     explained |-> TRUE]
  BY <1>1 DEF ViewOf
<1> QED
  BY <1>2 DEF StoredTicket, StatusReplyAndReasonAgree, Terminal, Lifecycle!Conclusions

\* Every behaviour of the pipeline is one of the lifecycle a client of GET is promised.
THEOREM PipelineImplementsLifecycle == Spec => ImplementsLifecycle
<1> DEFINE view == [t \in Tickets |-> ViewOf(store[t])]
<1>1. Init => Lifecycle!Init
  BY AbsentView DEF Init, Lifecycle!Init
<1>2. IInv /\ [Next]_vars => [Lifecycle!Next]_<<view, accepted>>
  <2> SUFFICES ASSUME IInv, [Next]_vars, <<view, accepted>>' # <<view, accepted>>
               PROVE  Lifecycle!Next
    OBVIOUS
  <2>1. PICK t \in Tickets : CreateTicket(t) \/ Accept(t) \/ Finalise(t)
    BY SharedSteps
  <2>2. /\ RowFits(pc[t], store[t]) /\ AcceptanceFits(pc[t], t \in accepted)
        /\ RunFits(pc[t], run[t])
        /\ store \in [Tickets -> {NoTicket} \union StoredTicket]
    BY TicketFacts DEF IInv, TypeOK
  <2>3. CASE CreateTicket(t)
    <3>1. store[t] = NoTicket /\ store' = [store EXCEPT ![t] = NewTicket] /\ accepted' = accepted
      BY <2>2, <2>3 DEF CreateTicket, Goto, RowFits
    <3>2. Lifecycle!Submit(t)
      BY <2>2, <3>1, AbsentView, ProcessingView DEF Lifecycle!Submit
    <3> QED BY <3>2 DEF Lifecycle!Next
  <2>4. CASE Accept(t)
    <3>1. store[t] = NewTicket /\ store' = store /\ accepted' = accepted \union {t}
      BY <2>2, <2>4 DEF Accept, Goto, RowFits, Handling
    <3>2. Lifecycle!Processing # Lifecycle!Absent
      BY DEF Lifecycle!Processing, Lifecycle!Absent, Lifecycle!Unconcluded
    <3>3. Lifecycle!Answer(t)
      BY <3>1, <3>2, ProcessingView DEF Lifecycle!Answer
    <3> QED BY <3>3 DEF Lifecycle!Next
  <2>5. CASE Finalise(t)
    <3> DEFINE row == [status |-> run[t].outcome.status, reply |-> run[t].outcome.reply,
                       reason |-> run[t].outcome.reason, trace |-> run[t].trace]
    <3>1. /\ pc[t] = "write" /\ store' = [store EXCEPT ![t] = row] /\ accepted' = accepted
      BY <2>5 DEF Finalise, Goto
    <3>2. store[t] = NewTicket /\ t \in accepted
      BY <2>2, <3>1 DEF RowFits, AcceptanceFits, Handling
    <3>3. row \in StoredTicket
      BY FinaliseKeepsIInv, <2>5, <3>1, <2>2, RunFacts DEF StoredTicket, Outcome, Run
    <3>4. /\ row.status \in Terminal
          /\ EndsWithItsDecision(row.trace, row.status, row.reason)
      BY <2>2, <3>1 DEF RunFits
    <3>5. ViewOf(row) \in Lifecycle!Conclusions
      BY <3>3, <3>4, ConcludedView
    <3> HIDE DEF row
    <3>6. Lifecycle!Conclude(t)
      BY <2>2, <3>1, <3>2, <3>5, ProcessingView DEF Lifecycle!Conclude
    <3> QED BY <3>6 DEF Lifecycle!Next
  <2> QED BY <2>1, <2>3, <2>4, <2>5
<1> QED BY <1>1, <1>2, AlwaysIInv, PTL DEF Spec, ImplementsLifecycle, Lifecycle!Spec
=============================================================================
