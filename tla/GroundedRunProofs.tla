--------------------------- MODULE GroundedRunProofs ---------------------------
(***************************************************************************)
(* Theorems about a run with its data, for any fixtures: any number of     *)
(* rows, files, edits and decisions.  Those about the numbers of a reply   *)
(* suppose that none of them coincides with another (NoCoincidence), and   *)
(* the last that the fake has room for its three decisions.                *)
(*                                                                         *)
(* The argument: what a tool returns is its file's rows, each once, the    *)
(* newest first (a finite set apart in time can be sorted, by induction    *)
(* over it), so the first fact of a kind is its newest row; what is sent   *)
(* is Render of the facts and has passed the check (RunFits); what tools   *)
(* returned is what the files hold until they are edited (AtRest); and the *)
(* fake's history is get_user, then the tool of its intent (FakeFits).     *)
(***************************************************************************)
EXTENDS GroundedRunProperties, FoldLemmas

-----------------------------------------------------------------------------
\* What the loaders return: a file's rows, each once, the newest first.

IsApart(rows) ==
  /\ IsFiniteSet(rows)
  /\ \A row \in rows : row.at \in Int
  /\ \A row, other \in rows : row.at = other.at => row = other

Sorts(list, rows) ==
  /\ list \in [1 .. Cardinality(rows) -> rows]
  /\ ToSet(list) = rows
  /\ \A m, n \in DOMAIN list : m < n => list[m].at > list[n].at

LEMMA OldestExists ==
  ASSUME NEW rows, IsApart(rows)
  PROVE  \A s \in SUBSET rows : s # {} => \E old \in s : \A row \in s : old.at <= row.at
<1> DEFINE HasOldest(s) == s # {} => \E old \in s : \A row \in s : old.at <= row.at
           T == { s \in SUBSET rows : HasOldest(s) }
<1>1. {} \in T
  OBVIOUS
<1>2. ASSUME NEW s \in SUBSET rows, NEW x \in s, s \ {x} \in T PROVE s \in T
  <2>1. CASE s \ {x} = {}
    <3>1. \A row \in s : row = x /\ x.at \in Int
      BY <2>1 DEF IsApart
    <3>2. \A row \in s : x.at <= row.at
      BY <3>1
    <3> QED BY <3>2
  <2>2. CASE s \ {x} # {}
    <3>1. PICK old \in s \ {x} : \A row \in s \ {x} : old.at <= row.at
      BY <1>2, <2>2
    <3>2. \A row \in s : row.at \in Int
      BY DEF IsApart
    <3>3. CASE x.at <= old.at
      <4>1. \A row \in s : x.at <= row.at
        BY <3>1, <3>2, <3>3
      <4> QED BY <4>1
    <3>4. CASE old.at <= x.at
      <4>1. \A row \in s : old.at <= row.at
        BY <3>1, <3>2, <3>4
      <4> QED BY <4>1
    <3> QED BY <3>1, <3>2, <3>3, <3>4
  <2> QED BY <2>1, <2>2
<1> HIDE DEF T
<1>3. SUBSET rows \subseteq T
  BY <1>1, <1>2, SubsetInduction DEF IsApart
<1> QED BY <1>3 DEF T

LEMMA WithOldest ==
  ASSUME NEW rows, IsApart(rows), NEW x \in rows, \A row \in rows : x.at <= row.at,
         NEW list, Sorts(list, rows \ {x})
  PROVE  \E longer : Sorts(longer, rows)
<1> DEFINE N == Cardinality(rows)
           longer == [n \in 1 .. N |-> IF n = N THEN x ELSE list[n]]
<1>1. N \in Nat /\ N # 0 /\ Cardinality(rows \ {x}) = N - 1
  BY FS_RemoveElement, FS_CardinalityType, FS_EmptySet DEF IsApart
<1>2. /\ list \in [1 .. N - 1 -> rows \ {x}] /\ ToSet(list) = rows \ {x}
      /\ \A m, n \in 1 .. N - 1 : m < n => list[m].at > list[n].at
  BY <1>1 DEF Sorts
<1> HIDE DEF N
<1>3. \A n \in 1 .. N : n = N \/ n \in 1 .. N - 1
  BY <1>1
<1>4. longer \in [1 .. N -> rows]
  BY <1>2, <1>3
<1>5. longer[N] = x /\ \A n \in 1 .. N - 1 : longer[n] = list[n]
  BY <1>1
<1>6. ToSet(longer) = rows
  <2>1. ToSet(longer) = { longer[n] : n \in 1 .. N } /\ ToSet(list) = { list[n] : n \in 1 .. N - 1 }
    BY <1>2 DEF ToSet
  <2>2. N \in 1 .. N /\ \A n \in 1 .. N - 1 : n \in 1 .. N
    BY <1>1
  <2> HIDE DEF longer
  <2> QED BY <1>2, <1>3, <1>5, <2>1, <2>2
<1>7. ASSUME NEW m \in 1 .. N, NEW n \in 1 .. N, m < n PROVE longer[m].at > longer[n].at
  <2>1. m \in 1 .. N - 1
    BY <1>1, <1>7
  <2>2. CASE n \in 1 .. N - 1
    BY <1>2, <1>5, <1>7, <2>1, <2>2
  <2>3. CASE n = N
    <3>1. list[m] \in rows /\ list[m] # x
      BY <1>2, <2>1
    <3>2. list[m].at \in Int /\ x.at \in Int /\ x.at <= list[m].at /\ x.at # list[m].at
      BY <3>1 DEF IsApart
    <3> HIDE DEF longer
    <3> QED BY <1>5, <2>1, <2>3, <3>2
  <2> QED BY <1>3, <2>2, <2>3
<1> HIDE DEF longer
<1>8. DOMAIN longer = 1 .. N
  BY <1>4
<1> QED BY <1>4, <1>6, <1>7, <1>8 DEF Sorts, N

LEMMA SortedExists ==
  ASSUME NEW rows, IsApart(rows)
  PROVE  \E list : Sorts(list, rows)
<1> DEFINE CanSort(s) == \E list : Sorts(list, s)
           Small(n) == \A s \in SUBSET rows : Cardinality(s) <= n => CanSort(s)
           Good == { n \in Nat : Small(n) }
<1>1. \A s \in SUBSET rows : IsApart(s) /\ Cardinality(s) \in Nat /\ (Cardinality(s) = 0 <=> s = {})
  BY FS_Subset, FS_CardinalityType, FS_EmptySet DEF IsApart
<1>0. CanSort({})
  <2>1. Sorts(<<>>, {})
    BY FS_EmptySet DEF Sorts, ToSet
  <2> QED BY <2>1
<1>2. Small(0)
  <2> HIDE DEF CanSort
  <2> QED BY <1>0, <1>1
<1>3. ASSUME NEW n \in Nat, Small(n) PROVE Small(n + 1)
  <2> SUFFICES ASSUME NEW s \in SUBSET rows, Cardinality(s) <= n + 1, s # {} PROVE CanSort(s)
    <3> HIDE DEF CanSort
    <3> QED BY <1>0
  <2>1. PICK x \in s : \A row \in s : x.at <= row.at
    BY OldestExists
  <2>2. Cardinality(s \ {x}) <= n /\ s \ {x} \in SUBSET rows
    BY <1>1, SizeWithout DEF IsApart
  <2>3. PICK list : Sorts(list, s \ {x})
    BY <1>3, <2>2
  <2> QED BY <1>1, <2>1, <2>3, WithOldest
<1>4. Nat \subseteq Good
  <2> HIDE DEF Small
  <2>1. 0 \in Good /\ \A n \in Nat : n \in Good => n + 1 \in Good
    BY <1>2, <1>3
  <2> HIDE DEF Good
  <2> QED BY <2>1, Induction
<1>5. Small(Cardinality(rows)) /\ Cardinality(rows) \in Nat
  <2> HIDE DEF Small
  <2> QED BY <1>1, <1>4
<1> QED BY <1>5

LEMMA LoaderSorts ==
  ASSUME NEW rows, IsApart(rows)
  PROVE  Sorts(NewestFirst(rows), rows)
<1>1. \E list \in [1 .. Cardinality(rows) -> rows] :
        /\ ToSet(list) = rows
        /\ \A m, n \in DOMAIN list : m < n => list[m].at > list[n].at
  BY SortedExists DEF Sorts
<1> QED BY <1>1 DEF Sorts, NewestFirst

-----------------------------------------------------------------------------
\* What a tool call adds to the history.

FileOf(f, tool, user) ==
  CASE tool = "get_user" -> f.users[user]
    [] tool = "get_invoices" -> f.invoices[user]
    [] tool = "get_charging_sessions" -> f.sessions[user]

Calls == [tool : Registered, user : UserIds]

TypeOf(tool) ==
  CASE tool = "get_user" -> "user"
    [] tool = "get_invoices" -> "invoice"
    [] tool = "get_charging_sessions" -> "session"

LEMMA OneTypeEach ==
  /\ Registered = {"get_user", "get_invoices", "get_charging_sessions"}
  /\ TypeOf("get_user") = "user"
  /\ TypeOf("get_invoices") = "invoice"
  /\ TypeOf("get_charging_sessions") = "session"
  /\ \A t, u \in Registered : TypeOf(t) = TypeOf(u) => t = u
  BY DEF Registered, TypeOf

LEMMA FilesAreRead ==
  /\ \A t \in Registered : \A u : File(t, u) = FileOf(fixtures, t, u)
  /\ \A f, u : /\ FileOf(f, "get_user", u) = f.users[u]
               /\ FileOf(f, "get_invoices", u) = f.invoices[u]
               /\ FileOf(f, "get_charging_sessions", u) = f.sessions[u]
  BY DEF Registered, File, FileOf

\* A list of rows of one type that validate, the newest first.
IsAnswer(records, type) ==
  /\ Len(records) \in Nat \ {0}
  /\ DOMAIN records = 1 .. Len(records)
  /\ \A m \in 1 .. Len(records) : Validates(records[m], type)
  /\ \A m, n \in 1 .. Len(records) : m < n => records[m].at > records[n].at

Answers == { NewestFirst(FileOf(f, t, u)) : f \in Fixtures, t \in Registered, u \in UserIds }

IsObserved(o) ==
  /\ IsAnswer(o.records, TypeOf(o.tool))
  /\ \E f \in Fixtures :
       FileOf(f, o.tool, o.user) # Broken /\ ToSet(o.records) = FileOf(f, o.tool, o.user)

Observations == { o \in [tool : Registered, user : UserIds, records : Answers] : IsObserved(o) }

LEMMA FilesValidate ==
  ASSUME NEW f \in Fixtures, NEW t \in Registered, NEW u \in UserIds,
         FileOf(f, t, u) # Broken
  PROVE  IsFile(FileOf(f, t, u), TypeOf(t))
<1>1. CASE t = "get_user"
  BY <1>1, GroundedRunAssumption DEF FileOf, TypeOf
<1>2. CASE t = "get_invoices"
  BY <1>2, GroundedRunAssumption DEF FileOf, TypeOf
<1>3. CASE t = "get_charging_sessions"
  BY <1>3, GroundedRunAssumption DEF FileOf, TypeOf
<1> QED BY <1>1, <1>2, <1>3 DEF Registered

LEMMA RowsAreAnswered ==
  ASSUME NEW rows, NEW type, IsFile(rows, type), rows # {}
  PROVE  IsAnswer(NewestFirst(rows), type) /\ ToSet(NewestFirst(rows)) = rows
<1> DEFINE list == NewestFirst(rows)
           N == Cardinality(rows)
<1>1. IsApart(rows)
  BY DEF IsFile, IsApart, Validates
<1>2. Sorts(list, rows)
  BY <1>1, LoaderSorts
<1>3. N \in Nat \ {0}
  BY <1>1, FS_CardinalityType, FS_EmptySet DEF IsApart
<1> HIDE DEF list
<1>4. list \in [1 .. N -> rows] /\ \A m, n \in DOMAIN list : m < n => list[m].at > list[n].at
  BY <1>2 DEF Sorts
<1> HIDE DEF N
<1>5. list \in Seq(rows) /\ Len(list) = N /\ DOMAIN list = 1 .. N
  BY <1>3, <1>4
<1>6. \A m \in 1 .. N : Validates(list[m], type)
  BY <1>4 DEF IsFile
<1>7. IsAnswer(list, type)
  BY <1>3, <1>4, <1>5, <1>6 DEF IsAnswer
<1> QED BY <1>2, <1>7 DEF Sorts, list

LEMMA CallsAreAnswered ==
  ASSUME NEW f \in Fixtures, NEW t \in Registered, NEW u \in UserIds,
         FileOf(f, t, u) \notin {Broken, {}}
  PROVE  /\ [tool |-> t, user |-> u, records |-> NewestFirst(FileOf(f, t, u))] \in Observations
         /\ IsAnswer(NewestFirst(FileOf(f, t, u)), TypeOf(t))
         /\ ToSet(NewestFirst(FileOf(f, t, u))) = FileOf(f, t, u)
<1>1. IsAnswer(NewestFirst(FileOf(f, t, u)), TypeOf(t)) /\ ToSet(NewestFirst(FileOf(f, t, u))) = FileOf(f, t, u)
  BY FilesValidate, RowsAreAnswered
<1>2. NewestFirst(FileOf(f, t, u)) \in Answers
  BY DEF Answers
<1> QED BY <1>1, <1>2 DEF Observations, IsObserved

-----------------------------------------------------------------------------
\* The state of a run.

HandedOff ==
  \E reason \in HandoffReason :
    outcome = [Undecided EXCEPT !.status = "handed_off", !.reason = reason]

Sent(t) ==
  /\ CanRender(t, Facts(history))
  /\ Grounded(Render(t, Facts(history)), Facts(history), t)
  /\ outcome = [Undecided EXCEPT !.status = "replied", !.template = t,
                                 !.text = Render(t, Facts(history))]

OutcomeFits ==
  /\ pc \in {"decide", "check_user", "read_rows"} => outcome = Undecided
  /\ pc = "ground" => \E t \in ReplyTemplate : outcome = [Undecided EXCEPT !.template = t]
  /\ pc = "end" => HandedOff \/ \E t \in ReplyTemplate : Sent(t)

CallsFit ==
  /\ history \in Seq(Observations)
  /\ inFlight \in Calls \union {None}
  /\ decisions \in 0 .. MaxIterations
  /\ Len(history) <= decisions
  /\ pc \in {"check_user", "read_rows"} => inFlight \in Calls /\ Len(history) < decisions
  /\ pc = "check_user" => inFlight.tool # "get_user"

RunFits ==
  /\ fixtures \in Fixtures /\ edits \in 0 .. MaxEdits
  /\ client \in Clients /\ intent \in Intent \ {"unknown"}
  /\ pc \in {"decide", "check_user", "read_rows", "ground", "end"}
  /\ CallsFit
  /\ OutcomeFits

LEMMA StepsAreKnown ==
  ASSUME client \in Clients, intent \in Intent \ {"unknown"}, NEW step \in Steps
  PROVE  /\ step.decision = "tool_call" => step.tool \in Registered /\ step.user \in UserIds
         /\ step.decision = "reply" => step.template \in ReplyTemplate
<1>1. DataTool \in Registered
  BY DEF DataTool, Registered
<1>2. TemplateFor \in ReplyTemplate
  BY DEF TemplateFor, ReplyTemplate
<1>3. CASE client = "fake"
  <2>1. FakeStep \in {Call("get_user", TicketUser), Call(DataTool, TicketUser), ReplyWith(TemplateFor)}
    BY DEF FakeStep
  <2>2. step \in {Call("get_user", TicketUser), Call(DataTool, TicketUser), ReplyWith(TemplateFor)}
    BY <1>3, <2>1 DEF Steps
  <2>3. "get_user" \in Registered /\ TicketUser \in UserIds
    BY GroundedRunAssumption DEF Registered
  <2> QED BY <1>1, <1>2, <2>2, <2>3 DEF Call, ReplyWith
<1>4. CASE client # "fake"
  BY <1>4 DEF Steps, Call, ReplyWith
<1> QED BY <1>3, <1>4

LEMMA HandsOff ==
  ASSUME NEW reason \in HandoffReason, HandOff(reason)
  PROVE  HandedOff'
  BY DEF HandOff, HandedOff, Undecided

LEMMA CallsAreObserved ==
  ASSUME inFlight \in Calls, fixtures \in Fixtures, Requested \notin {Broken, {}}
  PROVE  /\ Answered(NewestFirst(Requested)) \in Observations
         /\ Requested = FileOf(fixtures, inFlight.tool, inFlight.user)
<1>1. inFlight.tool \in Registered /\ inFlight.user \in UserIds
  BY DEF Calls
<1>2. Requested = FileOf(fixtures, inFlight.tool, inFlight.user)
  BY <1>1, FilesAreRead DEF Requested
<1> QED BY <1>1, <1>2, CallsAreAnswered DEF Answered

LEMMA StartFits == Init => RunFits
  BY GroundedRunAssumption DEF Init, RunFits, CallsFit, OutcomeFits, Undecided, Intent

LEMMA AppendedFits ==
  ASSUME NEW S, NEW l \in Seq(S), NEW x \in S
  PROVE  /\ Append(l, x) \in Seq(S)
         /\ Len(l) \in Nat /\ Len(Append(l, x)) = Len(l) + 1
         /\ Append(l, x)[Len(l) + 1] = x
         /\ \A n \in 1 .. Len(l) : Append(l, x)[n] = l[n]
  OBVIOUS

LEMMA RunStays ==
  ASSUME RunFits, [Next]_vars
  PROVE  RunFits'
<1>0. MaxIterations \in Nat /\ MaxEdits \in Nat
  BY GroundedRunAssumption
<1>1. CASE Edit
  <2>1. UNCHANGED <<client, intent, pc, inFlight, history, decisions, outcome>>
    BY <1>1 DEF Edit
  <2>2. OutcomeFits'
    BY <2>1 DEF RunFits, OutcomeFits, HandedOff, Sent
  <2>3. fixtures' \in Fixtures /\ edits' \in 0 .. MaxEdits
    BY <1>0, <1>1 DEF RunFits, Edit
  <2> QED BY <2>1, <2>2, <2>3 DEF RunFits, CallsFit
<1>2. CASE DecideToolCall
  <2>1. PICK step \in Steps : /\ step.decision = "tool_call"
                              /\ pc = "decide"
                              /\ pc' = IF step.tool = "get_user" THEN "read_rows" ELSE "check_user"
                              /\ inFlight' = [tool |-> step.tool, user |-> step.user]
                              /\ UNCHANGED outcome
    BY <1>2 DEF DecideToolCall, Goto
  <2>2. step.tool \in Registered /\ step.user \in UserIds
    BY <2>1, StepsAreKnown DEF RunFits
  <2>3. /\ decisions < MaxIterations /\ decisions' = decisions + 1
        /\ UNCHANGED <<fixtures, edits, client, intent, history>>
    BY <1>2 DEF DecideToolCall, Decide
  <2>4. Len(history) \in Nat
    BY DEF RunFits, CallsFit
  <2>5. CallsFit'
    <3>1. inFlight' \in Calls /\ inFlight'.tool = step.tool
      BY <2>1, <2>2 DEF Calls
    <3> QED BY <1>0, <2>1, <2>3, <2>4, <3>1 DEF RunFits, CallsFit
  <2>6. OutcomeFits'
    BY <2>1 DEF RunFits, OutcomeFits
  <2> QED BY <2>1, <2>3, <2>5, <2>6 DEF RunFits
<1>3. CASE DecideReply
  <2>1. PICK step \in Steps : /\ step.decision = "reply"
                              /\ pc = "decide" /\ pc' = "ground"
                              /\ outcome' = [outcome EXCEPT !.template = step.template]
                              /\ UNCHANGED inFlight
    BY <1>3 DEF DecideReply, Goto
  <2>2. step.template \in ReplyTemplate
    BY <2>1, StepsAreKnown DEF RunFits
  <2>3. /\ decisions < MaxIterations /\ decisions' = decisions + 1
        /\ UNCHANGED <<fixtures, edits, client, intent, history>>
    BY <1>3 DEF DecideReply, Decide
  <2>4. Len(history) \in Nat
    BY DEF RunFits, CallsFit
  <2>5. CallsFit'
    BY <1>0, <2>1, <2>3, <2>4 DEF RunFits, CallsFit
  <2>6. outcome = Undecided
    BY <2>1 DEF RunFits, OutcomeFits
  <2>7. OutcomeFits'
    BY <2>1, <2>2, <2>6 DEF OutcomeFits
  <2> QED BY <2>1, <2>3, <2>5, <2>7 DEF RunFits
<1>4. CASE IterationCapReached
  <2>1. /\ pc' = "end"
        /\ UNCHANGED <<fixtures, edits, client, intent, inFlight, history, decisions>>
    BY <1>4 DEF IterationCapReached, Goto
  <2>2. HandedOff'
    BY <1>4, HandsOff DEF IterationCapReached, HandoffReason
  <2>3. OutcomeFits'
    BY <2>1, <2>2 DEF OutcomeFits
  <2> QED BY <2>1, <2>3 DEF RunFits, CallsFit
<1>5. CASE CheckUser
  <2>1. /\ pc = "check_user" /\ pc' = "read_rows"
        /\ UNCHANGED <<fixtures, edits, client, intent, inFlight, decisions, history, outcome>>
    BY <1>5 DEF CheckUser, Goto, Reading
  <2>2. OutcomeFits'
    BY <2>1 DEF RunFits, OutcomeFits
  <2> QED BY <2>1, <2>2 DEF RunFits, CallsFit
<1>6. CASE CheckUserFails \/ ReadRowsFails
  <2>1. /\ pc' = "end"
        /\ UNCHANGED <<fixtures, edits, client, intent, inFlight, decisions, history>>
    BY <1>6 DEF CheckUserFails, ReadRowsFails, Goto, Reading
  <2>2. HandedOff'
    BY <1>6, HandsOff DEF CheckUserFails, ReadRowsFails, Fails, HandoffReason
  <2>3. OutcomeFits'
    BY <2>1, <2>2 DEF OutcomeFits
  <2> QED BY <2>1, <2>3 DEF RunFits, CallsFit
<1>7. CASE ReadRows
  <2> DEFINE o == Answered(NewestFirst(Requested))
  <2>1. /\ pc = "read_rows" /\ pc' = "decide"
        /\ Requested \notin {Broken, {}}
        /\ history' = Append(history, o)
        /\ UNCHANGED <<fixtures, edits, client, intent, inFlight, decisions, outcome>>
    BY <1>7 DEF ReadRows, Goto, Reading
  <2>2. o \in Observations
    <3>1. inFlight \in Calls /\ fixtures \in Fixtures
      BY <2>1 DEF RunFits, CallsFit
    <3> QED BY <2>1, <3>1, CallsAreObserved
  <2> HIDE DEF o
  <2>3. history' \in Seq(Observations) /\ Len(history') = Len(history) + 1 /\ Len(history) \in Nat
    BY <2>1, <2>2, AppendedFits DEF RunFits, CallsFit
  <2>4. CallsFit'
    BY <2>1, <2>3 DEF RunFits, CallsFit
  <2>5. OutcomeFits'
    BY <2>1 DEF RunFits, OutcomeFits
  <2> QED BY <2>1, <2>4, <2>5 DEF RunFits
<1>8. CASE Ground
  <2> DEFINE facts == Facts(history)
             template == outcome.template
             text == Render(template, facts)
  <2>1. /\ pc = "ground" /\ pc' = "end"
        /\ UNCHANGED <<fixtures, edits, client, intent, inFlight, history, decisions>>
    BY <1>8 DEF Ground, Goto
  <2>2. \/ HandOff("TOOL_ERROR")
        \/ HandOff("UNGROUNDED_REPLY")
        \/ /\ CanRender(template, facts) /\ Grounded(text, facts, template)
           /\ outcome' = [outcome EXCEPT !.status = "replied", !.text = text]
    BY <1>8 DEF Ground
  <2>3. PICK t \in ReplyTemplate : outcome = [Undecided EXCEPT !.template = t]
    BY <2>1 DEF RunFits, OutcomeFits
  <2>4. template = t
    BY <2>3 DEF Undecided
  <2>5. OutcomeFits'
    <3>1. CASE HandOff("TOOL_ERROR") \/ HandOff("UNGROUNDED_REPLY")
      <4>1. HandedOff'
        BY <3>1, HandsOff DEF HandoffReason
      <4> QED BY <2>1, <4>1 DEF OutcomeFits
    <3>2. CASE /\ CanRender(template, facts) /\ Grounded(text, facts, template)
               /\ outcome' = [outcome EXCEPT !.status = "replied", !.text = text]
      <4>1. outcome' = [Undecided EXCEPT !.status = "replied", !.template = t, !.text = text]
        <5> HIDE DEF text
        <5> QED BY <2>3, <3>2 DEF Undecided
      <4>2. Sent(t)'
        BY <2>1, <2>4, <3>2, <4>1 DEF Sent
      <4> QED BY <2>1, <4>2 DEF OutcomeFits
    <3> HIDE DEF facts, template, text
    <3> QED BY <2>2, <3>1, <3>2
  <2> QED BY <2>1, <2>5 DEF RunFits, CallsFit
<1>9. CASE UNCHANGED vars
  BY <1>9 DEF vars, RunFits, CallsFit, OutcomeFits, HandedOff, Sent
<1> QED BY <1>1, <1>2, <1>3, <1>4, <1>5, <1>6, <1>7, <1>8, <1>9 DEF Next

LEMMA AlwaysFits == Spec => []RunFits
<1>1. Init => RunFits
  BY StartFits
<1>2. RunFits /\ [Next]_vars => RunFits'
  BY RunStays
<1> QED BY <1>1, <1>2, PTL DEF Spec

LEMMA FitsIsType == RunFits => TypeOK
<1> SUFFICES ASSUME RunFits PROVE TypeOK
  OBVIOUS
<1>1. ASSUME NEW o \in ToSet(history)
      PROVE  o.tool \in Registered /\ o.user \in UserIds /\ o.records # <<>>
  <2>1. o \in Observations
    BY DEF RunFits, CallsFit, ToSet
  <2> QED BY <2>1 DEF Observations, IsObserved, IsAnswer
<1>2. pc = "end" => OutcomeAndReasonAgree(outcome.status, outcome.reason)
  BY DEF RunFits, OutcomeFits, HandedOff, Sent, Undecided, OutcomeAndReasonAgree
<1> QED BY <1>1, <1>2 DEF TypeOK, RunFits, CallsFit, Calls, Intent

\* TypeOK holds for any fixtures, any model of the protocol and any bounds
\* (pipeline/orchestrator.py:164-235).
THEOREM TypeCorrect == Spec => []TypeOK
  BY AlwaysFits, FitsIsType, PTL

-----------------------------------------------------------------------------
\* The facts of a history.

StandsIn(f, h) ==
  /\ f.turn \in 1 .. Len(h)
  /\ f.line \in 1 .. Len(h[f.turn].records)
  /\ f = [turn |-> f.turn, line |-> f.line, row |-> h[f.turn].records[f.line]]

LEMMA FoundStands ==
  ASSUME NEW h, NEW type
  PROVE  \A f : f \in Found(h, type) <=> StandsIn(f, h) /\ f.row.type = type
<1> SUFFICES ASSUME NEW f
             PROVE  f \in Found(h, type) <=> StandsIn(f, h) /\ f.row.type = type
  OBVIOUS
<1> DEFINE At(n, m) == [turn |-> n, line |-> m, row |-> h[n].records[m]]
<1>1. f \in Found(h, type) <=>
        /\ \E n \in 1 .. Len(h) : \E m \in 1 .. Len(h[n].records) : f = At(n, m)
        /\ f.row.type = type
  BY DEF Found
<1>2. ASSUME NEW n \in 1 .. Len(h), NEW m \in 1 .. Len(h[n].records), f = At(n, m)
      PROVE  StandsIn(f, h)
  BY <1>2 DEF StandsIn
<1>3. StandsIn(f, h) => \E n \in 1 .. Len(h) : \E m \in 1 .. Len(h[n].records) : f = At(n, m)
  BY DEF StandsIn
<1> QED BY <1>1, <1>2, <1>3

\* Every found row validates, and is of the type its tool returns.
LEMMA FoundRows ==
  ASSUME NEW h \in Seq(Observations), NEW f, StandsIn(f, h)
  PROVE  /\ h[f.turn] \in Observations /\ h[f.turn].tool \in Registered
         /\ Validates(f.row, TypeOf(h[f.turn].tool))
         /\ f.row.type = TypeOf(h[f.turn].tool)
         /\ f.row \in ToSet(h[f.turn].records)
         /\ f.turn \in Nat /\ f.line \in Nat
<1>1. h[f.turn] \in Observations /\ f.turn \in Nat /\ f.turn \in DOMAIN h
  BY DEF StandsIn
<1>2. /\ h[f.turn].tool \in Registered
      /\ IsAnswer(h[f.turn].records, TypeOf(h[f.turn].tool))
  BY <1>1 DEF Observations, IsObserved
<1>3. f.row = h[f.turn].records[f.line] /\ f.line \in 1 .. Len(h[f.turn].records)
  BY DEF StandsIn
<1>4. Validates(f.row, TypeOf(h[f.turn].tool)) /\ f.line \in Nat
  BY <1>2, <1>3 DEF IsAnswer
<1>5. f.row \in ToSet(h[f.turn].records)
  BY <1>2, <1>3 DEF IsAnswer, ToSet
<1> QED BY <1>1, <1>2, <1>4, <1>5 DEF Validates

LEMMA SamePlace ==
  ASSUME NEW h, NEW f, NEW g, StandsIn(f, h), StandsIn(g, h), f.turn = g.turn, f.line = g.line
  PROVE  f = g
<1>1. /\ f = [turn |-> f.turn, line |-> f.line, row |-> h[f.turn].records[f.line]]
      /\ g = [turn |-> g.turn, line |-> g.line, row |-> h[g.turn].records[g.line]]
  BY DEF StandsIn
<1> QED BY <1>1

LEMMA FirstFound ==
  ASSUME NEW h \in Seq(Observations), NEW F, F # {}, \A f \in F : StandsIn(f, h)
  PROVE  \E f \in F : FirstOf(F) = f.row /\ \A g \in F : f = g \/ Before(f, g)
<1>1. \A f \in F : f.turn \in Nat /\ f.line \in Nat
  BY FoundRows
<1> DEFINE Turns == { f.turn : f \in F }
<1>2. PICK n \in Turns : \A k \in Turns : n <= k
  BY <1>1, LeastElement
<1> DEFINE Lines == { f.line : f \in { g \in F : g.turn = n } }
<1>3. PICK m \in Lines : \A k \in Lines : m <= k
  BY <1>1, <1>2, LeastElement
<1>4. PICK f \in F : f.turn = n /\ f.line = m
  BY <1>3
<1>5. ASSUME NEW g \in F PROVE f = g \/ Before(f, g)
  <2>1. n <= g.turn /\ (g.turn = n => m <= g.line)
    BY <1>2, <1>3
  <2>2. f.turn \in Nat /\ g.turn \in Nat /\ f.line \in Nat /\ g.line \in Nat
    BY <1>1
  <2>3. CASE g.turn = n /\ g.line = m
    BY <1>4, <2>3, SamePlace
  <2>4. CASE ~(g.turn = n /\ g.line = m)
    BY <1>4, <2>1, <2>2, <2>4 DEF Before
  <2> QED BY <2>3, <2>4
<1> DEFINE first == CHOOSE f1 \in F : \A g \in F : f1 = g \/ Before(f1, g)
<1>6. first \in F /\ \A g \in F : first = g \/ Before(first, g)
  BY <1>5
<1>7. FirstOf(F) = first.row
  BY DEF FirstOf
<1> HIDE DEF first
<1> QED BY <1>6, <1>7

LEMMA LastFound ==
  ASSUME NEW h \in Seq(Observations), NEW F, F # {}, \A f \in F : StandsIn(f, h)
  PROVE  \E f \in F : LastOf(F) = f.row
<1>1. \A f \in F : /\ f.turn \in Nat /\ f.turn <= Len(h)
                   /\ f.line \in Nat /\ f.line <= Len(h[f.turn].records)
                   /\ Len(h) \in Nat /\ Len(h[f.turn].records) \in Nat
  <2> SUFFICES ASSUME NEW f \in F
               PROVE  /\ f.turn \in Nat /\ f.turn <= Len(h)
                      /\ f.line \in Nat /\ f.line <= Len(h[f.turn].records)
                      /\ Len(h) \in Nat /\ Len(h[f.turn].records) \in Nat
    OBVIOUS
  <2>1. h[f.turn] \in Observations /\ f.turn \in Nat /\ f.line \in Nat
    BY FoundRows
  <2>2. Len(h[f.turn].records) \in Nat
    BY <2>1 DEF Observations, IsObserved, IsAnswer
  <2> QED BY <2>1, <2>2 DEF StandsIn
<1> DEFINE Turns == { Len(h) - f.turn : f \in F }
<1>2. Turns \in SUBSET Nat /\ Turns # {}
  BY <1>1
<1>3. PICK n \in Turns : \A k \in Turns : n <= k
  <2> HIDE DEF Turns
  <2> QED BY <1>2, LeastElement
<1>4. PICK e \in F : n = Len(h) - e.turn
  BY <1>3
<1>5. ASSUME NEW g \in F PROVE g.turn <= e.turn
  <2>1. Len(h) - e.turn <= Len(h) - g.turn
    BY <1>3, <1>4
  <2>2. Len(h) \in Nat /\ e.turn \in Nat /\ g.turn \in Nat
    BY <1>1
  <2> HIDE DEF Turns
  <2> QED BY <2>1, <2>2
<1> DEFINE N == Len(h[e.turn].records)
           Lines == { N - f.line : f \in { g \in F : g.turn = e.turn } }
<1>6. Lines \in SUBSET Nat /\ Lines # {}
  <2>1. ASSUME NEW g \in F, g.turn = e.turn PROVE N - g.line \in Nat
    <3>1. N \in Nat /\ g.line \in Nat /\ g.line <= N
      BY <1>1, <2>1
    <3> HIDE DEF N
    <3> QED BY <3>1
  <2> QED BY <1>4, <2>1
<1>7. PICK m \in Lines : \A k \in Lines : m <= k
  <2> HIDE DEF Lines
  <2> QED BY <1>6, LeastElement
<1>8. PICK f \in F : f.turn = e.turn /\ m = N - f.line
  BY <1>7
<1>9. ASSUME NEW g \in F PROVE f = g \/ Before(g, f)
  <2>1. /\ f.turn \in Nat /\ g.turn \in Nat /\ f.line \in Nat /\ g.line \in Nat
        /\ g.turn <= f.turn
    BY <1>1, <1>5, <1>8
  <2>2. g.turn = f.turn => g.line <= f.line
    <3>1. ASSUME g.turn = f.turn PROVE g.line <= f.line
      <4>1. N - g.line \in Lines
        BY <1>8, <3>1
      <4>2. m <= N - g.line
        BY <1>7, <4>1
      <4>3. N \in Nat
        BY <1>1
      <4> HIDE DEF N
      <4> QED BY <1>8, <2>1, <4>2, <4>3
    <3> QED BY <3>1
  <2>3. CASE g.turn = f.turn /\ g.line = f.line
    BY <2>3, SamePlace
  <2>4. CASE ~(g.turn = f.turn /\ g.line = f.line)
    BY <2>1, <2>2, <2>4 DEF Before
  <2> QED BY <2>3, <2>4
<1> DEFINE last == CHOOSE f1 \in F : \A g \in F : f1 = g \/ Before(g, f1)
<1>10. last \in F
  BY <1>9
<1>11. LastOf(F) = last.row
  BY DEF LastOf
<1> HIDE DEF last
<1> QED BY <1>10, <1>11

LEMMA FactsAre ==
  ASSUME NEW h
  PROVE  /\ Facts(h).invoices = Found(h, "invoice")
         /\ Facts(h).sessions = Found(h, "session")
         /\ Facts(h).user = IF Found(h, "user") = {} THEN None ELSE LastOf(Found(h, "user"))
  BY DEF Facts

\* What is found was returned by the tool of its type.
LEMMA FoundIsReturned ==
  ASSUME history \in Seq(Observations), NEW t \in Registered, NEW f \in Found(history, TypeOf(t))
  PROVE  /\ StandsIn(f, history) /\ f.row \in Of(TypeOf(t)) /\ Validates(f.row, TypeOf(t))
         /\ t \in { o.tool : o \in ToSet(history) }
         /\ history[f.turn].tool = t
<1>1. StandsIn(f, history) /\ f.row.type = TypeOf(t)
  BY FoundStands
<1>2. /\ history[f.turn] \in Observations /\ history[f.turn].tool \in Registered
      /\ Validates(f.row, TypeOf(history[f.turn].tool))
      /\ f.row.type = TypeOf(history[f.turn].tool)
      /\ f.row \in ToSet(history[f.turn].records)
  BY <1>1, FoundRows
<1>3. history[f.turn].tool = t
  BY <1>1, <1>2, OneTypeEach
<1>4. history[f.turn] \in ToSet(history)
  BY <1>1 DEF StandsIn, ToSet
<1>5. f.row \in Of(TypeOf(t))
  BY <1>1, <1>2, <1>4 DEF Of
<1> QED BY <1>1, <1>2, <1>3, <1>4, <1>5

\* A row of a tool's answer that is of interest is in a fixture file.
LEMMA FoundIsPriced ==
  ASSUME history \in Seq(Observations), NEW t \in {"get_invoices", "get_charging_sessions"},
         NEW f \in Found(history, TypeOf(t))
  PROVE  f.row \in Priced
<1>1. t \in Registered
  BY DEF Registered
<1>2. StandsIn(f, history) /\ history[f.turn].tool = t
  BY <1>1, FoundIsReturned
<1>3. history[f.turn] \in Observations /\ f.row \in ToSet(history[f.turn].records)
  BY <1>2, FoundRows
<1> DEFINE u == history[f.turn].user
<1>4. PICK x \in Fixtures : FileOf(x, t, u) # Broken /\ ToSet(history[f.turn].records) = FileOf(x, t, u)
  BY <1>2, <1>3 DEF Observations, IsObserved
<1>5. u \in UserIds
  BY <1>3 DEF Observations
<1> HIDE DEF u
<1>6. FileOf(x, t, u) \in {x.invoices[u], x.sessions[u]}
  BY FilesAreRead
<1>7. f.row \in RowsOf(x, u)
  BY <1>3, <1>4, <1>6 DEF RowsOf
<1>8. RowsOf(x, u) \in { RowsOf(x, v) : v \in UserIds }
  BY <1>5
<1>9. f.row \in UNION { RowsOf(x, v) : v \in UserIds }
  BY <1>7, <1>8
<1> QED BY <1>9 DEF Priced

LEMMA RepliedIsSent ==
  ASSUME RunFits, Replied
  PROVE  /\ pc = "end" /\ history \in Seq(Observations)
         /\ \E t \in ReplyTemplate :
              /\ CanRender(t, Facts(history))
              /\ Grounded(Render(t, Facts(history)), Facts(history), t)
              /\ outcome.template = t /\ outcome.text = Render(t, Facts(history))
<1>1. outcome.status = "replied"
  BY DEF Replied
<1>2. ~HandedOff
  BY <1>1 DEF HandedOff, Undecided
<1>3. pc = "end"
  BY <1>1 DEF RunFits, OutcomeFits, Undecided
<1>4. PICK t \in ReplyTemplate : Sent(t)
  BY <1>2, <1>3 DEF RunFits, OutcomeFits
<1>5. outcome.template = t /\ outcome.text = Render(t, Facts(history))
  BY <1>4 DEF Sent, Undecided
<1> QED BY <1>3, <1>4, <1>5 DEF Sent, RunFits, CallsFit

LEMMA UserIsFound ==
  ASSUME history \in Seq(Observations), Facts(history).user # None
  PROVE  \E f \in Found(history, "user") : Facts(history).user = f.row
<1> DEFINE users == Found(history, "user")
<1>1. users # {} /\ Facts(history).user = LastOf(users)
  BY FactsAre
<1>2. \A f \in users : StandsIn(f, history)
  BY FoundStands
<1> HIDE DEF users
<1>3. \E f \in users : LastOf(users) = f.row
  BY <1>1, <1>2, LastFound
<1> QED BY <1>1, <1>3 DEF users

\* What Grounded comes to for a text.
LEMMA GroundedMeans ==
  ASSUME NEW numbers, NEW identifiers, NEW statuses, NEW entities, NEW facts, NEW t
  PROVE  Grounded(Text(numbers, identifiers, statuses, entities), facts, t) <=>
           /\ numbers \union UNION { NumbersIn[e] : e \in entities \ AllowedEntities(facts) }
                \subseteq AllowedNumbers(facts) \union Safe(t)
           /\ identifiers \subseteq AllowedIdentifiers(facts)
           /\ statuses \subseteq AllowedStatuses(facts)
  BY DEF Grounded, Extract, Text

LEMMA Rendered ==
  ASSUME NEW facts
  PROVE  /\ Render("billing_all_paid", facts) = Text({}, {}, {"paid"}, {facts.user.name})
         /\ Render("billing_failed", facts) = InvoiceText(facts, "failed", {})
         /\ Render("billing_pending", facts) = InvoiceText(facts, "pending", Safe("billing_pending"))
         /\ Render("session_completed", facts) = SessionText(facts, "completed")
         /\ Render("session_interrupted", facts) = SessionText(facts, FirstOf(facts.sessions).status)
  BY DEF Render

-----------------------------------------------------------------------------
\* A passed check has evidence: a template's fields have rows to be filled from, and "paid"
\* is a status of invoices only.

LEMMA EvidenceIsReturned == RunFits => PassedChecksHaveEvidence
<1> SUFFICES ASSUME RunFits, Replied
             PROVE  Evidence(outcome.template) \subseteq { o.tool : o \in ToSet(history) }
  BY DEF PassedChecksHaveEvidence
<1> DEFINE facts == Facts(history)
           called == { o.tool : o \in ToSet(history) }
<1>1. PICK t \in ReplyTemplate : /\ history \in Seq(Observations)
                                 /\ CanRender(t, facts) /\ Grounded(Render(t, facts), facts, t)
                                 /\ outcome.template = t
  BY RepliedIsSent
<1>2. \A x \in Registered : Found(history, TypeOf(x)) # {} => x \in called
  BY <1>1, FoundIsReturned
<1>3. "get_user" \in called
  <2>1. Found(history, "user") # {}
    BY <1>1, FactsAre DEF CanRender
  <2> QED BY <1>2, <2>1, OneTypeEach
<1>4. t \in {"billing_failed", "billing_pending"} => "get_invoices" \in called
  <2>1. t \in {"billing_failed", "billing_pending"} => Found(history, "invoice") # {}
    BY <1>1, FactsAre DEF CanRender, InvoicesWith
  <2> QED BY <1>2, <2>1, OneTypeEach
<1>5. t \in {"session_completed", "session_interrupted"} => "get_charging_sessions" \in called
  <2>1. t \in {"session_completed", "session_interrupted"} => Found(history, "session") # {}
    BY <1>1, FactsAre DEF CanRender
  <2> QED BY <1>2, <2>1, OneTypeEach
<1>6. t = "billing_all_paid" => "get_invoices" \in called
  <2> SUFFICES ASSUME t = "billing_all_paid" PROVE "get_invoices" \in called
    OBVIOUS
  <2>1. "paid" \in AllowedStatuses(facts)
    <3>1. Grounded(Text({}, {}, {"paid"}, {facts.user.name}), facts, t)
      <4> HIDE DEF facts
      <4> QED BY <1>1, Rendered
    <3>2. {"paid"} \subseteq AllowedStatuses(facts)
      <4> HIDE DEF facts
      <4> QED BY <3>1, GroundedMeans
    <3> QED BY <3>2
  <2>2. PICK f \in Found(history, "invoice") \union Found(history, "session") : f.row.status = "paid"
    BY <2>1, FactsAre DEF AllowedStatuses
  <2>3. f \notin Found(history, "session")
    <3>1. f \in Found(history, "session") => Validates(f.row, "session")
      BY <1>1, FoundIsReturned, OneTypeEach
    <3> QED BY <2>2, <3>1 DEF Validates, SessionStatus
  <2> QED BY <1>2, <2>2, <2>3, OneTypeEach
<1> HIDE DEF facts, called
<1>7. Evidence(t) \subseteq called
  BY <1>3, <1>4, <1>5, <1>6 DEF Evidence, RenderNeeds
<1> QED BY <1>1, <1>7 DEF called

\* Pipeline's abstraction of a passed check is justified for any fixtures and any model
\* (pipeline/orchestrator.py:211-235).
THEOREM EvidenceIsAlwaysReturned == Spec => []PassedChecksHaveEvidence
  BY AlwaysFits, EvidenceIsReturned, PTL

-----------------------------------------------------------------------------
\* A reply's numbers are those of the record it cites.

LEMMA FoundIsFinite ==
  ASSUME NEW h \in Seq(Observations), NEW type
  PROVE  IsFiniteSet(Found(h, type)) /\ Cardinality(Found(h, type)) \in Nat
<1> DEFINE D == 1 .. Len(h)
           At(n, m) == [turn |-> n, line |-> m, row |-> h[n].records[m]]
           A == [n \in D |-> { At(n, m) : m \in 1 .. Len(h[n].records) }]
<1>1. IsFiniteSet(D)
  BY FS_Interval
<1>2. ASSUME NEW n \in D PROVE IsFiniteSet(A[n])
  <2> DEFINE K == Len(h[n].records)
             f == [m \in 1 .. K |-> At(n, m)]
             S == { At(n, m) : m \in 1 .. K }
  <2>1. K \in Nat
    BY DEF Observations, IsObserved, IsAnswer
  <2> HIDE DEF K, At
  <2>2. f \in Surjection(1 .. K, S)
    BY DEF Surjection
  <2>3. IsFiniteSet(S)
    BY <2>1, <2>2, FS_NatSurjection DEF ExistsSurjection
  <2> QED BY <2>3 DEF K
<1>3. IsFiniteSet(Covered(A, D))
  <2> HIDE DEF A, D
  <2> QED BY <1>1, <1>2, CoveredIsFinite
<1>4. Found(h, type) \subseteq Covered(A, D)
  <2> SUFFICES ASSUME NEW f \in Found(h, type) PROVE f \in Covered(A, D)
    OBVIOUS
  <2>1. StandsIn(f, h)
    BY FoundStands
  <2>2. f.turn \in D /\ f \in A[f.turn]
    BY <2>1 DEF StandsIn
  <2> HIDE DEF A, D
  <2> QED BY <2>2 DEF Covered
<1>5. IsFiniteSet(Found(h, type))
  BY <1>3, <1>4, FS_Subset
<1> QED BY <1>5, FS_CardinalityType

\* Written as itself, or as what no fact and no prose has.
LEMMA WrittenAsItself ==
  ASSUME NoCoincidence, history \in Seq(Observations), NEW t,
         NEW r \in Priced, NEW n \in NumbersOf(r),
         Written(n) \in AllowedNumbers(Facts(history)) \union Safe(t)
  PROVE  Written(n) = n
<1> SUFFICES ASSUME Written(n) # n PROVE FALSE
  OBVIOUS
<1> DEFINE w == Written(n)
           facts == Facts(history)
           invoices == facts.invoices
           sessions == facts.sessions
<1>0. invoices = Found(history, "invoice") /\ sessions = Found(history, "session")
  BY FactsAre
<1>1. w % 1000 # 0 /\ \A other \in Priced : w \notin NumbersOf(other)
  BY DEF NoCoincidence
<1>2. {"get_invoices", "get_charging_sessions"} \subseteq Registered
  BY DEF Registered
<1>3. ASSUME NEW i \in invoices PROVE w # i.row.amount
  <2>1. i.row \in Priced
    BY <1>0, FoundIsPriced, OneTypeEach
  <2>2. i.row.type = "invoice"
    BY <1>0, FoundStands
  <2>3. i.row.amount \in NumbersOf(i.row)
    BY <2>2 DEF NumbersOf
  <2> QED BY <1>1, <2>1, <2>3
<1>4. ASSUME NEW s \in sessions PROVE w # s.row.kwh /\ w # s.row.cost
  <2>1. s.row \in Priced
    BY <1>0, FoundIsPriced, OneTypeEach
  <2>2. s.row.type = "session"
    BY <1>0, FoundStands
  <2>3. s.row.kwh \in NumbersOf(s.row) /\ s.row.cost \in NumbersOf(s.row)
    BY <2>2 DEF NumbersOf
  <2> QED BY <1>1, <2>1, <2>3
<1>5. ASSUME NEW found \in {invoices, sessions} PROVE w # 1000 * Cardinality(found)
  <2>1. Cardinality(found) \in Nat
    BY <1>0, FoundIsFinite
  <2>2. \A k \in Nat : (1000 * k) % 1000 = 0
    OBVIOUS
  <2> QED BY <1>1, <2>1, <2>2
<1>6. w \notin Safe(t)
  BY <1>1 DEF Safe
<1> HIDE DEF w, facts
<1>7. w \notin AllowedNumbers(facts)
  <2> DEFINE amounts == { i.row.amount : i \in invoices }
             measures == UNION { {s.row.kwh, s.row.cost} : s \in sessions }
             counts == { 1000 * Cardinality(found) : found \in {invoices, sessions} \ {{}} }
  <2>1. AllowedNumbers(facts) = amounts \union measures \union counts
    BY DEF AllowedNumbers
  <2>2. w \notin amounts
    BY <1>3
  <2>3. w \notin measures
    BY <1>4
  <2>4. w \notin counts
    BY <1>5
  <2> HIDE DEF amounts, measures, counts
  <2> QED BY <2>1, <2>2, <2>3, <2>4
<1> QED BY <1>6, <1>7 DEF w, facts

\* The status a billing template's invoice has.
StatusOf(t) == IF t = "billing_failed" THEN "failed" ELSE "pending"

IsFirst(f, F) == f \in F /\ \A g \in F : f = g \/ Before(f, g)

LEMMA InvoiceIsCited ==
  ASSUME NoCoincidence, RunFits, Replied, AboutAnInvoice
  PROVE  /\ outcome.text.statuses = {StatusOf(outcome.template)}
         /\ \E f : /\ IsFirst(f, InvoicesWith(Facts(history), StatusOf(outcome.template)))
                   /\ CitesInvoice(f.row)
<1> DEFINE facts == Facts(history)
           t == outcome.template
           s == StatusOf(t)
           F == InvoicesWith(facts, s)
<1>1. /\ history \in Seq(Observations)
      /\ CanRender(t, facts) /\ Grounded(Render(t, facts), facts, t)
      /\ outcome.text = Render(t, facts)
      /\ t \in {"billing_failed", "billing_pending"}
  BY RepliedIsSent DEF AboutAnInvoice
<1>2. F # {} /\ F = { i \in Found(history, "invoice") : i.row.status = s }
  BY <1>1, FactsAre DEF CanRender, InvoicesWith, StatusOf
<1>3. Render(t, facts) = InvoiceText(facts, s, Safe(t))
  <2> HIDE DEF facts
  <2>1. CASE t = "billing_failed"
    <3>1. s = "failed" /\ Safe(t) = {}
      BY <2>1 DEF StatusOf, Safe
    <3> QED BY <2>1, <3>1, Rendered
  <2>2. CASE t = "billing_pending"
    BY <2>2, Rendered DEF StatusOf
  <2> QED BY <1>1, <2>1, <2>2
<1>4. \A f \in F : StandsIn(f, history) /\ f.row \in Priced /\ f.row.type = "invoice" /\ f.row.status = s
  BY <1>1, <1>2, FoundStands, FoundIsPriced, OneTypeEach
<1> HIDE DEF F
<1>5. PICK f \in F : FirstOf(F) = f.row /\ \A g \in F : f = g \/ Before(f, g)
  BY <1>1, <1>2, <1>4, FirstFound
<1> HIDE DEF facts, t, s
<1>6. outcome.text = Text({Written(f.row.amount)} \union Safe(t), {f.row.id}, {s}, {facts.user.name})
  BY <1>1, <1>3, <1>5 DEF InvoiceText, F
<1>7. Written(f.row.amount) = f.row.amount
  <2>1. Grounded(Text({Written(f.row.amount)} \union Safe(t), {f.row.id}, {s}, {facts.user.name}), facts, t)
    BY <1>1, <1>6
  <2>2. Written(f.row.amount) \in AllowedNumbers(facts) \union Safe(t)
    BY <2>1, GroundedMeans
  <2>3. f.row.amount \in NumbersOf(f.row) /\ f.row \in Priced
    BY <1>4 DEF NumbersOf
  <2> QED BY <1>1, <2>2, <2>3, WrittenAsItself DEF facts
<1>8. outcome.text = Text({f.row.amount} \union Safe(t), {f.row.id}, {s}, {facts.user.name})
  BY <1>6, <1>7
<1>9. CitesInvoice(f.row) /\ outcome.text.statuses = {s}
  BY <1>4, <1>8 DEF CitesInvoice, Text, t
<1> QED BY <1>5, <1>9 DEF IsFirst, F, s, t, facts

LEMMA SessionIsCited ==
  ASSUME NoCoincidence, RunFits, Replied, AboutASession
  PROVE  \E f : /\ IsFirst(f, Found(history, "session"))
                /\ CitesSession(f.row)
                /\ outcome.text.statuses =
                     IF outcome.template = "session_completed" THEN {"completed"} ELSE {f.row.status}
<1> DEFINE facts == Facts(history)
           t == outcome.template
           F == Found(history, "session")
<1>1. /\ history \in Seq(Observations)
      /\ CanRender(t, facts) /\ Grounded(Render(t, facts), facts, t)
      /\ outcome.text = Render(t, facts)
      /\ t \in {"session_completed", "session_interrupted"}
  BY RepliedIsSent DEF AboutASession
<1>2. F # {} /\ facts.sessions = F
  BY <1>1, FactsAre DEF CanRender
<1>3. \A f \in F : StandsIn(f, history) /\ f.row \in Priced /\ f.row.type = "session"
  BY <1>1, <1>2, FoundStands, FoundIsPriced, OneTypeEach
<1> HIDE DEF F
<1>4. PICK f \in F : FirstOf(F) = f.row /\ \A g \in F : f = g \/ Before(f, g)
  BY <1>1, <1>2, <1>3, FirstFound
<1> DEFINE s == IF t = "session_completed" THEN "completed" ELSE f.row.status
<1>5. Render(t, facts) = SessionText(facts, s)
  <2> HIDE DEF facts, t
  <2>1. FirstOf(facts.sessions) = f.row
    BY <1>2, <1>4
  <2>2. CASE t = "session_completed"
    BY <2>2, Rendered
  <2>3. CASE t = "session_interrupted"
    BY <2>1, <2>3, Rendered
  <2> QED BY <1>1, <2>2, <2>3
<1> HIDE DEF facts, t, s
<1>6. outcome.text = Text({Written(f.row.kwh), Written(f.row.cost)}, {}, {s},
                          {facts.user.name, f.row.station})
  BY <1>1, <1>2, <1>4, <1>5 DEF SessionText
<1>7. Written(f.row.kwh) = f.row.kwh /\ Written(f.row.cost) = f.row.cost
  <2>1. Grounded(Text({Written(f.row.kwh), Written(f.row.cost)}, {}, {s},
                      {facts.user.name, f.row.station}), facts, t)
    BY <1>1, <1>6
  <2>2. /\ Written(f.row.kwh) \in AllowedNumbers(facts) \union Safe(t)
        /\ Written(f.row.cost) \in AllowedNumbers(facts) \union Safe(t)
    BY <2>1, GroundedMeans
  <2>3. f.row.kwh \in NumbersOf(f.row) /\ f.row.cost \in NumbersOf(f.row) /\ f.row \in Priced
    BY <1>3 DEF NumbersOf
  <2> QED BY <1>1, <2>2, <2>3, WrittenAsItself DEF facts
<1>8. outcome.text = Text({f.row.kwh, f.row.cost}, {}, {s}, {facts.user.name, f.row.station})
  BY <1>6, <1>7
<1>9. CitesSession(f.row) /\ outcome.text.statuses = {s}
  BY <1>8 DEF CitesSession, Text
<1> QED BY <1>4, <1>9 DEF IsFirst, F, s, t

LEMMA RenderIsText ==
  ASSUME NEW t \in ReplyTemplate, NEW facts
  PROVE  \E a, b, c, d : Render(t, facts) = Text(a, b, c, d) /\ facts.user.name \in d
<1>1. CASE t = "billing_all_paid"
  <2>1. Render(t, facts) = Text({}, {}, {"paid"}, {facts.user.name})
    BY <1>1, Rendered
  <2> QED BY <2>1
<1>2. CASE t = "billing_failed"
  <2> DEFINE i == FirstOf(InvoicesWith(facts, "failed"))
  <2>1. Render(t, facts) = Text({Written(i.amount)} \union {}, {i.id}, {"failed"}, {facts.user.name})
    BY <1>2, Rendered DEF InvoiceText
  <2> HIDE DEF i
  <2> QED BY <2>1
<1>3. CASE t = "billing_pending"
  <2> DEFINE i == FirstOf(InvoicesWith(facts, "pending"))
  <2>1. Render(t, facts) = Text({Written(i.amount)} \union Safe("billing_pending"), {i.id}, {"pending"}, {facts.user.name})
    BY <1>3, Rendered DEF InvoiceText
  <2> HIDE DEF i
  <2> QED BY <2>1
<1>4. CASE t = "session_completed"
  <2> DEFINE s == FirstOf(facts.sessions)
  <2>1. Render(t, facts) = Text({Written(s.kwh), Written(s.cost)}, {}, {"completed"},
                                {facts.user.name, s.station})
    BY <1>4, Rendered DEF SessionText
  <2> HIDE DEF s
  <2> QED BY <2>1
<1>5. CASE t = "session_interrupted"
  <2> DEFINE s == FirstOf(facts.sessions)
  <2>1. Render(t, facts) = Text({Written(s.kwh), Written(s.cost)}, {}, {s.status},
                                {facts.user.name, s.station})
    BY <1>5, Rendered DEF SessionText
  <2> HIDE DEF s
  <2> QED BY <2>1
<1> QED BY <1>1, <1>2, <1>3, <1>4, <1>5 DEF ReplyTemplate

LEMMA NameIsKnown ==
  ASSUME RunFits, Replied
  PROVE  \E r \in Of("user") : r.name \in outcome.text.entities
<1> DEFINE facts == Facts(history)
<1>1. PICK t \in ReplyTemplate : /\ history \in Seq(Observations)
                                 /\ CanRender(t, facts)
                                 /\ outcome.text = Render(t, facts)
  BY RepliedIsSent
<1>2. PICK f \in Found(history, "user") : facts.user = f.row
  BY <1>1, UserIsFound DEF CanRender
<1>3. f.row \in Of("user")
  BY <1>1, FoundIsReturned, OneTypeEach
<1> HIDE DEF facts
<1>4. facts.user.name \in Render(t, facts).entities
  BY RenderIsText DEF Text
<1> QED BY <1>1, <1>2, <1>3, <1>4

LEMMA StatusesAreSourced ==
  ASSUME RunFits, Replied, NEW s \in outcome.text.statuses
  PROVE  \E r \in Of("invoice") \union Of("session") : r.status = s
<1> DEFINE facts == Facts(history)
<1>1. PICK t \in ReplyTemplate : /\ history \in Seq(Observations)
                                 /\ Grounded(Render(t, facts), facts, t)
                                 /\ outcome.text = Render(t, facts)
  BY RepliedIsSent
<1>2. PICK a, b, c, d : Render(t, facts) = Text(a, b, c, d)
  BY RenderIsText
<1>3. s \in c /\ c \subseteq AllowedStatuses(facts)
  <2> HIDE DEF facts
  <2>1. Grounded(Text(a, b, c, d), facts, t)
    BY <1>1, <1>2
  <2>2. c \subseteq AllowedStatuses(facts)
    BY <2>1, GroundedMeans
  <2> QED BY <1>1, <1>2, <2>2 DEF Text
<1>4. PICK f \in Found(history, "invoice") \union Found(history, "session") : f.row.status = s
  BY <1>3, FactsAre DEF AllowedStatuses
<1>5. f.row \in Of("invoice") \union Of("session")
  BY <1>1, FoundIsReturned, OneTypeEach
<1> QED BY <1>4, <1>5

LEMMA SentIsSourced ==
  ASSUME NoCoincidence, RunFits
  PROVE  RepliesAreSourced
<1> SUFFICES ASSUME Replied
             PROVE  /\ AboutAnInvoice => \E r \in Of("invoice") : CitesInvoice(r)
                    /\ AboutASession => \E r \in Of("session") : CitesSession(r)
                    /\ \A s \in outcome.text.statuses :
                         \E r \in Of("invoice") \union Of("session") : r.status = s
                    /\ \E r \in Of("user") : r.name \in outcome.text.entities
  BY DEF RepliesAreSourced
<1>1. history \in Seq(Observations)
  BY RepliedIsSent
<1>2. ASSUME AboutAnInvoice PROVE \E r \in Of("invoice") : CitesInvoice(r)
  <2>1. PICK f : /\ IsFirst(f, InvoicesWith(Facts(history), StatusOf(outcome.template)))
                 /\ CitesInvoice(f.row)
    BY <1>2, InvoiceIsCited
  <2>2. f \in Found(history, "invoice")
    BY <2>1, FactsAre DEF IsFirst, InvoicesWith
  <2>3. f.row \in Of("invoice")
    BY <1>1, <2>2, FoundIsReturned, OneTypeEach
  <2> QED BY <2>1, <2>3
<1>3. ASSUME AboutASession PROVE \E r \in Of("session") : CitesSession(r)
  <2>1. PICK f : IsFirst(f, Found(history, "session")) /\ CitesSession(f.row)
    BY <1>3, SessionIsCited
  <2>2. f.row \in Of("session")
    BY <1>1, <2>1, FoundIsReturned, OneTypeEach DEF IsFirst
  <2> QED BY <2>1, <2>2
<1> QED BY <1>2, <1>3, StatusesAreSourced, NameIsKnown

\* Whatever the fixtures, their edits and the model, a reply is about one record a tool
\* returned in the run, with its numbers (guardrails/grounding.py:129-151); given only that no
\* amount is written as another's.
THEOREM RepliesAreAlwaysSourced ==
  ASSUME NoCoincidence
  PROVE  Spec => []RepliesAreSourced
<1>1. RunFits => RepliesAreSourced
  BY SentIsSourced
<1> QED BY <1>1, AlwaysFits, PTL

-----------------------------------------------------------------------------
\* The first of a kind in a history is the newest of the answer it stands in.

LEMMA FirstIsNewest ==
  ASSUME history \in Seq(Observations), NEW F, \A g \in F : StandsIn(g, history),
         NEW f, IsFirst(f, F),
         NEW r \in ToSet(history[f.turn].records), f.row.at <= r.at,
         \A g : StandsIn(g, history) /\ g.turn = f.turn /\ g.row = r => g \in F
  PROVE  r = f.row
<1> DEFINE records == history[f.turn].records
<1>1. StandsIn(f, history)
  BY DEF IsFirst
<1>2. IsAnswer(records, TypeOf(history[f.turn].tool)) /\ f.turn \in 1 .. Len(history)
  BY <1>1, FoundRows DEF Observations, IsObserved, StandsIn
<1>3. PICK k \in 1 .. Len(records) : r = records[k]
  BY <1>2 DEF IsAnswer, ToSet
<1> DEFINE g == [turn |-> f.turn, line |-> k, row |-> r]
<1>4. StandsIn(g, history) /\ g.turn = f.turn /\ g.row = r /\ g.line = k
  BY <1>2, <1>3 DEF StandsIn
<1>5. f = g \/ Before(f, g)
  BY <1>4 DEF IsFirst
<1> HIDE DEF g
<1>6. CASE f = g
  BY <1>4, <1>6
<1>7. CASE Before(f, g)
  <2>1. f.line < k /\ f.line \in 1 .. Len(records) /\ f.row = records[f.line]
    <3>1. f.turn \in Nat
      BY <1>2
    <3> QED BY <1>1, <1>4, <1>7, <3>1 DEF Before, StandsIn
  <2>2. f.row.at > r.at
    BY <1>2, <1>3, <2>1 DEF IsAnswer
  <2>3. f.row.at \in Int /\ r.at \in Int
    BY <1>2, <1>3, <2>1 DEF IsAnswer, Validates
  <2> QED BY <2>2, <2>3
<1> QED BY <1>5, <1>6, <1>7

-----------------------------------------------------------------------------
\* Files at rest: what the tools have returned is what the files hold.

ReadFrom(o, f) ==
  /\ FileOf(f, o.tool, o.user) \notin {Broken, {}}
  /\ o.records = NewestFirst(FileOf(f, o.tool, o.user))

AtRest == edits = 0 => \A n \in 1 .. Len(history) : ReadFrom(history[n], fixtures)

LEMMA OnlyReadsReturn ==
  ASSUME Next
  PROVE  \/ Edit
         \/ ReadRows
         \/ /\ DecideToolCall \/ DecideReply \/ IterationCapReached
               \/ CheckUser \/ CheckUserFails \/ ReadRowsFails \/ Ground
            /\ UNCHANGED <<history, edits, fixtures, client, intent>>
<1>1. CASE DecideToolCall
  BY <1>1 DEF DecideToolCall, Decide
<1>2. CASE DecideReply
  BY <1>2 DEF DecideReply, Decide
<1>3. CASE IterationCapReached
  BY <1>3 DEF IterationCapReached
<1>4. CASE CheckUser
  BY <1>4 DEF CheckUser, Reading
<1>5. CASE CheckUserFails
  BY <1>5 DEF CheckUserFails, Reading
<1>6. CASE ReadRowsFails
  BY <1>6 DEF ReadRowsFails, Reading
<1>7. CASE Ground
  BY <1>7 DEF Ground
<1> QED BY <1>1, <1>2, <1>3, <1>4, <1>5, <1>6, <1>7 DEF Next

LEMMA RestStays ==
  ASSUME RunFits, AtRest, [Next]_vars
  PROVE  AtRest'
<1>1. CASE UNCHANGED <<history, edits, fixtures>>
  BY <1>1 DEF AtRest
<1>2. CASE Edit
  BY <1>2 DEF Edit, AtRest, RunFits
<1>3. CASE ReadRows
  <2> DEFINE o == Answered(NewestFirst(Requested))
  <2>1. /\ pc = "read_rows" /\ Requested \notin {Broken, {}}
        /\ history' = Append(history, o) /\ UNCHANGED <<fixtures, edits>>
    BY <1>3 DEF ReadRows, Goto, Reading
  <2>2. inFlight \in Calls /\ history \in Seq(Observations)
    BY <2>1 DEF RunFits, CallsFit
  <2>4. o \in Observations /\ Requested = FileOf(fixtures, inFlight.tool, inFlight.user)
    BY <2>1, <2>2, CallsAreObserved DEF RunFits
  <2>3. ReadFrom(o, fixtures)
    BY <2>1, <2>4 DEF ReadFrom, Answered
  <2> HIDE DEF o
  <2>5. /\ Len(history') = Len(history) + 1 /\ Len(history) \in Nat
        /\ history'[Len(history) + 1] = o
        /\ \A n \in 1 .. Len(history) : history'[n] = history[n]
    BY <2>1, <2>2, <2>4, AppendedFits
  <2> SUFFICES ASSUME edits = 0, NEW n \in 1 .. Len(history')
               PROVE  ReadFrom(history'[n], fixtures)
    BY <2>1 DEF AtRest
  <2>6. n = Len(history) + 1 \/ n \in 1 .. Len(history)
    BY <2>5
  <2> QED BY <2>3, <2>5, <2>6 DEF AtRest
<1> QED BY <1>1, <1>2, <1>3, OnlyReadsReturn DEF vars

LEMMA AlwaysAtRest == Spec => [](RunFits /\ AtRest)
<1>1. Init => RunFits /\ AtRest
  BY StartFits DEF Init, AtRest
<1>2. RunFits /\ AtRest /\ [Next]_vars => (RunFits /\ AtRest)'
  BY RunStays, RestStays
<1> QED BY <1>1, <1>2, PTL DEF Spec

LEMMA SentIsNewest ==
  ASSUME NoCoincidence, RunFits, AtRest
  PROVE  NewestUnlessEdited
<1> SUFFICES ASSUME Replied, edits = 0
             PROVE  /\ AboutASession =>
                         \E u \in Asked("get_charging_sessions") :
                           \E r \in Newest(fixtures.sessions[u]) : CitesSession(r)
                    /\ AboutAnInvoice =>
                         \E u \in Asked("get_invoices") :
                           \E r \in Newest({ i \in fixtures.invoices[u] :
                                               i.status \in outcome.text.statuses }) : CitesInvoice(r)
  BY DEF NewestUnlessEdited
<1>1. history \in Seq(Observations) /\ fixtures \in Fixtures
  BY RepliedIsSent DEF RunFits
<1> DEFINE UserOf(f) == history[f.turn].user
<1>2. ASSUME NEW t \in Registered, NEW f \in Found(history, TypeOf(t))
      PROVE  /\ ToSet(history[f.turn].records) = FileOf(fixtures, t, UserOf(f))
             /\ f.row \in FileOf(fixtures, t, UserOf(f))
             /\ IsFile(FileOf(fixtures, t, UserOf(f)), TypeOf(t))
             /\ UserOf(f) \in Asked(t)
  <2>1. StandsIn(f, history) /\ history[f.turn].tool = t
    BY <1>1, FoundIsReturned
  <2>2. ReadFrom(history[f.turn], fixtures)
    BY <2>1 DEF AtRest, StandsIn
  <2>3. history[f.turn] \in Observations /\ f.row \in ToSet(history[f.turn].records)
    BY <1>1, <2>1, FoundRows
  <2>4. UserOf(f) \in UserIds
    BY <2>3 DEF Observations
  <2>5. ToSet(history[f.turn].records) = FileOf(fixtures, t, UserOf(f))
    BY <1>1, <2>1, <2>2, <2>4, CallsAreAnswered DEF ReadFrom
  <2>6. IsFile(FileOf(fixtures, t, UserOf(f)), TypeOf(t))
    BY <1>1, <2>1, <2>2, <2>4, FilesValidate DEF ReadFrom
  <2>7. history[f.turn] \in ToSet(history)
    BY <2>1 DEF StandsIn, ToSet
  <2>8. UserOf(f) \in Asked(t)
    BY <2>1, <2>7 DEF Asked
  <2> QED BY <2>3, <2>5, <2>6, <2>8
<1>3. ASSUME AboutASession
      PROVE  \E u \in Asked("get_charging_sessions") :
               \E r \in Newest(fixtures.sessions[u]) : CitesSession(r)
  <2> DEFINE F == Found(history, "session")
  <2>1. PICK f : IsFirst(f, F) /\ CitesSession(f.row)
    BY <1>3, SessionIsCited
  <2> DEFINE u == UserOf(f)
             rows == fixtures.sessions[u]
  <2>2. /\ ToSet(history[f.turn].records) = rows
        /\ f.row \in rows /\ IsFile(rows, "session")
        /\ u \in Asked("get_charging_sessions")
    BY <1>2, <2>1, OneTypeEach, FilesAreRead DEF IsFirst
  <2>3. \A g \in F : StandsIn(g, history)
    BY FoundStands
  <2>4. ASSUME NEW r \in rows PROVE r.at <= f.row.at
    <3>1. r.type = "session" /\ r.at \in Int /\ f.row.at \in Int
      BY <2>2 DEF IsFile, Validates
    <3>2. \A g : StandsIn(g, history) /\ g.turn = f.turn /\ g.row = r => g \in F
      BY <3>1, FoundStands
    <3> HIDE DEF F, rows
    <3>3. f.row.at <= r.at => r = f.row
      BY <1>1, <2>1, <2>2, <2>3, <3>2, FirstIsNewest
    <3> QED BY <3>1, <3>3
  <2>5. f.row \in Newest(rows)
    BY <2>2, <2>4 DEF Newest
  <2> HIDE DEF u
  <2> QED BY <2>1, <2>2, <2>5
<1>4. ASSUME AboutAnInvoice
      PROVE  \E u \in Asked("get_invoices") :
               \E r \in Newest({ i \in fixtures.invoices[u] : i.status \in outcome.text.statuses }) :
                 CitesInvoice(r)
  <2> DEFINE s == StatusOf(outcome.template)
             F == InvoicesWith(Facts(history), s)
  <2>1. outcome.text.statuses = {s}
    BY <1>4, InvoiceIsCited
  <2>2. PICK f : IsFirst(f, F) /\ CitesInvoice(f.row)
    BY <1>4, InvoiceIsCited
  <2> DEFINE u == UserOf(f)
             rows == fixtures.invoices[u]
  <2>3. F = { i \in Found(history, "invoice") : i.row.status = s }
    BY FactsAre DEF InvoicesWith
  <2>4. f \in Found(history, "invoice") /\ f.row.status = s
    BY <2>2, <2>3 DEF IsFirst
  <2>5. /\ ToSet(history[f.turn].records) = rows
        /\ f.row \in rows /\ IsFile(rows, "invoice")
        /\ u \in Asked("get_invoices")
    BY <1>2, <2>4, OneTypeEach, FilesAreRead
  <2>6. \A g \in F : StandsIn(g, history)
    BY <2>3, FoundStands
  <2>7. ASSUME NEW r \in rows, r.status = s PROVE r.at <= f.row.at
    <3>1. r.type = "invoice" /\ r.at \in Int /\ f.row.at \in Int
      BY <2>5 DEF IsFile, Validates
    <3>2. \A g : StandsIn(g, history) /\ g.turn = f.turn /\ g.row = r => g \in F
      BY <2>3, <2>7, <3>1, FoundStands
    <3> HIDE DEF F, rows
    <3>3. f.row.at <= r.at => r = f.row
      BY <1>1, <2>2, <2>5, <2>6, <3>2, FirstIsNewest
    <3> QED BY <3>1, <3>3
  <2> HIDE DEF s
  <2>8. f.row \in Newest({ i \in rows : i.status \in outcome.text.statuses })
    BY <2>1, <2>4, <2>5, <2>7 DEF Newest
  <2> HIDE DEF F, u
  <2> QED BY <2>2, <2>5, <2>8
<1> QED BY <1>3, <1>4

\* With files at rest a reply is about the newest record of its kind of a user the model asked
\* for, however often it repeats a call and whomever it asks for (guardrails/factset.py:64-65);
\* given that no amount is written as another's.
THEOREM NewestIsAlwaysCited ==
  ASSUME NoCoincidence
  PROVE  Spec => []NewestUnlessEdited
<1>1. RunFits /\ AtRest => NewestUnlessEdited
  BY SentIsNewest
<1> QED BY <1>1, AlwaysAtRest, PTL

-----------------------------------------------------------------------------
\* The fake: the user, the intent's rows, a reply.

Wanted == IF Len(history) = 0 THEN "get_user" ELSE DataTool

FakeFits ==
  client = "fake" =>
    /\ Len(history) <= 2
    /\ Len(history) >= 1 => history[1].tool = "get_user"
    /\ Len(history) = 2 => history[2].tool = DataTool
    /\ \A n \in 1 .. Len(history) : history[n].user = TicketUser
    /\ pc \in {"check_user", "read_rows"} =>
         inFlight = [tool |-> Wanted, user |-> TicketUser] /\ Len(history) < 2
    /\ decisions <= Len(history) + 1
    /\ pc = "decide" => decisions = Len(history)
    /\ pc = "ground" \/ outcome.status = "replied" =>
         Len(history) = 2 /\ outcome.template = TemplateFor

LEMMA UpToTwo == \A n \in Nat : (n <= 2 => n = 0 \/ n = 1 \/ n = 2) /\ (n < 2 => n = 0 \/ n = 1)
  OBVIOUS

LEMMA DataToolIs ==
  /\ DataTool \in Registered /\ DataTool # "get_user"
  /\ DataTool \in {"get_invoices", "get_charging_sessions"}
  /\ intent = "billing_question" => DataTool = "get_invoices"
  /\ intent # "billing_question" => DataTool = "get_charging_sessions"
  BY DEF DataTool, Registered

LEMMA FakeStepIs ==
  ASSUME RunFits, FakeFits, client = "fake"
  PROVE  FakeStep = IF Len(history) < 2 THEN Call(Wanted, TicketUser) ELSE ReplyWith(TemplateFor)
<1> DEFINE called == { o.tool : o \in ToSet(history) }
<1>1. history \in Seq(Observations) /\ Len(history) \in Nat /\ Len(history) <= 2
  BY DEF RunFits, CallsFit, FakeFits
<1>2. called = { history[n].tool : n \in 1 .. Len(history) }
  BY <1>1 DEF ToSet
<1>3. FakeStep = IF "get_user" \notin called THEN Call("get_user", TicketUser)
                 ELSE IF DataTool \notin called THEN Call(DataTool, TicketUser) ELSE ReplyWith(TemplateFor)
  BY DEF FakeStep
<1> HIDE DEF called
<1>4. CASE Len(history) = 0
  BY <1>2, <1>3, <1>4 DEF Wanted
<1>5. CASE Len(history) = 1
  <2>1. called = {"get_user"}
    BY <1>2, <1>5 DEF FakeFits
  <2> QED BY <1>3, <1>5, <2>1, DataToolIs DEF Wanted
<1>6. CASE Len(history) = 2
  <2>1. "get_user" \in called /\ DataTool \in called
    BY <1>2, <1>6 DEF FakeFits
  <2> QED BY <1>3, <1>6, <2>1
<1>7. Len(history) = 0 \/ Len(history) = 1 \/ Len(history) = 2
  BY <1>1, UpToTwo
<1> QED BY <1>4, <1>5, <1>6, <1>7

LEMMA TemplateIsOfHistory ==
  ASSUME UNCHANGED <<history, intent>>
  PROVE  TemplateFor' = TemplateFor /\ Wanted' = Wanted /\ DataTool' = DataTool
  BY DEF TemplateFor, FirstResult, Wanted, DataTool

LEMMA FakeStays ==
  ASSUME RunFits, FakeFits, [Next]_vars
  PROVE  FakeFits'
<1>1. CASE client' # "fake"
  BY <1>1 DEF FakeFits
<1>2. CASE client' = "fake"
  <2>1. client = "fake"
    BY <1>2, OnlyReadsReturn DEF vars, Edit, ReadRows, Reading
  <2>2. /\ history \in Seq(Observations) /\ Len(history) \in Nat /\ Len(history) <= 2
        /\ decisions \in Nat
    BY <2>1 DEF RunFits, CallsFit, FakeFits
  <2>3. CASE Edit \/ UNCHANGED vars
    <3>1. UNCHANGED <<client, intent, pc, inFlight, history, decisions, outcome>>
      BY <2>3 DEF Edit, vars
    <3> QED BY <3>1, TemplateIsOfHistory DEF FakeFits
  <2>4. CASE DecideToolCall
    <3>1. PICK step \in Steps : /\ step.decision = "tool_call"
                                /\ pc = "decide"
                                /\ pc' = IF step.tool = "get_user" THEN "read_rows" ELSE "check_user"
                                /\ inFlight' = [tool |-> step.tool, user |-> step.user]
                                /\ UNCHANGED outcome
      BY <2>4 DEF DecideToolCall, Goto
    <3>2. /\ decisions' = decisions + 1
          /\ UNCHANGED <<fixtures, edits, client, intent, history>>
      BY <2>4 DEF DecideToolCall, Decide
    <3>3. Len(history) < 2 /\ step.tool = Wanted /\ step.user = TicketUser
      BY <2>1, <3>1, FakeStepIs DEF Steps, Call, ReplyWith
    <3>4. outcome.status # "replied"
      BY <3>1 DEF RunFits, OutcomeFits, Undecided
    <3> QED BY <2>1, <2>2, <3>1, <3>2, <3>3, <3>4, TemplateIsOfHistory DEF FakeFits
  <2>5. CASE DecideReply
    <3>1. PICK step \in Steps : /\ step.decision = "reply"
                                /\ pc = "decide" /\ pc' = "ground"
                                /\ outcome' = [outcome EXCEPT !.template = step.template]
                                /\ UNCHANGED inFlight
      BY <2>5 DEF DecideReply, Goto
    <3>2. /\ decisions' = decisions + 1
          /\ UNCHANGED <<fixtures, edits, client, intent, history>>
      BY <2>5 DEF DecideReply, Decide
    <3>3. Len(history) = 2 /\ step.template = TemplateFor
      <4>1. ~(Len(history) < 2) /\ step.template = TemplateFor
        BY <2>1, <3>1, FakeStepIs DEF Steps, Call, ReplyWith
      <4>2. Len(history) = 0 \/ Len(history) = 1 \/ Len(history) = 2
        BY <2>2, UpToTwo
      <4> QED BY <4>1, <4>2
    <3>4. outcome = Undecided
      BY <3>1 DEF RunFits, OutcomeFits
    <3>5. outcome'.template = TemplateFor
      BY <3>1, <3>3, <3>4 DEF Undecided
    <3> QED BY <2>1, <2>2, <3>1, <3>2, <3>3, <3>5, TemplateIsOfHistory DEF FakeFits
  <2>6. CASE IterationCapReached \/ CheckUserFails \/ ReadRowsFails
    <3>1. pc' = "end" /\ UNCHANGED <<client, intent, inFlight, history, decisions>>
      BY <2>6 DEF IterationCapReached, CheckUserFails, ReadRowsFails, Goto, Reading
    <3>2. outcome'.status = "handed_off"
      BY <2>6 DEF IterationCapReached, CheckUserFails, ReadRowsFails, Fails, HandOff, Undecided
    <3> QED BY <2>1, <3>1, <3>2, TemplateIsOfHistory DEF FakeFits
  <2>7. CASE CheckUser
    <3>1. /\ pc = "check_user" /\ pc' = "read_rows"
          /\ UNCHANGED <<client, intent, inFlight, history, decisions, outcome>>
      BY <2>7 DEF CheckUser, Goto, Reading
    <3> QED BY <3>1, TemplateIsOfHistory DEF FakeFits
  <2>8. CASE ReadRows
    <3> DEFINE o == Answered(NewestFirst(Requested))
    <3>1. /\ pc = "read_rows" /\ pc' = "decide"
          /\ Requested \notin {Broken, {}}
          /\ history' = Append(history, o)
          /\ UNCHANGED <<fixtures, edits, client, intent, inFlight, decisions, outcome>>
      BY <2>8 DEF ReadRows, Goto, Reading
    <3>2. /\ inFlight = [tool |-> Wanted, user |-> TicketUser]
          /\ Len(history) < 2 /\ inFlight \in Calls
      BY <2>1, <3>1 DEF FakeFits, RunFits, CallsFit
    <3>3. o \in Observations
      BY <3>1, <3>2, CallsAreObserved DEF RunFits
    <3>4. o.tool = Wanted /\ o.user = TicketUser
      BY <3>2 DEF Answered
    <3> HIDE DEF o
    <3>5. /\ Len(history') = Len(history) + 1
          /\ history'[Len(history) + 1] = o
          /\ \A n \in 1 .. Len(history) : history'[n] = history[n]
      BY <2>2, <3>1, <3>3, AppendedFits
    <3>6. decisions = Len(history) + 1
      BY <2>1, <2>2, <3>1 DEF FakeFits, RunFits, CallsFit
    <3>7. outcome'.status # "replied" /\ DataTool' = DataTool
      BY <3>1 DEF RunFits, OutcomeFits, Undecided, DataTool
    <3>8. CASE Len(history) = 0
      BY <2>1, <3>1, <3>4, <3>5, <3>6, <3>7, <3>8 DEF FakeFits, Wanted
    <3>9. CASE Len(history) = 1
      BY <2>1, <3>1, <3>4, <3>5, <3>6, <3>7, <3>9 DEF FakeFits, Wanted
    <3> QED BY <2>2, <3>2, <3>8, <3>9, UpToTwo
  <2>9. CASE Ground
    <3>1. /\ pc = "ground" /\ pc' = "end"
          /\ UNCHANGED <<client, intent, history, decisions>>
      BY <2>9 DEF Ground, Goto
    <3>2. outcome'.status = "replied" => outcome'.template = outcome.template
      <4>1. outcome = [Undecided EXCEPT !.template = outcome.template]
        BY <3>1 DEF RunFits, OutcomeFits, Undecided
      <4> QED BY <2>9, <4>1 DEF Ground, HandOff, Undecided
    <3> QED BY <2>1, <3>1, <3>2, TemplateIsOfHistory DEF FakeFits
  <2> QED BY <2>3, <2>4, <2>5, <2>6, <2>7, <2>8, <2>9 DEF Next
<1> QED BY <1>1, <1>2

LEMMA FakeAlwaysFits == Spec => [](RunFits /\ AtRest /\ FakeFits)
<1>1. Init => RunFits /\ AtRest /\ FakeFits
  <2>1. Init => FakeFits
    BY DEF Init, FakeFits, Undecided
  <2> QED BY <2>1, StartFits DEF Init, AtRest
<1>2. RunFits /\ AtRest /\ FakeFits /\ [Next]_vars => (RunFits /\ AtRest /\ FakeFits)'
  BY RunStays, RestStays, FakeStays
<1> QED BY <1>1, <1>2, PTL DEF Spec

\* The one answer of the intent's tool, when the fake has both.
Data == history[2].records

HasBoth ==
  /\ RunFits /\ FakeFits /\ client = "fake" /\ Len(history) = 2

LEMMA BothAnswers ==
  ASSUME HasBoth
  PROVE  /\ history \in Seq(Observations) /\ Len(history) = 2
         /\ history[1].tool = "get_user" /\ history[2].tool = DataTool
         /\ history[1].user = TicketUser /\ history[2].user = TicketUser
         /\ IsAnswer(history[1].records, "user")
         /\ IsAnswer(Data, TypeOf(DataTool))
         /\ ToSet(history) = {history[1], history[2]}
         /\ ToSet(Data) # {}
<1>1. history \in Seq(Observations) /\ history[1].tool = "get_user" /\ history[2].tool = DataTool
  BY DEF HasBoth, RunFits, CallsFit, FakeFits
<1>2. history[1] \in Observations /\ history[2] \in Observations
  BY <1>1 DEF HasBoth
<1>3. IsAnswer(history[1].records, "user") /\ IsAnswer(Data, TypeOf(DataTool))
  BY <1>1, <1>2, OneTypeEach DEF Observations, IsObserved, Data
<1>4. ToSet(history) = { history[n] : n \in 1 .. 2 }
  BY <1>1 DEF HasBoth, ToSet
<1>5. 1 \in DOMAIN Data
  BY <1>3 DEF IsAnswer
<1>6. ToSet(Data) # {}
  BY <1>5 DEF ToSet
<1>7. history[1].user = TicketUser /\ history[2].user = TicketUser
  BY DEF HasBoth, FakeFits
<1> QED BY <1>1, <1>3, <1>4, <1>6, <1>7 DEF HasBoth

LEMMA FirstIsTheOnly == ASSUME HasBoth PROVE FirstResult(DataTool) = Data
<1> DEFINE Fits(n) == history[n].tool = DataTool /\ \A m \in 1 .. n - 1 : history[m].tool # DataTool
<1>1. \A n \in 1 .. Len(history) : Fits(n) <=> n = 2
  <2>1. Len(history) = 2 /\ history[1].tool # DataTool /\ history[2].tool = DataTool
    BY BothAnswers, DataToolIs
  <2>2. \A n \in 1 .. 2 : n = 1 \/ n = 2
    OBVIOUS
  <2>3. ~Fits(1)
    BY <2>1
  <2>4. Fits(2)
    <3>1. \A m \in 1 .. 2 - 1 : m = 1
      OBVIOUS
    <3> QED BY <2>1, <3>1
  <2> HIDE DEF Fits
  <2> QED BY <2>1, <2>2, <2>3, <2>4
<1>2. (CHOOSE n \in 1 .. Len(history) : Fits(n)) = 2
  <2>1. 2 \in 1 .. Len(history)
    BY DEF HasBoth
  <2> HIDE DEF Fits
  <2> QED BY <1>1, <2>1
<1> QED BY <1>2 DEF FirstResult, Data

\* The facts of the intent's type are the rows of that answer.
LEMMA OnlyData ==
  ASSUME HasBoth
  PROVE  /\ \A f \in Found(history, TypeOf(DataTool)) :
              f.turn = 2 /\ StandsIn(f, history) /\ f.row \in ToSet(Data)
         /\ \A r \in ToSet(Data) : \E f \in Found(history, TypeOf(DataTool)) : f.row = r
         /\ Of(TypeOf(DataTool)) = ToSet(Data)
         /\ \A r \in ToSet(Data) : Validates(r, TypeOf(DataTool))
<1> DEFINE type == TypeOf(DataTool)
<1>1. ASSUME NEW f \in Found(history, type)
      PROVE  f.turn = 2 /\ StandsIn(f, history) /\ f.row \in ToSet(Data)
  <2>1. StandsIn(f, history) /\ history[f.turn].tool = DataTool
    BY BothAnswers, FoundIsReturned, DataToolIs
  <2>2. f.turn \in 1 .. 2
    BY <2>1, BothAnswers DEF StandsIn
  <2>3. f.turn # 1
    BY <2>1, BothAnswers, DataToolIs
  <2>4. f.row \in ToSet(history[f.turn].records)
    BY <2>1, BothAnswers, FoundRows
  <2>5. f.turn = 2
    BY <2>2, <2>3
  <2> QED BY <2>1, <2>4, <2>5 DEF Data
<1>2. \A r \in ToSet(Data) : Validates(r, type) /\ r.type = type
  BY BothAnswers DEF IsAnswer, ToSet, Validates
<1>3. ASSUME NEW r \in ToSet(Data) PROVE \E f \in Found(history, type) : f.row = r
  <2>1. PICK k \in 1 .. Len(Data) : r = Data[k]
    BY BothAnswers DEF IsAnswer, ToSet
  <2> DEFINE f == [turn |-> 2, line |-> k, row |-> r]
  <2>2. StandsIn(f, history) /\ f.row = r
    <3>1. 2 \in 1 .. Len(history)
      BY DEF HasBoth
    <3>2. f.turn = 2 /\ f.line = k /\ f.row = history[2].records[k]
      BY <2>1 DEF Data
    <3>3. f.line \in 1 .. Len(history[f.turn].records)
      BY <2>1, <3>2 DEF Data
    <3>4. f = [turn |-> f.turn, line |-> f.line, row |-> history[f.turn].records[f.line]]
      BY <3>2
    <3> HIDE DEF f
    <3> QED BY <2>1, <3>1, <3>2, <3>3, <3>4 DEF StandsIn, Data
  <2> HIDE DEF f
  <2>3. f \in Found(history, type)
    BY <1>2, <2>2, FoundStands
  <2> QED BY <2>2, <2>3
<1>4. Of(type) = ToSet(Data)
  <2>1. Of(type) = { r \in ToSet(history[1].records) \union ToSet(Data) : r.type = type }
    BY BothAnswers DEF Of, Data
  <2>2. \A r \in ToSet(history[1].records) : r.type = "user"
    BY BothAnswers DEF IsAnswer, ToSet, Validates
  <2>3. type # "user"
    BY DataToolIs, OneTypeEach
  <2> QED BY <1>2, <2>1, <2>2, <2>3
<1> QED BY <1>1, <1>2, <1>3, <1>4

LEMMA FakeTemplates ==
  ASSUME HasBoth
  PROVE  /\ intent = "billing_question" =>
              /\ TypeOf(DataTool) = "invoice"
              /\ \/ /\ TemplateFor = "billing_failed"
                    /\ \E r \in ToSet(Data) : r.status = "failed"
                 \/ /\ TemplateFor = "billing_pending"
                    /\ \A r \in ToSet(Data) : r.status # "failed"
                    /\ \E r \in ToSet(Data) : r.status = "pending"
                 \/ /\ TemplateFor = "billing_all_paid"
                    /\ \A r \in ToSet(Data) : r.status = "paid"
         /\ intent # "billing_question" =>
              /\ TypeOf(DataTool) = "session"
              /\ TemplateFor = IF Data[1].status = "completed"
                               THEN "session_completed" ELSE "session_interrupted"
<1> DEFINE statuses == { r.status : r \in ToSet(Data) }
<1>1. TemplateFor =
        IF intent = "billing_question"
        THEN IF "failed" \in statuses THEN "billing_failed"
             ELSE IF "pending" \in statuses THEN "billing_pending" ELSE "billing_all_paid"
        ELSE IF Data[1].status = "completed" THEN "session_completed" ELSE "session_interrupted"
  <2>1. Head(Data) = Data[1]
    BY BothAnswers DEF IsAnswer
  <2> QED BY <2>1, FirstIsTheOnly DEF TemplateFor
<1>2. \A s : s \in statuses <=> \E r \in ToSet(Data) : r.status = s
  OBVIOUS
<1> HIDE DEF statuses
<1>3. ASSUME intent = "billing_question"
      PROVE  TypeOf(DataTool) = "invoice" /\ \A r \in ToSet(Data) : r.status \in InvoiceStatus
  <2>1. TypeOf(DataTool) = "invoice"
    BY <1>3, DataToolIs, OneTypeEach
  <2> QED BY <2>1, OnlyData DEF Validates
<1>4. intent # "billing_question" => TypeOf(DataTool) = "session"
  BY DataToolIs, OneTypeEach
<1> QED BY <1>1, <1>2, <1>3, <1>4 DEF InvoiceStatus

\* The first of a kind is the newest of the answer.
LEMMA FirstOfData ==
  ASSUME HasBoth, NEW F \in SUBSET Found(history, TypeOf(DataTool)), NEW f, IsFirst(f, F),
         NEW r \in ToSet(Data), f.row.at <= r.at,
         \A g \in Found(history, TypeOf(DataTool)) : g.row = r => g \in F
  PROVE  r = f.row
<1>1. f \in Found(history, TypeOf(DataTool)) /\ history \in Seq(Observations)
  BY BothAnswers DEF IsFirst
<1>2. f.turn = 2 /\ r \in ToSet(history[f.turn].records)
  BY <1>1, OnlyData DEF Data
<1>3. \A g \in F : StandsIn(g, history)
  BY FoundStands
<1>4. \A g : StandsIn(g, history) /\ g.turn = f.turn /\ g.row = r => g \in F
  <2> SUFFICES ASSUME NEW g, StandsIn(g, history), g.row = r PROVE g \in F
    OBVIOUS
  <2>1. g.row.type = TypeOf(DataTool)
    BY OnlyData DEF Validates
  <2> QED BY <2>1, FoundStands
<1> QED BY <1>1, <1>2, <1>3, <1>4, FirstIsNewest

LEMMA FirstDataIsNewest ==
  ASSUME HasBoth, NEW r \in Newest(ToSet(Data))
  PROVE  r = Data[1]
<1>1. IsAnswer(Data, TypeOf(DataTool))
  BY BothAnswers
<1>2. PICK k \in 1 .. Len(Data) : r = Data[k]
  BY <1>1 DEF Newest, IsAnswer, ToSet
<1>3. 1 \in 1 .. Len(Data) /\ Data[1] \in ToSet(Data)
  BY <1>1 DEF IsAnswer, ToSet
<1>4. Data[1].at <= r.at /\ Data[1].at \in Int /\ r.at \in Int
  BY <1>1, <1>2, <1>3 DEF Newest, IsAnswer, Validates
<1>5. 1 < k => Data[1].at > r.at
  BY <1>1, <1>2, <1>3 DEF IsAnswer
<1>6. ~(1 < k)
  BY <1>4, <1>5
<1>7. k = 1
  <2>1. Len(Data) \in Nat
    BY <1>1 DEF IsAnswer
  <2> QED BY <1>6, <2>1
<1> QED BY <1>2, <1>7

LEMMA SentHasBoth ==
  ASSUME RunFits, FakeFits, Replied, client = "fake"
  PROVE  HasBoth /\ outcome.template = TemplateFor
  BY DEF FakeFits, HasBoth, Replied

WithStatus(rows, status) == { i \in rows : i.status = status }

LEMMA FakeInvoiceIsNewest ==
  ASSUME NoCoincidence, RunFits, FakeFits, Replied, client = "fake", AboutAnInvoice
  PROVE  \A r \in Newest(WithStatus(Of("invoice"), StatusOf(outcome.template))) : CitesInvoice(r)
<1> DEFINE s == StatusOf(outcome.template)
           F == InvoicesWith(Facts(history), s)
<1>1. HasBoth /\ outcome.template = TemplateFor
  BY SentHasBoth
<1>2. TypeOf(DataTool) = "invoice"
  BY <1>1, FakeTemplates DEF AboutAnInvoice
<1>3. F = { i \in Found(history, "invoice") : i.row.status = s }
  BY FactsAre DEF InvoicesWith
<1>4. PICK f : IsFirst(f, F) /\ CitesInvoice(f.row)
  BY InvoiceIsCited
<1>5. Of("invoice") = ToSet(Data) /\ \A g \in Found(history, "invoice") : g.row \in ToSet(Data)
  BY <1>1, <1>2, OnlyData
<1> HIDE DEF F, s
<1>6. f.row \in ToSet(Data) /\ f.row.status = s /\ F \in SUBSET Found(history, "invoice")
  BY <1>3, <1>4, <1>5 DEF IsFirst
<1>7. ASSUME NEW r \in Newest(WithStatus(Of("invoice"), s)) PROVE CitesInvoice(r)
  <2>1. r \in ToSet(Data) /\ r.status = s /\ f.row.at <= r.at
    BY <1>5, <1>6, <1>7 DEF Newest, WithStatus
  <2>2. \A g \in Found(history, "invoice") : g.row = r => g \in F
    BY <1>3, <2>1
  <2>3. r = f.row
    BY <1>1, <1>2, <1>4, <1>6, <2>1, <2>2, FirstOfData
  <2> QED BY <1>4, <2>3
<1> QED BY <1>7 DEF s

LEMMA FakeSessionIsNewest ==
  ASSUME NoCoincidence, RunFits, FakeFits, Replied, client = "fake", AboutASession
  PROVE  \A r \in Newest(Of("session")) : CitesSession(r) /\ outcome.text.statuses = {r.status}
<1> DEFINE F == Found(history, "session")
<1>1. HasBoth /\ outcome.template = TemplateFor
  BY SentHasBoth
<1>2. /\ TypeOf(DataTool) = "session"
      /\ TemplateFor = IF Data[1].status = "completed"
                       THEN "session_completed" ELSE "session_interrupted"
  BY <1>1, FakeTemplates DEF AboutASession
<1>3. PICK f : /\ IsFirst(f, F) /\ CitesSession(f.row)
               /\ outcome.text.statuses =
                    IF outcome.template = "session_completed" THEN {"completed"} ELSE {f.row.status}
  BY SessionIsCited
<1>4. Of("session") = ToSet(Data) /\ \A g \in F : g.row \in ToSet(Data)
  BY <1>1, <1>2, OnlyData
<1>5. ASSUME NEW r \in Newest(Of("session"))
      PROVE  CitesSession(r) /\ outcome.text.statuses = {r.status}
  <2>1. r \in ToSet(Data) /\ f.row.at <= r.at
    BY <1>3, <1>4, <1>5 DEF Newest, IsFirst
  <2>2. r = f.row
    <3> HIDE DEF F
    <3>1. \A g \in F : g.row = r => g \in F
      OBVIOUS
    <3>2. F = Found(history, TypeOf(DataTool))
      BY <1>2 DEF F
    <3> QED BY <1>1, <1>3, <2>1, <3>1, <3>2, FirstOfData
  <2>3. r = Data[1]
    BY <1>1, <1>4, <1>5, FirstDataIsNewest
  <2>4. outcome.text.statuses = {r.status}
    BY <1>1, <1>2, <1>3, <2>2, <2>3
  <2> QED BY <1>3, <2>2, <2>4
<1> QED BY <1>5

LEMMA FakeSentIsTrue ==
  ASSUME NoCoincidence, RunFits, FakeFits
  PROVE  FakeRepliesAreTrue
<1> SUFFICES ASSUME Replied, client = "fake" PROVE FakeRepliesAreTrue
  BY DEF FakeRepliesAreTrue
<1>1. HasBoth /\ outcome.template = TemplateFor
  BY SentHasBoth
<1>7. \A o \in ToSet(history) : o.user = TicketUser
  BY <1>1, BothAnswers
<1>2. CASE outcome.template = "billing_all_paid"
  <2>1. TypeOf(DataTool) = "invoice" /\ \A r \in ToSet(Data) : r.status = "paid"
    BY <1>1, <1>2, FakeTemplates
  <2>2. Of("invoice") = ToSet(Data)
    BY <1>1, <2>1, OnlyData
  <2>3. { i \in Of("invoice") : i.status = "paid" } = Of("invoice")
    BY <2>1, <2>2
  <2> QED BY <1>2, <2>3, <1>7 DEF FakeRepliesAreTrue, AboutASession
<1>3. CASE outcome.template = "billing_failed"
  <2>1. \A r \in Newest({ i \in Of("invoice") : i.status = "failed" }) : CitesInvoice(r)
    BY <1>3, FakeInvoiceIsNewest DEF AboutAnInvoice, StatusOf, WithStatus
  <2> QED BY <1>3, <2>1, <1>7 DEF FakeRepliesAreTrue, AboutASession
<1>4. CASE outcome.template = "billing_pending"
  <2>1. \A r \in Newest({ i \in Of("invoice") : i.status = "pending" }) : CitesInvoice(r)
    BY <1>4, FakeInvoiceIsNewest DEF AboutAnInvoice, StatusOf, WithStatus
  <2>2. TypeOf(DataTool) = "invoice" /\ \A r \in ToSet(Data) : r.status # "failed"
    BY <1>1, <1>4, FakeTemplates
  <2>3. { i \in Of("invoice") : i.status = "failed" } = {}
    BY <1>1, <2>2, OnlyData
  <2> QED BY <1>4, <2>1, <2>3, <1>7 DEF FakeRepliesAreTrue, AboutASession
<1>5. CASE outcome.template \in {"session_completed", "session_interrupted"}
  <2>1. \A r \in Newest(Of("session")) : CitesSession(r) /\ outcome.text.statuses = {r.status}
    BY <1>5, FakeSessionIsNewest DEF AboutASession
  <2> QED BY <1>5, <2>1, <1>7 DEF FakeRepliesAreTrue, AboutASession
<1>6. outcome.template \in ReplyTemplate
  BY RepliedIsSent
<1> QED BY <1>2, <1>3, <1>4, <1>5, <1>6 DEF ReplyTemplate

\* What the fake sends is true of what its one call of the intent's tool returned
\* (llm/fake.py:91-122), edits or none; given that no amount is written as another's.
THEOREM FakeRepliesAreAlwaysTrue ==
  ASSUME NoCoincidence
  PROVE  Spec => []FakeRepliesAreTrue
<1>1. RunFits /\ AtRest /\ FakeFits => FakeRepliesAreTrue
  BY FakeSentIsTrue
<1> QED BY <1>1, FakeAlwaysFits, PTL

-----------------------------------------------------------------------------
\* The fake's reply can be rendered, and is refused exactly if the record it cites has an
\* amount that cannot be written.

LEMMA FirstOfDataIsNewest ==
  ASSUME HasBoth, NEW F \in SUBSET Found(history, TypeOf(DataTool)), NEW f, IsFirst(f, F)
  PROVE  \A g \in F : g.row.at <= f.row.at
<1> SUFFICES ASSUME NEW g \in F PROVE g.row.at <= f.row.at
  OBVIOUS
<1>1. f \in Found(history, TypeOf(DataTool)) /\ g \in Found(history, TypeOf(DataTool))
  BY DEF IsFirst
<1>2. f.turn = 2 /\ g.turn = 2 /\ StandsIn(f, history) /\ StandsIn(g, history)
  BY <1>1, OnlyData
<1>3. /\ f.row = Data[f.line] /\ f.line \in 1 .. Len(Data)
      /\ g.row = Data[g.line] /\ g.line \in 1 .. Len(Data)
  BY <1>2 DEF StandsIn, Data
<1>4. IsAnswer(Data, TypeOf(DataTool))
  BY BothAnswers
<1>5. f.row.at \in Int /\ g.row.at \in Int
  BY <1>3, <1>4 DEF IsAnswer, Validates
<1>6. CASE f = g
  BY <1>5, <1>6
<1>7. CASE Before(f, g)
  <2>1. f.line < g.line
    BY <1>2, <1>7 DEF Before
  <2>2. f.row.at > g.row.at
    BY <1>3, <1>4, <2>1 DEF IsAnswer
  <2> QED BY <1>5, <2>2
<1> QED BY <1>6, <1>7 DEF IsFirst

\* If F are the facts of the rows in `rows`, its first is the one newest row.
LEMMA NewestIsFirst ==
  ASSUME HasBoth, NEW F \in SUBSET Found(history, TypeOf(DataTool)), NEW f, IsFirst(f, F),
         NEW rows \in SUBSET ToSet(Data),
         \A g \in Found(history, TypeOf(DataTool)) : g \in F <=> g.row \in rows
  PROVE  Newest(rows) = {f.row}
<1>1. f.row \in rows
  BY DEF IsFirst
<1>2. ASSUME NEW r \in rows PROVE r.at <= f.row.at
  <2>1. PICK g \in Found(history, TypeOf(DataTool)) : g.row = r
    BY OnlyData
  <2>2. g \in F
    BY <2>1
  <2> QED BY <2>1, <2>2, FirstOfDataIsNewest
<1>3. f.row \in Newest(rows)
  BY <1>1, <1>2 DEF Newest
<1>4. ASSUME NEW r \in Newest(rows) PROVE r = f.row
  <2>1. r \in ToSet(Data) /\ f.row.at <= r.at /\ r \in rows
    BY <1>1 DEF Newest
  <2>2. \A g \in Found(history, TypeOf(DataTool)) : g.row = r => g \in F
    BY <2>1
  <2> QED BY <2>1, <2>2, FirstOfData
<1> QED BY <1>3, <1>4

LEMMA UserIsKnown ==
  ASSUME HasBoth
  PROVE  Facts(history).user # None
<1> DEFINE users == Found(history, "user")
           f == [turn |-> 1, line |-> 1, row |-> history[1].records[1]]
<1>1. IsAnswer(history[1].records, "user") /\ history \in Seq(Observations) /\ Len(history) = 2
  BY BothAnswers
<1>2. 1 \in 1 .. Len(history[1].records)
  BY <1>1 DEF IsAnswer
<1>3. StandsIn(f, history) /\ f.row.type = "user"
  <2>1. f.turn = 1 /\ f.line = 1 /\ f.row = history[1].records[1]
    OBVIOUS
  <2>2. f.row.type = "user"
    BY <1>1, <1>2, <2>1 DEF IsAnswer, Validates
  <2> QED BY <1>1, <1>2, <2>2 DEF StandsIn
<1> HIDE DEF f
<1>4. f \in users
  BY <1>3, FoundStands
<1>5. \A g \in users : StandsIn(g, history)
  BY FoundStands
<1> HIDE DEF users
<1>6. PICK g \in users : LastOf(users) = g.row
  BY <1>1, <1>4, <1>5, LastFound
<1>7. g.row # None
  <2>1. StandsIn(g, history)
    BY <1>5
  <2> QED BY <1>1, <2>1, FoundRows DEF Validates
<1>8. Facts(history).user = LastOf(users)
  BY <1>4, FactsAre DEF users
<1> QED BY <1>6, <1>7, <1>8

LEMMA EntitiesAreMasked ==
  ASSUME NEW facts, NEW entities \in SUBSET AllowedEntities(facts)
  PROVE  UNION { NumbersIn[e] : e \in entities \ AllowedEntities(facts) } = {}
<1>1. entities \ AllowedEntities(facts) = {}
  OBVIOUS
<1> QED BY <1>1

LEMMA NameIsAllowed ==
  ASSUME HasBoth
  PROVE  Facts(history).user.name \in AllowedEntities(Facts(history))
<1> DEFINE facts == Facts(history)
<1>1. facts.user # None
  BY UserIsKnown
<1> HIDE DEF facts
<1>2. facts.user.name \in AllowedEntities(facts)
  BY <1>1 DEF AllowedEntities
<1> QED BY <1>2 DEF facts

\* Can be rendered, and whether the check passes.
Passes(t) == CanRender(t, Facts(history)) /\ Grounded(Render(t, Facts(history)), Facts(history), t)

LEMMA AllPaidPasses ==
  ASSUME HasBoth, TemplateFor = "billing_all_paid"
  PROVE  Passes(TemplateFor) /\ Cited(ToSet(Data)) = {}
<1> DEFINE facts == Facts(history)
           t == TemplateFor
<1>1. /\ intent = "billing_question" /\ TypeOf(DataTool) = "invoice"
      /\ \A r \in ToSet(Data) : r.status = "paid"
  BY FakeTemplates
<1>2. CanRender(t, facts)
  BY UserIsKnown DEF CanRender
<1>3. "paid" \in AllowedStatuses(facts)
  <2>1. PICK f \in Found(history, "invoice") : f.row.status = "paid"
    BY <1>1, OnlyData, BothAnswers
  <2>2. f \in facts.invoices
    BY <2>1, FactsAre
  <2> HIDE DEF facts
  <2> QED BY <2>1, <2>2 DEF AllowedStatuses
<1>4. facts.user.name \in AllowedEntities(facts)
  BY NameIsAllowed
<1> HIDE DEF facts
<1>5. Grounded(Text({}, {}, {"paid"}, {facts.user.name}), facts, t)
  <2>1. UNION { NumbersIn[e] : e \in {facts.user.name} \ AllowedEntities(facts) } = {}
    BY <1>4, EntitiesAreMasked
  <2> QED BY <1>3, <2>1, GroundedMeans
<1>6. Render(t, facts) = Text({}, {}, {"paid"}, {facts.user.name})
  BY Rendered
<1>7. Cited(ToSet(Data)) = {}
  <2>1. { r \in ToSet(Data) : r.status = "failed" } = {} /\ { r \in ToSet(Data) : r.status = "pending" } = {}
    BY <1>1
  <2> QED BY <1>1, <2>1 DEF Cited, Newest
<1> QED BY <1>2, <1>5, <1>6, <1>7 DEF Passes, facts

LEMMA InvoiceRefusals ==
  ASSUME NoCoincidence, HasBoth, TemplateFor \in {"billing_failed", "billing_pending"}
  PROVE  /\ CanRender(TemplateFor, Facts(history))
         /\ \E r \in ToSet(Data) : /\ Cited(ToSet(Data)) = {r}
                                   /\ Passes(TemplateFor) <=> ~Unwritable(r)
<1> DEFINE facts == Facts(history)
           t == TemplateFor
           s == StatusOf(t)
           F == InvoicesWith(facts, s)
           rows == { r \in ToSet(Data) : r.status = s }
<1>1. /\ intent = "billing_question" /\ TypeOf(DataTool) = "invoice"
      /\ \E r \in ToSet(Data) : r.status = s
      /\ Cited(ToSet(Data)) = Newest(rows)
  <2>1. CASE t = "billing_failed"
    <3>1. s = "failed"
      BY <2>1 DEF StatusOf
    <3>2. intent = "billing_question" /\ TypeOf(DataTool) = "invoice" /\ \E r \in ToSet(Data) : r.status = "failed"
      BY <2>1, FakeTemplates
    <3>3. { r \in ToSet(Data) : r.status = "failed" } # {}
      BY <3>2
    <3> QED BY <3>1, <3>2, <3>3 DEF Cited
  <2>2. CASE t = "billing_pending"
    <3>1. s = "pending"
      BY <2>2 DEF StatusOf
    <3>2. /\ intent = "billing_question" /\ TypeOf(DataTool) = "invoice"
          /\ \A r \in ToSet(Data) : r.status # "failed"
          /\ \E r \in ToSet(Data) : r.status = "pending"
      BY <2>2, FakeTemplates
    <3>3. { r \in ToSet(Data) : r.status = "failed" } = {}
      BY <3>2
    <3> QED BY <3>1, <3>2, <3>3 DEF Cited
  <2> QED BY <2>1, <2>2
<1>2. history \in Seq(Observations) /\ facts.invoices = Found(history, "invoice")
  BY BothAnswers, FactsAre
<1>3. F = { i \in Found(history, "invoice") : i.row.status = s }
  BY <1>2 DEF InvoicesWith
<1>4. F # {} /\ \A g \in Found(history, "invoice") : g.row \in ToSet(Data)
  BY <1>1, <1>3, OnlyData
<1>5. \A f \in F : StandsIn(f, history) /\ f.row \in Priced /\ f.row.type = "invoice" /\ f.row.status = s
  BY <1>2, <1>3, FoundStands, FoundIsPriced, OneTypeEach
<1>6. facts.user # None /\ facts.user.name \in AllowedEntities(facts)
  BY UserIsKnown, NameIsAllowed
<1>7. CanRender(t, facts)
  <2>1. CASE t = "billing_failed"
    <3>1. s = "failed"
      BY <2>1 DEF StatusOf
    <3> HIDE DEF facts
    <3> QED BY <1>4, <1>6, <2>1, <3>1 DEF CanRender
  <2>2. CASE t = "billing_pending"
    <3>1. s = "pending"
      BY <2>2 DEF StatusOf
    <3> HIDE DEF facts
    <3> QED BY <1>4, <1>6, <2>2, <3>1 DEF CanRender
  <2> QED BY <2>1, <2>2
<1>8. Render(t, facts) = InvoiceText(facts, s, Safe(t))
  <2>1. CASE t = "billing_failed"
    <3>1. s = "failed" /\ Safe(t) = {}
      BY <2>1 DEF StatusOf, Safe
    <3> HIDE DEF facts
    <3> QED BY <2>1, <3>1, Rendered
  <2>2. CASE t = "billing_pending"
    <3>1. s = "pending"
      BY <2>2 DEF StatusOf
    <3> HIDE DEF facts
    <3> QED BY <2>2, <3>1, Rendered
  <2> QED BY <2>1, <2>2
<1> HIDE DEF F
<1>9. PICK f \in F : FirstOf(F) = f.row /\ \A g \in F : f = g \/ Before(f, g)
  BY <1>2, <1>4, <1>5, FirstFound
<1> HIDE DEF s, t
<1>10. Cited(ToSet(Data)) = {f.row} /\ f.row \in ToSet(Data)
  <2>1. F \in SUBSET Found(history, "invoice") /\ IsFirst(f, F)
    BY <1>3, <1>9 DEF IsFirst
  <2>2. \A g \in Found(history, "invoice") : g \in F <=> g.row \in rows
    BY <1>3, <1>4
  <2>3. f.row \in ToSet(Data)
    BY <1>4, <2>1
  <2> HIDE DEF rows
  <2>4. rows \in SUBSET ToSet(Data)
    BY DEF rows
  <2>5. Newest(rows) = {f.row}
    BY <1>1, <2>1, <2>2, <2>4, NewestIsFirst
  <2> QED BY <1>1, <2>3, <2>5
<1> HIDE DEF facts, rows
<1>11. Render(t, facts) = Text({Written(f.row.amount)} \union Safe(t), {f.row.id}, {s}, {facts.user.name})
  BY <1>8, <1>9 DEF InvoiceText, F
<1>12. f \in facts.invoices /\ f.row.status = s
  BY <1>2, <1>3, <1>9
<1>13. f.row.id \in AllowedIdentifiers(facts) /\ s \in AllowedStatuses(facts)
  BY <1>12 DEF AllowedIdentifiers, AllowedStatuses
<1>14. f.row.amount \in AllowedNumbers(facts)
  BY <1>12 DEF AllowedNumbers
<1>15. UNION { NumbersIn[e] : e \in {facts.user.name} \ AllowedEntities(facts) } = {}
  BY <1>6, EntitiesAreMasked
<1>16. Grounded(Render(t, facts), facts, t) <=> Written(f.row.amount) \in AllowedNumbers(facts) \union Safe(t)
  BY <1>11, <1>13, <1>15, GroundedMeans
<1>17. NumbersOf(f.row) = {f.row.amount} /\ f.row \in Priced
  BY <1>5, <1>9 DEF NumbersOf
<1>18. Written(f.row.amount) \in AllowedNumbers(facts) \union Safe(t) <=> Written(f.row.amount) = f.row.amount
  <2>1. ASSUME Written(f.row.amount) \in AllowedNumbers(facts) \union Safe(t)
        PROVE  Written(f.row.amount) = f.row.amount
    BY <1>2, <1>17, <2>1, WrittenAsItself DEF facts
  <2> QED BY <1>14, <2>1
<1>19. Unwritable(f.row) <=> Written(f.row.amount) # f.row.amount
  BY <1>17 DEF Unwritable
<1>20. Passes(t) <=> ~Unwritable(f.row)
  BY <1>7, <1>16, <1>18, <1>19 DEF Passes, facts
<1> QED BY <1>7, <1>10, <1>20 DEF t, facts

LEMMA SessionRefusals ==
  ASSUME NoCoincidence, HasBoth, TemplateFor \in {"session_completed", "session_interrupted"}
  PROVE  /\ CanRender(TemplateFor, Facts(history))
         /\ \E r \in ToSet(Data) : /\ Cited(ToSet(Data)) = {r}
                                   /\ Passes(TemplateFor) <=> ~Unwritable(r)
<1> DEFINE facts == Facts(history)
           t == TemplateFor
           F == Found(history, "session")
<1>1. /\ intent # "billing_question" /\ TypeOf(DataTool) = "session"
      /\ t = IF Data[1].status = "completed" THEN "session_completed" ELSE "session_interrupted"
      /\ Cited(ToSet(Data)) = Newest(ToSet(Data))
  BY FakeTemplates DEF Cited
<1>2. history \in Seq(Observations) /\ facts.sessions = F
  BY BothAnswers, FactsAre
<1>3. F # {} /\ \A g \in F : g.row \in ToSet(Data)
  BY <1>1, OnlyData, BothAnswers
<1>4. \A f \in F : StandsIn(f, history) /\ f.row \in Priced /\ f.row.type = "session"
  BY <1>2, FoundStands, FoundIsPriced, OneTypeEach
<1>5. facts.user # None /\ facts.user.name \in AllowedEntities(facts)
  BY UserIsKnown, NameIsAllowed
<1>6. CanRender(t, facts)
  <2> HIDE DEF facts
  <2> QED BY <1>2, <1>3, <1>5 DEF CanRender
<1> HIDE DEF F
<1>7. PICK f \in F : FirstOf(F) = f.row /\ \A g \in F : f = g \/ Before(f, g)
  BY <1>2, <1>3, <1>4, FirstFound
<1>8. Cited(ToSet(Data)) = {f.row} /\ f.row \in ToSet(Data)
  <2>1. F \in SUBSET Found(history, TypeOf(DataTool)) /\ IsFirst(f, F)
    BY <1>1, <1>7 DEF IsFirst, F
  <2>2. \A g \in Found(history, TypeOf(DataTool)) : g \in F <=> g.row \in ToSet(Data)
    BY <1>1, <1>3 DEF F
  <2>3. Newest(ToSet(Data)) = {f.row}
    BY <2>1, <2>2, NewestIsFirst
  <2> QED BY <1>1, <1>3, <2>3
<1>9. f.row = Data[1]
  BY <1>1, <1>8, FirstDataIsNewest
<1> HIDE DEF facts
<1> DEFINE s == f.row.status
<1>10. Render(t, facts) = SessionText(facts, s)
  <2>1. FirstOf(facts.sessions) = f.row
    BY <1>2, <1>7
  <2>2. CASE Data[1].status = "completed"
    <3>1. t = "session_completed" /\ s = "completed"
      BY <1>1, <1>9, <2>2
    <3> HIDE DEF t, s
    <3> QED BY <3>1, Rendered
  <2>3. CASE Data[1].status # "completed"
    <3>1. t = "session_interrupted"
      BY <1>1, <2>3
    <3> HIDE DEF t
    <3> QED BY <2>1, <3>1, Rendered
  <2> QED BY <2>2, <2>3
<1> HIDE DEF t, s
<1>11. Render(t, facts) = Text({Written(f.row.kwh), Written(f.row.cost)}, {}, {s},
                               {facts.user.name, f.row.station})
  BY <1>2, <1>7, <1>10 DEF SessionText
<1>12. f \in facts.sessions
  BY <1>2, <1>7
<1>13. s \in AllowedStatuses(facts) /\ f.row.station \in AllowedEntities(facts)
  BY <1>12 DEF AllowedStatuses, AllowedEntities, s
<1>14. f.row.kwh \in AllowedNumbers(facts) /\ f.row.cost \in AllowedNumbers(facts)
  BY <1>12 DEF AllowedNumbers
<1>15. UNION { NumbersIn[e] : e \in {facts.user.name, f.row.station} \ AllowedEntities(facts) } = {}
  BY <1>5, <1>13, EntitiesAreMasked
<1>16. Grounded(Render(t, facts), facts, t) <=>
         /\ Written(f.row.kwh) \in AllowedNumbers(facts) \union Safe(t)
         /\ Written(f.row.cost) \in AllowedNumbers(facts) \union Safe(t)
  BY <1>11, <1>13, <1>15, GroundedMeans
<1>17. NumbersOf(f.row) = {f.row.kwh, f.row.cost} /\ f.row \in Priced
  BY <1>4, <1>7 DEF NumbersOf
<1>18. ASSUME NEW n \in NumbersOf(f.row)
       PROVE  Written(n) \in AllowedNumbers(facts) \union Safe(t) <=> Written(n) = n
  <2>1. ASSUME Written(n) \in AllowedNumbers(facts) \union Safe(t) PROVE Written(n) = n
    BY <1>2, <1>17, <2>1, WrittenAsItself DEF facts
  <2> QED BY <1>14, <1>17, <2>1
<1>19. Unwritable(f.row) <=> Written(f.row.kwh) # f.row.kwh \/ Written(f.row.cost) # f.row.cost
  BY <1>17 DEF Unwritable
<1>20. Passes(t) <=> ~Unwritable(f.row)
  BY <1>6, <1>16, <1>17, <1>18, <1>19 DEF Passes, facts
<1> QED BY <1>6, <1>8, <1>20 DEF t, facts

LEMMA CheckDecides ==
  ASSUME NoCoincidence, HasBoth
  PROVE  /\ CanRender(TemplateFor, Facts(history))
         /\ Passes(TemplateFor) <=> ~\E r \in Cited(ToSet(Data)) : Unwritable(r)
         /\ Cited(ToSet(Data)) \subseteq Of("invoice") \union Of("session")
<1>1. TemplateFor \in ReplyTemplate
  BY DEF TemplateFor, ReplyTemplate
<1>2. ToSet(Data) \subseteq Of("invoice") \union Of("session")
  <2>1. TypeOf(DataTool) \in {"invoice", "session"}
    BY DataToolIs, OneTypeEach
  <2> QED BY <2>1, OnlyData
<1>3. CASE TemplateFor = "billing_all_paid"
  BY <1>3, AllPaidPasses DEF Passes
<1>4. CASE TemplateFor \in {"billing_failed", "billing_pending"}
  BY <1>2, <1>4, InvoiceRefusals
<1>5. CASE TemplateFor \in {"session_completed", "session_interrupted"}
  BY <1>2, <1>5, SessionRefusals
<1> QED BY <1>1, <1>3, <1>4, <1>5 DEF ReplyTemplate

-----------------------------------------------------------------------------
\* How a run of the fake ends.

Plan == EndFor(fixtures.users[TicketUser], File(DataTool, TicketUser))

EndFits ==
  client = "fake" /\ pc = "end" =>
    /\ outcome.reason # "ITERATION_CAP_EXCEEDED"
    /\ outcome.reason = "UNGROUNDED_REPLY" => \E r \in Of("invoice") \union Of("session") : Unwritable(r)
    /\ edits = 0 => outcome.reason = Plan

LEMMA PlanIsOfFiles ==
  ASSUME UNCHANGED <<fixtures, intent>>
  PROVE  Plan' = Plan
<1>1. File(DataTool, TicketUser)' = File(DataTool, TicketUser)
  BY DEF File, DataTool
<1> QED BY <1>1 DEF Plan, EndFor, Cited

LEMMA RecordsAreOfHistory ==
  ASSUME UNCHANGED history
  PROVE  \A type : Of(type)' = Of(type)
  BY DEF Of

\* With the files at rest, whoever has called a tool has found its file in order.
LEMMA UserWasFound ==
  ASSUME RunFits, AtRest, FakeFits, client = "fake", edits = 0, Len(history) >= 1
  PROVE  fixtures.users[TicketUser] \notin {Broken, {}}
<1>1. history[1].tool = "get_user" /\ Len(history) \in Nat /\ history[1].user = TicketUser
  BY DEF FakeFits, RunFits, CallsFit
<1>2. 1 \in 1 .. Len(history)
  BY <1>1
<1>3. ReadFrom(history[1], fixtures)
  BY <1>2 DEF AtRest
<1> QED BY <1>1, <1>3, FilesAreRead DEF ReadFrom

LEMMA DataIsTheFile ==
  ASSUME HasBoth, AtRest, edits = 0
  PROVE  File(DataTool, TicketUser) \notin {Broken, {}} /\ ToSet(Data) = File(DataTool, TicketUser)
<1>1. /\ history[2].tool = DataTool /\ history[2].user = TicketUser
      /\ DataTool \in Registered /\ fixtures \in Fixtures /\ TicketUser \in UserIds
  BY BothAnswers, DataToolIs, GroundedRunAssumption DEF HasBoth, RunFits
<1>2. ReadFrom(history[2], fixtures)
  <2>1. 2 \in 1 .. Len(history)
    BY DEF HasBoth
  <2> QED BY <2>1 DEF AtRest
<1>3. /\ File(DataTool, TicketUser) = FileOf(fixtures, DataTool, TicketUser)
      /\ FileOf(fixtures, DataTool, TicketUser) \notin {Broken, {}}
      /\ Data = NewestFirst(FileOf(fixtures, DataTool, TicketUser))
  BY <1>1, <1>2, FilesAreRead DEF ReadFrom, Data
<1> QED BY <1>1, <1>3, CallsAreAnswered

LEMMA CapIsOutOfReach ==
  ASSUME MaxIterations >= 3, RunFits, FakeFits, client = "fake"
  PROVE  ~IterationCapReached
<1> SUFFICES ASSUME IterationCapReached PROVE FALSE
  OBVIOUS
<1>1. pc = "decide" /\ decisions = MaxIterations
  BY DEF IterationCapReached, Goto
<1>2. decisions = Len(history) /\ Len(history) <= 2 /\ Len(history) \in Nat
  BY <1>1 DEF FakeFits, RunFits, CallsFit
<1>3. MaxIterations \in Nat
  BY GroundedRunAssumption
<1> QED BY <1>1, <1>2, <1>3

LEMMA LoadersFailAsPlanned ==
  ASSUME RunFits, AtRest, FakeFits, client = "fake", CheckUserFails \/ ReadRowsFails
  PROVE  /\ outcome'.reason \in {"TOOL_ERROR", "USER_NOT_FOUND", "DATA_NOT_FOUND"}
         /\ edits = 0 => outcome'.reason = Plan
<1>1. ASSUME NEW file, NEW empty, Fails(file, empty)
      PROVE  \/ file = Broken /\ outcome'.reason = "TOOL_ERROR"
             \/ file = {} /\ outcome'.reason = empty
  BY <1>1 DEF Fails, HandOff, Undecided
<1>2. Len(history) \in Nat /\ Broken # {}
  BY GroundedRunAssumption DEF RunFits, CallsFit
<1>3. CASE CheckUserFails
  <2>0. pc = "check_user"
    BY <1>3 DEF CheckUserFails, Goto
  <2>2. inFlight = [tool |-> Wanted, user |-> TicketUser] /\ Wanted # "get_user"
    BY <2>0 DEF FakeFits, RunFits, CallsFit
  <2>1. Fails(fixtures.users[TicketUser], "USER_NOT_FOUND")
    BY <1>3, <2>2 DEF CheckUserFails
  <2>3. Len(history) >= 1
    BY <1>2, <2>2 DEF Wanted
  <2>4. edits # 0
    BY <1>1, <2>1, <2>3, UserWasFound
  <2> QED BY <1>1, <2>1, <2>4
<1>4. CASE ReadRowsFails
  <2>1. /\ Fails(Requested, IF inFlight.tool = "get_user" THEN "USER_NOT_FOUND" ELSE "DATA_NOT_FOUND")
        /\ pc = "read_rows"
    BY <1>4 DEF ReadRowsFails, Goto
  <2>2. inFlight.tool = Wanted /\ Requested = File(Wanted, TicketUser)
    BY <2>1 DEF FakeFits, Requested
  <2>3. CASE Len(history) = 0
    <3>1. inFlight.tool = "get_user" /\ Requested = fixtures.users[TicketUser]
      BY <2>2, <2>3 DEF Wanted, File
    <3>2. \/ fixtures.users[TicketUser] = Broken /\ outcome'.reason = "TOOL_ERROR"
          \/ fixtures.users[TicketUser] = {} /\ outcome'.reason = "USER_NOT_FOUND"
      BY <1>1, <2>1, <3>1
    <3> QED BY <1>2, <3>2 DEF Plan, EndFor
  <2>4. CASE Len(history) >= 1
    <3>1. inFlight.tool # "get_user" /\ Requested = File(DataTool, TicketUser)
      BY <1>2, <2>2, <2>4, DataToolIs DEF Wanted
    <3>2. \/ File(DataTool, TicketUser) = Broken /\ outcome'.reason = "TOOL_ERROR"
          \/ File(DataTool, TicketUser) = {} /\ outcome'.reason = "DATA_NOT_FOUND"
      BY <1>1, <2>1, <3>1
    <3>3. edits = 0 => fixtures.users[TicketUser] # Broken /\ fixtures.users[TicketUser] # {}
      BY <2>4, UserWasFound
    <3> QED BY <1>2, <3>2, <3>3 DEF Plan, EndFor
  <2> QED BY <1>2, <2>3, <2>4
<1> QED BY <1>3, <1>4

LEMMA CheckEndsAsPlanned ==
  ASSUME NoCoincidence, RunFits, AtRest, FakeFits, client = "fake", Ground
  PROVE  /\ outcome'.reason # "ITERATION_CAP_EXCEEDED"
         /\ outcome'.reason = "UNGROUNDED_REPLY" =>
              \E r \in Of("invoice") \union Of("session") : Unwritable(r)
         /\ edits = 0 => outcome'.reason = Plan
<1> DEFINE Refused == \E r \in Cited(ToSet(Data)) : Unwritable(r)
<1>1. pc = "ground"
  BY DEF Ground, Goto
<1>2. HasBoth /\ outcome.template = TemplateFor
  BY <1>1 DEF HasBoth, FakeFits
<1>3. outcome.reason = None /\ outcome = [Undecided EXCEPT !.template = outcome.template]
  BY <1>1 DEF RunFits, OutcomeFits, Undecided
<1>4. /\ CanRender(TemplateFor, Facts(history))
      /\ Passes(TemplateFor) <=> ~Refused
      /\ Cited(ToSet(Data)) \subseteq Of("invoice") \union Of("session")
  BY <1>2, CheckDecides
<1>5. \/ ~Passes(TemplateFor) /\ HandOff("UNGROUNDED_REPLY")
      \/ Passes(TemplateFor) /\ outcome'.reason = None
  BY <1>2, <1>3, <1>4 DEF Ground, Passes, Undecided
<1> HIDE DEF Refused
<1>6. outcome'.reason = IF Refused THEN "UNGROUNDED_REPLY" ELSE None
  BY <1>4, <1>5 DEF HandOff, Undecided
<1>7. None # "ITERATION_CAP_EXCEEDED" /\ None # "UNGROUNDED_REPLY"
  BY NoneAssumption DEF HandoffReason
<1>8. edits = 0 => Plan = IF Refused THEN "UNGROUNDED_REPLY" ELSE None
  <2> SUFFICES ASSUME edits = 0 PROVE Plan = IF Refused THEN "UNGROUNDED_REPLY" ELSE None
    OBVIOUS
  <2>1. fixtures.users[TicketUser] \notin {Broken, {}}
    BY <1>2, UserWasFound DEF HasBoth
  <2>2. File(DataTool, TicketUser) \notin {Broken, {}} /\ ToSet(Data) = File(DataTool, TicketUser)
    BY <1>2, DataIsTheFile
  <2> QED BY <2>1, <2>2 DEF Plan, EndFor, Refused
<1> QED BY <1>4, <1>6, <1>7, <1>8 DEF Refused

LEMMA EndStays ==
  ASSUME NoCoincidence, MaxIterations >= 3, RunFits, AtRest, FakeFits, EndFits, [Next]_vars
  PROVE  EndFits'
<1> SUFFICES ASSUME client' = "fake", pc' = "end" PROVE EndFits'
  BY DEF EndFits
<1>1. CASE UNCHANGED vars
  <2>1. UNCHANGED <<fixtures, edits, client, intent, pc, history, outcome>>
    BY <1>1 DEF vars
  <2> QED BY <2>1, PlanIsOfFiles, RecordsAreOfHistory DEF EndFits
<1>2. CASE CheckUserFails \/ ReadRowsFails
  <2>1. UNCHANGED <<fixtures, edits, client, intent, history>>
    BY <1>2 DEF CheckUserFails, ReadRowsFails, Reading
  <2>2. /\ outcome'.reason \in {"TOOL_ERROR", "USER_NOT_FOUND", "DATA_NOT_FOUND"}
        /\ edits = 0 => outcome'.reason = Plan
    BY <1>2, <2>1, LoadersFailAsPlanned
  <2> QED BY <2>1, <2>2, PlanIsOfFiles DEF EndFits
<1>3. CASE Ground
  <2>1. UNCHANGED <<fixtures, edits, client, intent, history>>
    BY <1>3 DEF Ground
  <2>2. /\ outcome'.reason # "ITERATION_CAP_EXCEEDED"
        /\ outcome'.reason = "UNGROUNDED_REPLY" =>
             \E r \in Of("invoice") \union Of("session") : Unwritable(r)
        /\ edits = 0 => outcome'.reason = Plan
    BY <1>3, <2>1, CheckEndsAsPlanned
  <2> QED BY <2>1, <2>2, PlanIsOfFiles, RecordsAreOfHistory DEF EndFits
<1>4. CASE IterationCapReached
  <2>1. client = "fake"
    BY <1>4 DEF IterationCapReached
  <2> QED BY <1>4, <2>1, CapIsOutOfReach
<1>5. CASE Edit \/ DecideToolCall \/ DecideReply \/ CheckUser \/ ReadRows
  BY <1>5 DEF Edit, DecideToolCall, DecideReply, CheckUser, ReadRows, Goto
<1> QED BY <1>1, <1>2, <1>3, <1>4, <1>5 DEF Next

LEMMA FakeFitsThePlan ==
  ASSUME RunFits, FakeFits, EndFits
  PROVE  FakeEndsAsPlanned
<1> SUFFICES ASSUME client = "fake" PROVE FakeEndsAsPlanned
  BY DEF FakeEndsAsPlanned
<1>1. decisions <= 3
  <2>1. decisions <= Len(history) + 1 /\ Len(history) <= 2 /\ Len(history) \in Nat /\ decisions \in Nat
    BY DEF FakeFits, RunFits, CallsFit
  <2> QED BY <2>1
<1>2. pc # "end" => outcome.reason = None
  BY DEF RunFits, OutcomeFits, Undecided
<1>3. None # "ITERATION_CAP_EXCEEDED" /\ None # "UNGROUNDED_REPLY"
  BY NoneAssumption DEF HandoffReason
<1> QED BY <1>1, <1>2, <1>3 DEF FakeEndsAsPlanned, EndFits, Plan

\* With room for its three decisions the fake never meets the cap, and with the files at rest
\* they say how its run ends (llm/fake.py:11, guardrails/grounding.py:31); given that no amount
\* is written as another's.
THEOREM FakeAlwaysEndsAsPlanned ==
  ASSUME NoCoincidence, MaxIterations >= 3
  PROVE  Spec => []FakeEndsAsPlanned
<1>1. Init => EndFits
  BY DEF Init, EndFits
<1>2. RunFits /\ AtRest /\ FakeFits /\ EndFits /\ [Next]_vars => EndFits'
  BY EndStays
<1>3. RunFits /\ FakeFits /\ EndFits => FakeEndsAsPlanned
  BY FakeFitsThePlan
<1> QED BY <1>1, <1>2, <1>3, FakeAlwaysFits, PTL DEF Spec
================================================================================
