------------------------------ MODULE DemoPage ------------------------------
(***************************************************************************)
(* The demo page (demo/static/app.js) against the ticket API: the ids a    *)
(* browser holds and keeps in localStorage, the tickets it shows, and the  *)
(* requests that read them.                                                *)
(*                                                                         *)
(* A request is answered (a snapshot of the server) and delivered (the     *)
(* code after its `await`) in separate steps: answers come late and out of *)
(* order, fail, or are lost.  Rendering and the selection are left out.    *)
(***************************************************************************)
EXTENDS Naturals, Sequences, SequencesExt

CONSTANTS
  Tabs,        \* the browser's open pages
  Ids,         \* the ids of tickets
  Others,      \* those of other clients' tickets
  None,
  PollLimit,   \* POLL_LIMIT
  Scenarios,   \* how many scenarios "seed" submits
  MaxTrouble   \* bound on the requests that fail, the tickets the server loses, the loads
               \* of a page after the first, and the uses of "forget" and "open by id"

ASSUME PageAssumption ==
  /\ None \notin Ids \union {"processing", "done", "gone", "failed"}
  /\ Others \subseteq Ids
  /\ PollLimit \in Nat
  /\ Scenarios \in Nat \ {0}
  /\ MaxTrouble \in Nat

VARIABLES
  status,  \* status[i]: ticket i at the server
  stored,  \* the list in localStorage, which all tabs share
  page,    \* page[t]: whether `start` has read the scenarios
  held,    \* held[t]: the list of the tab, oldest first
  shown,   \* shown[t][i]: the status in the tab's map of tickets
  post,    \* post[t][b]: the submission button b is disabled for
  chain,   \* chain[t][<<c, i>>]: the reads of ticket i that `start` or `send` began
  lookup,  \* lookup[t][n]: the read that "open by id" began as the n-th trouble; as the
           \* button is never disabled there may be several
  given,   \* history: the ids the browser was answered since it last forgot all
  failed,  \* history: the ids a read of which has failed
  trouble  \* how many of the bounded things have happened

tabs == <<held, shown, post, chain, lookup, page>>
vars == <<status, stored, tabs, given, failed, trouble>>

Buttons == {"submit", "seed"}
Origins == {"start", "send"}
Turns == 1 .. MaxTrouble

Idle == [at |-> "idle", id |-> None, left |-> 0]
NoRead == [at |-> "none", attempt |-> 0, answer |-> None]
NoLookup == [id |-> None, answer |-> None]

Reading(k) == [at |-> "reading", attempt |-> k, answer |-> None]

Seen == {"processing", "done"}
Outcomes == Seen \union {"gone", "failed"}

TypeOK ==
  /\ status \in [Ids -> Seen \union {"unused", "gone"}]
  /\ stored \in Seq(Ids)
  /\ page \in [Tabs -> {"loading", "ready", "broken"}]
  /\ held \in [Tabs -> Seq(Ids)]
  /\ shown \in [Tabs -> [Ids -> Seen \union {None}]]
  /\ post \in [Tabs -> [Buttons -> [at : {"idle", "asking", "created", "waiting"},
                                    id : Ids \union {None}, left : 0 .. Scenarios]]]
  /\ chain \in [Tabs -> [Origins \X Ids -> [at : {"none", "reading", "answered", "timer"},
                                            attempt : 0 .. PollLimit,
                                            answer : Outcomes \union {None}]]]
  /\ lookup \in [Tabs -> [Turns -> [id : Ids \union {None}, answer : Outcomes \union {None}]]]
  /\ given \in SUBSET Ids
  /\ failed \in SUBSET Ids
  /\ trouble \in 0 .. MaxTrouble

Fresh == [i \in Ids |-> None]
NoLookups == [n \in Turns |-> NoLookup]
Quiet == [ci \in Origins \X Ids |-> NoRead]

Init ==
  /\ status = [i \in Ids |-> IF i \in Others THEN "processing" ELSE "unused"]
  /\ stored = <<>>
  /\ page = [t \in Tabs |-> "loading"]
  /\ held = [t \in Tabs |-> <<>>]
  /\ shown = [t \in Tabs |-> Fresh]
  /\ post = [t \in Tabs |-> [b \in Buttons |-> Idle]]
  /\ chain = [t \in Tabs |-> Quiet]
  /\ lookup = [t \in Tabs |-> NoLookups]
  /\ given = {}
  /\ failed = {}
  /\ trouble = 0

Trouble == trouble < MaxTrouble /\ trouble' = trouble + 1

-----------------------------------------------------------------------------
\* The lists.

Holds(t, i) == \E n \in 1 .. Len(held[t]) : held[t][n] = i

Saves(t, list) == held' = [held EXCEPT ![t] = list] /\ stored' = list

Remember(t, i) == Saves(t, Append(held[t], i)) /\ given' = given \union {i}

Without(list, i) ==
  FoldLeft(LAMBDA kept, j : IF j = i THEN kept ELSE Append(kept, j), <<>>, list)

Forget(t, i) == Saves(t, Without(held[t], i))

Shows(t, i, s) == shown' = [shown EXCEPT ![t][i] = s]

-----------------------------------------------------------------------------
\* The server, and the requests on their way to it.

ReadOf(i) == IF status[i] \in Seen THEN status[i] ELSE "gone"

Finish(i) ==
  /\ status[i] = "processing"
  /\ status' = [status EXCEPT ![i] = "done"]
  /\ UNCHANGED <<stored, tabs, given, failed, trouble>>

Wipe(i) ==
  /\ status[i] \in Seen
  /\ status' = [status EXCEPT ![i] = "gone"]
  /\ Trouble
  /\ UNCHANGED <<stored, tabs, given, failed>>

Answer(t, c, i) ==
  /\ chain[t][<<c, i>>].at = "reading"
  /\ \E a \in {ReadOf(i), "failed"} :
       /\ chain' = [chain EXCEPT ![t][<<c, i>>].at = "answered", ![t][<<c, i>>].answer = a]
       /\ IF a = "failed" THEN Trouble ELSE UNCHANGED trouble
  /\ UNCHANGED <<status, stored, held, shown, post, lookup, page, given, failed>>

AnswerLookup(t, n) ==
  /\ lookup[t][n].id # None /\ lookup[t][n].answer = None
  /\ \E a \in {ReadOf(lookup[t][n].id), "failed"} :
       /\ lookup' = [lookup EXCEPT ![t][n].answer = a]
       /\ IF a = "failed" THEN Trouble ELSE UNCHANGED trouble
  /\ UNCHANGED <<status, stored, held, shown, post, chain, page, given, failed>>

\* POST /tickets.  Its answer may be lost: then nobody knows the id.
CreateTicket(t, b) ==
  /\ post[t][b].at = "asking"
  /\ \E i \in Ids :
       /\ status[i] = "unused"
       /\ status' = [status EXCEPT ![i] = "processing"]
       /\ \/ /\ post' = [post EXCEPT ![t][b].at = "created", ![t][b].id = i]
             /\ UNCHANGED trouble
          \/ /\ post' = [post EXCEPT ![t][b] = Idle]
             /\ Trouble
  /\ UNCHANGED <<stored, held, shown, chain, lookup, page, given, failed>>

\* Nor may there be an id left to give out, the bound of the instance.
CreateFails(t, b) ==
  /\ post[t][b].at = "asking"
  /\ post' = [post EXCEPT ![t][b] = Idle]
  /\ IF \E i \in Ids : status[i] = "unused" THEN Trouble ELSE UNCHANGED trouble
  /\ UNCHANGED <<status, stored, held, shown, chain, lookup, page, given, failed>>

-----------------------------------------------------------------------------
\* poll

Follows(t, c, i, read) == chain' = [chain EXCEPT ![t][<<c, i>>] = read]

\* What the button that waits for the first read of i does when that read is over: the
\* seeding goes on to its next scenario, or stops at the first error.
ReleasesButton(t, c, i, ok) ==
  post' = [post EXCEPT ![t] = [b \in Buttons |->
    LET p == post[t][b] IN
    IF ~(c = "send" /\ chain[t][<<c, i>>].attempt = 0 /\ p.at = "waiting" /\ p.id = i) THEN p
    ELSE IF ok /\ p.left > 0 THEN [at |-> "asking", id |-> None, left |-> p.left - 1]
    ELSE Idle]]

\* A ticket has come; it is read again unless next is NoRead.
Polls(t, c, i, next) ==
  LET r == chain[t][<<c, i>>] IN
  /\ r.at = "answered" /\ r.answer \in Seen
  /\ Shows(t, i, r.answer)
  /\ Follows(t, c, i, next)
  /\ ReleasesButton(t, c, i, TRUE)
  /\ UNCHANGED <<status, lookup, page, given, failed, trouble>>

In(k) == [at |-> "timer", attempt |-> k, answer |-> None]

Again(r, limit) ==
  IF r.answer = "processing" /\ r.attempt < limit THEN In(r.attempt + 1) ELSE NoRead

\* Bugs: a read too many; no limit; no read after the first; a ticket that is not in the
\* list is put there.
PollOnceMore(t, c, i) ==
  /\ Polls(t, c, i, Again(chain[t][<<c, i>>], PollLimit + 1))
  /\ UNCHANGED <<held, stored>>

PollForEver(t, c, i) ==
  /\ Polls(t, c, i, IF chain[t][<<c, i>>].answer = "processing" THEN In(PollLimit) ELSE NoRead)
  /\ UNCHANGED <<held, stored>>

PollOnce(t, c, i) ==
  /\ Polls(t, c, i, NoRead)
  /\ UNCHANGED <<held, stored>>

PollRemembers(t, c, i) ==
  /\ Polls(t, c, i, Again(chain[t][<<c, i>>], PollLimit))
  /\ IF Holds(t, i) THEN UNCHANGED <<held, stored>> ELSE Saves(t, Append(held[t], i))

Poll(t, c, i) ==
  /\ Polls(t, c, i, Again(chain[t][<<c, i>>], PollLimit))
  /\ UNCHANGED <<held, stored>>

Timeout(t, c, i) ==
  /\ chain[t][<<c, i>>].at = "timer"
  /\ Follows(t, c, i, Reading(chain[t][<<c, i>>].attempt))
  /\ UNCHANGED <<status, stored, held, shown, post, lookup, page, given, failed, trouble>>

\* The read that `start` began drops the id, any other leaves a message.
PollRaises(t, c, i) ==
  LET r == chain[t][<<c, i>>] IN
  /\ r.at = "answered" /\ r.answer \notin Seen
  /\ IF c = "start" /\ r.attempt = 0
     THEN Forget(t, i) /\ Shows(t, i, None)
     ELSE UNCHANGED <<held, stored, shown>>
  /\ Follows(t, c, i, NoRead)
  /\ ReleasesButton(t, c, i, FALSE)
  /\ failed' = failed \union {i}
  /\ UNCHANGED <<status, lookup, page, given, trouble>>

-----------------------------------------------------------------------------
\* send, behind its two buttons

Submit(t) ==
  /\ post[t]["submit"] = Idle
  /\ \E i \in Ids : status[i] = "unused"
  /\ post' = [post EXCEPT ![t]["submit"].at = "asking"]
  /\ UNCHANGED <<status, stored, held, shown, chain, lookup, page, given, failed, trouble>>

Seed(t) ==
  /\ page[t] = "ready"
  /\ post[t]["seed"] = Idle
  /\ \E i \in Ids : status[i] = "unused"
  /\ post' = [post EXCEPT ![t]["seed"] = [at |-> "asking", id |-> None, left |-> Scenarios - 1]]
  /\ UNCHANGED <<status, stored, held, shown, chain, lookup, page, given, failed, trouble>>

\* Bug: the ticket is shown and read, its id is left to be remembered with the answer.
SendRemembersLast(t, b) ==
  LET i == post[t][b].id IN
  /\ post[t][b].at = "created"
  /\ given' = given \union {i}
  /\ Shows(t, i, "processing")
  /\ post' = [post EXCEPT ![t][b].at = "waiting"]
  /\ Follows(t, "send", i, Reading(0))
  /\ UNCHANGED <<status, stored, held, lookup, page, failed, trouble>>

Send(t, b) ==
  LET i == post[t][b].id IN
  /\ post[t][b].at = "created"
  /\ Remember(t, i)
  /\ Shows(t, i, "processing")
  /\ post' = [post EXCEPT ![t][b].at = "waiting"]
  /\ Follows(t, "send", i, Reading(0))
  /\ UNCHANGED <<status, lookup, page, failed, trouble>>

-----------------------------------------------------------------------------
\* "open by id" and "forget"

\* An id can be typed in once somebody has been told of it.
Known(i) ==
  /\ status[i] # "unused"
  /\ \A t \in Tabs, b \in Buttons : ~(post[t][b].at = "created" /\ post[t][b].id = i)

Lookup(t, i) ==
  /\ Known(i)
  /\ Trouble
  /\ lookup' = [lookup EXCEPT ![t][trouble'].id = i]
  /\ UNCHANGED <<status, stored, held, shown, post, chain, page, given, failed>>

Open(t, n) ==
  LET i == lookup[t][n].id IN
  /\ lookup[t][n].answer \in Seen
  /\ IF Holds(t, i) THEN UNCHANGED <<held, stored, given>> ELSE Remember(t, i)
  /\ Shows(t, i, lookup[t][n].answer)
  /\ lookup' = [lookup EXCEPT ![t][n] = NoLookup]
  /\ UNCHANGED <<status, post, chain, page, failed, trouble>>

OpenRaises(t, n) ==
  /\ lookup[t][n].answer \in {"gone", "failed"}
  /\ lookup' = [lookup EXCEPT ![t][n] = NoLookup]
  /\ UNCHANGED <<status, stored, held, shown, post, chain, page, given, failed, trouble>>

ForgetAll(t) ==
  /\ Trouble
  /\ Saves(t, <<>>)
  /\ shown' = [shown EXCEPT ![t] = Fresh]
  /\ given' = {}
  /\ UNCHANGED <<status, post, chain, lookup, page, failed>>

-----------------------------------------------------------------------------
\* start: the scenarios, then a read of every id that is held.

Load(t) ==
  /\ page[t] = "loading"
  /\ page' = [page EXCEPT ![t] = "ready"]
  /\ chain' = [chain EXCEPT ![t] = [ci \in Origins \X Ids |->
       IF ci[1] = "start" /\ Holds(t, ci[2]) THEN Reading(0) ELSE chain[t][ci]]]
  /\ UNCHANGED <<status, stored, held, shown, post, lookup, given, failed, trouble>>

LoadFails(t) ==
  /\ page[t] = "loading"
  /\ page' = [page EXCEPT ![t] = "broken"]
  /\ Trouble
  /\ UNCHANGED <<status, stored, held, shown, post, chain, lookup, given, failed>>

\* What was under way is gone with the page.
Reload(t) ==
  /\ Trouble
  /\ page' = [page EXCEPT ![t] = "loading"]
  /\ held' = [held EXCEPT ![t] = stored]
  /\ shown' = [shown EXCEPT ![t] = Fresh]
  /\ post' = [post EXCEPT ![t] = [b \in Buttons |-> Idle]]
  /\ chain' = [chain EXCEPT ![t] = Quiet]
  /\ lookup' = [lookup EXCEPT ![t] = NoLookups]
  /\ UNCHANGED <<status, stored, given, failed>>

-----------------------------------------------------------------------------
\* What goes on without the user.
Answers(t) ==
  \/ \E c \in Origins, i \in Ids : Answer(t, c, i)
  \/ \E n \in Turns : AnswerLookup(t, n)
  \/ \E b \in Buttons : CreateTicket(t, b) \/ CreateFails(t, b)

Resumes(t) ==
  \/ \E c \in Origins, i \in Ids : Poll(t, c, i) \/ Timeout(t, c, i) \/ PollRaises(t, c, i)
  \/ \E b \in Buttons : Send(t, b)
  \/ \E n \in Turns : Open(t, n) \/ OpenRaises(t, n)
  \/ Load(t) \/ LoadFails(t)

User(t) ==
  Submit(t) \/ Seed(t) \/ ForgetAll(t) \/ Reload(t) \/ \E i \in Ids : Lookup(t, i)

Next ==
  \/ \E i \in Ids : Finish(i) \/ Wipe(i)
  \/ \E t \in Tabs : Answers(t) \/ Resumes(t) \/ User(t)

Spec == Init /\ [][Next]_vars

\* Every request is answered or fails, every answer is delivered, every timer fires; nothing
\* makes a ticket finish.
FairSpec ==
  /\ Spec
  /\ \A t \in Tabs :
       /\ \A c \in Origins, i \in Ids :
            WF_vars(Answer(t, c, i) \/ Poll(t, c, i) \/ Timeout(t, c, i) \/ PollRaises(t, c, i))
       /\ \A b \in Buttons : WF_vars(CreateTicket(t, b) \/ CreateFails(t, b) \/ Send(t, b))
       /\ WF_vars(\E n \in Turns : AnswerLookup(t, n) \/ Open(t, n) \/ OpenRaises(t, n))
       /\ WF_vars(Load(t) \/ LoadFails(t))
==============================================================================
