----------------------------- MODULE TicketStore -----------------------------
(***************************************************************************)
(* What storage/protocol.py promises: create, get and finalise happen one  *)
(* at a time, each wholly or not at all, and a call that raised did        *)
(* nothing.  A call is made, takes effect at one instant and returns; the  *)
(* death of the process forgets the calls and keeps the tickets.           *)
(***************************************************************************)
EXTENDS RepositoryCalls

VARIABLES
  tickets,    \* id -> ticket, trace included
  calls,      \* caller -> the call it has made
  answers     \* caller -> what that call came to

Init ==
  /\ tickets = [i \in Ids |-> Absent]
  /\ calls = [c \in Callers |-> NoCall]
  /\ answers = [c \in Callers |-> Pending]

Invoke(c) ==
  /\ calls[c] = NoCall
  /\ \E call \in Calls : calls' = [calls EXCEPT ![c] = call]
  /\ UNCHANGED <<tickets, answers>>

Says(c, result, ticket) == answers' = [answers EXCEPT ![c] = Answer(result, ticket)]

Create(c, i) ==
  IF tickets[i] = Absent
  THEN Says(c, "done", Absent) /\ tickets' = [tickets EXCEPT ![i] = New]
  ELSE Says(c, "TicketAlreadyExists", Absent) /\ UNCHANGED tickets

Get(c, i) ==
  /\ Says(c, IF tickets[i] = Absent THEN "None" ELSE "done", tickets[i])
  /\ UNCHANGED tickets

Finalise(c, i, o) ==
  IF tickets[i] # Absent /\ Check(o.status, o.reply, o.reason)
  THEN Says(c, "done", Absent) /\ tickets' = [tickets EXCEPT ![i] = o]
  ELSE /\ Says(c, IF tickets[i] = Absent THEN "TicketNotFound" ELSE "IntegrityError", Absent)
       /\ UNCHANGED tickets

Raise(c) == Says(c, "raised", Absent) /\ UNCHANGED tickets

\* The instant at which a call takes effect.
Perform(c) ==
  LET call == calls[c] IN
  /\ call # NoCall
  /\ answers[c] = Pending
  /\ \/ call.op = "create" /\ Create(c, call.id)
     \/ call.op = "get" /\ Get(c, call.id)
     \/ call.op = "finalise" /\ Finalise(c, call.id, call.outcome)
     \/ Raise(c)
  /\ UNCHANGED calls

Return(c) ==
  /\ answers[c] # Pending
  /\ calls' = [calls EXCEPT ![c] = NoCall]
  /\ answers' = [answers EXCEPT ![c] = Pending]
  /\ UNCHANGED tickets

Restart ==
  /\ calls' = [c \in Callers |-> NoCall]
  /\ answers' = [c \in Callers |-> Pending]
  /\ UNCHANGED tickets

Next == Restart \/ \E c \in Callers : Invoke(c) \/ Perform(c) \/ Return(c)

Spec == Init /\ [][Next]_<<tickets, calls, answers>>
==============================================================================
