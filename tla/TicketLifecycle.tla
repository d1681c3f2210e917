--------------------------- MODULE TicketLifecycle ---------------------------
(***************************************************************************)
(* What the service promises of a ticket, as a client of GET /tickets/{id} *)
(* sees it: nothing, then `processing`, then one of two terminal states    *)
(* that never change again (enums.py:28).  An outcome becomes visible      *)
(* whole: status, reply or reason, and the decision that explains it, in   *)
(* one step.  A client holds an id only for a ticket that can be read.     *)
(***************************************************************************)
CONSTANTS Tickets, Templates, Reasons, None

VARIABLES
  view,      \* ticket id -> what GET answers for it
  accepted   \* the ids answered with a 202

Unconcluded(status) ==
  [status |-> status, reply |-> None, reason |-> None, explained |-> FALSE]

Absent == Unconcluded("absent")

Processing == Unconcluded("processing")

Conclusions ==
  [status : {"replied"}, reply : Templates, reason : {None}, explained : {TRUE}]
  \union
  [status : {"handed_off"}, reply : {None}, reason : Reasons, explained : {TRUE}]

Init == view = [t \in Tickets |-> Absent] /\ accepted = {}

Submit(t) ==
  /\ view[t] = Absent
  /\ view' = [view EXCEPT ![t] = Processing]
  /\ UNCHANGED accepted

Answer(t) ==
  /\ view[t] # Absent
  /\ accepted' = accepted \union {t}
  /\ UNCHANGED view

Conclude(t) ==
  /\ t \in accepted
  /\ view[t] = Processing
  /\ \E c \in Conclusions : view' = [view EXCEPT ![t] = c]
  /\ UNCHANGED accepted

Next == \E t \in Tickets : Submit(t) \/ Answer(t) \/ Conclude(t)

Spec == Init /\ [][Next]_<<view, accepted>>
==============================================================================
