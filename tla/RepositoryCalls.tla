--------------------------- MODULE RepositoryCalls ---------------------------
(***************************************************************************)
(* The vocabulary of storage/protocol.py: the three calls a thread makes   *)
(* on a TicketRepository and what they can come to.                        *)
(***************************************************************************)
CONSTANTS
  Ids,        \* ticket ids
  Callers,    \* the threads that call the repository
  Outcomes,   \* the [status, reply, reason, trace] that callers finalise with
  None

Absent == [status |-> "absent", reply |-> None, reason |-> None, trace |-> <<>>]

New == [Absent EXCEPT !.status = "processing"]

\* The CHECK of the schema: status, reply and reason go together in three ways only.
Check(status, reply, reason) ==
  \/ status = "processing" /\ reply = None /\ reason = None
  \/ status = "replied" /\ reply # None /\ reason = None
  \/ status = "handed_off" /\ reply = None /\ reason # None

Calls ==
  [op : {"create", "get"}, id : Ids]
  \union
  [op : {"finalise"}, id : Ids, outcome : Outcomes]

NoCall == [op |-> "none"]

Answer(result, ticket) == [result |-> result, ticket |-> ticket]

Pending == Answer("pending", Absent)
==============================================================================
