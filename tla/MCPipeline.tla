----------------------------- MODULE MCPipeline -----------------------------
(***************************************************************************)
(* Instances of the pipeline for TLC.  One ticket meets everything a model *)
(* and the tools can do; two tickets, with a model that has less to choose *)
(* from, meet each other, the faults and the crashes.                      *)
(***************************************************************************)
EXTENDS PipelineProperties

CONSTANTS t1, t2

OneTicket == {t1}
TwoTickets == {t1, t2}
Symmetric == Permutations(Tickets)

\* Everything: the registered tools and a name no tool has.
AllTools == Registered \union {"no_such_tool"}

\* Enough of the model for every kind of outcome.
BillingTools == {"get_user", "get_invoices"}
SomeIntents == {"billing_question", "unknown"}
OneTemplate == {"billing_all_paid"}
OneReason == {"ITERATION_CAP_EXCEEDED"}
=============================================================================
