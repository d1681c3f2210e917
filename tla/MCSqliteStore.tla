---------------------------- MODULE MCSqliteStore ----------------------------
(***************************************************************************)
(* Instances of the repository for TLC: a reply and a handoff with traces  *)
(* of different lengths, and an outcome the CHECK refuses.                 *)
(***************************************************************************)
EXTENDS SqliteStoreProperties

CONSTANTS c1, c2, i1

OneId == {i1}
TwoCallers == {c1, c2}

Reply == [status |-> "replied", reply |-> "text", reason |-> None, trace |-> <<"r1", "r2">>]
Handoff == [status |-> "handed_off", reply |-> None, reason |-> "TOOL_ERROR", trace |-> <<"h1">>]
Mispaired == [Handoff EXCEPT !.reply = "text"]

SomeOutcomes == {Reply, Handoff, Mispaired}
==============================================================================
