------------------------------- MODULE MCScrape -------------------------------
(***************************************************************************)
(* Instances of the registry for TLC: two runs that end alike or not, and  *)
(* one of the buckets, whose bound is MAX_ITERATIONS.                      *)
(***************************************************************************)
EXTENDS ScrapeProperties

CONSTANTS r1, r2

TwoRuns == {r1, r2}

RepliedRun ==
  [status |-> "replied", reason |-> None, decisions |-> 2,
   tools |-> <<"get_user ok">>, violations |-> <<>>, span |-> 0]

\* A model that asks for the user twice before its reply is withheld.
HandedOffRun == [RepliedRun EXCEPT
  !.status = "handed_off", !.reason = "UNGROUNDED_REPLY", !.decisions = 3,
  !.tools = <<"get_user ok", "get_user ok">>, !.violations = <<"status">>, !.span = 9]

TwoFinishes == {RepliedRun, HandedOffRun}

OneBucket == <<5>>

Symmetric == Permutations(Runs)
===============================================================================
