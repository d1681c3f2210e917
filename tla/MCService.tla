------------------------------ MODULE MCService ------------------------------
(***************************************************************************)
(* Instances of the service for TLC: more requests than threads.           *)
(***************************************************************************)
EXTENDS ServiceProperties

CONSTANTS r1, r2, r3

ThreeRequests == {r1, r2, r3}

\* Two tickets, and a request for anything else.
PostsAndOthers ==
  [r \in ThreeRequests |-> IF r = r3 THEN Kinds \ {"post"} ELSE {"post"}]
==============================================================================
