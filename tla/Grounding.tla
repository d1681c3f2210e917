------------------------------ MODULE Grounding ------------------------------
(***************************************************************************)
(* Both layers of grounding as operators: the facts of a history           *)
(* (guardrails/factset.py), the text a template makes of them              *)
(* (llm/templates.py) and its verification (guardrails/grounding.py).      *)
(*                                                                         *)
(* A text is what the checker may find in it: the numbers, identifiers,    *)
(* status words and entities (names, stations) it states.  Numbers are     *)
(* thousandths, one decimal more than a reply ever shows.  Currencies,     *)
(* which no layer verifies, and the prose around the literals are left     *)
(* out.  An id has the form the checker knows (inv_, sess_, u_); an entity *)
(* is not empty, holds no id and no status word and occurs in no other     *)
(* literal.                                                                *)
(***************************************************************************)
EXTENDS Domain, Integers, FiniteSets

CONSTANT NumbersIn   \* entity -> the numbers a scan finds inside it

ASSUME NumbersInAssumption == \A e \in DOMAIN NumbersIn : NumbersIn[e] \subseteq Nat

-----------------------------------------------------------------------------
\* Layer 1: the projection.

\* A fact is a row that a tool returned, and where in the history it stands.

Found(history, type) ==
  { f \in UNION { { [turn |-> n, line |-> m, row |-> history[n].records[m]] :
                      m \in 1 .. Len(history[n].records) } : n \in 1 .. Len(history) } :
      f.row.type = type }

Before(f, g) == f.turn < g.turn \/ (f.turn = g.turn /\ f.line < g.line)

FirstOf(found) == (CHOOSE f \in found : \A g \in found : f = g \/ Before(f, g)).row

LastOf(found) == (CHOOSE f \in found : \A g \in found : f = g \/ Before(g, f)).row

Facts(history) ==
  LET users == Found(history, "user") IN
  [user |-> IF users = {} THEN None ELSE LastOf(users),
   invoices |-> Found(history, "invoice"),
   sessions |-> Found(history, "session")]

InvoicesWith(facts, status) == { i \in facts.invoices : i.row.status = status }

-----------------------------------------------------------------------------
\* The five templates.

Text(numbers, identifiers, statuses, entities) ==
  [numbers |-> numbers, identifiers |-> identifiers, statuses |-> statuses, entities |-> entities]

NoText == Text({}, {}, {}, {})

\* format_amount rounds to two decimals, half to even.
Rounded(amount) ==
  LET cents == amount \div 10
      rest == amount % 10
  IN 10 * (IF rest > 5 \/ (rest = 5 /\ cents % 2 = 1) THEN cents + 1 ELSE cents)

\* What a scan finds of a written amount, whose sign it passes over.
Written(amount) == IF Rounded(amount) < 0 THEN -Rounded(amount) ELSE Rounded(amount)

\* Every field a template interpolates is among the facts; otherwise render raises.
CanRender(template, facts) ==
  /\ facts.user # None
  /\ template = "billing_failed" => InvoicesWith(facts, "failed") # {}
  /\ template = "billing_pending" => InvoicesWith(facts, "pending") # {}
  /\ template \in {"session_completed", "session_interrupted"} => facts.sessions # {}

\* Numbers that stand in the prose itself: "within 3 business days".
Safe(template) == IF template = "billing_pending" THEN {3000} ELSE {}

InvoiceText(facts, status, prose) ==
  LET invoice == FirstOf(InvoicesWith(facts, status)) IN
  Text({Written(invoice.amount)} \union prose, {invoice.id}, {status}, {facts.user.name})

SessionText(facts, status) ==
  LET session == FirstOf(facts.sessions) IN
  Text({Written(session.kwh), Written(session.cost)}, {}, {status},
       {facts.user.name, session.station})

Render(template, facts) ==
  CASE template = "billing_all_paid" -> Text({}, {}, {"paid"}, {facts.user.name})
    [] template = "billing_failed" -> InvoiceText(facts, "failed", {})
    [] template = "billing_pending" -> InvoiceText(facts, "pending", Safe(template))
    [] template = "session_completed" -> SessionText(facts, "completed")
    [] template = "session_interrupted" -> SessionText(facts, FirstOf(facts.sessions).status)

-----------------------------------------------------------------------------
\* Layer 2: extraction, with the known entities masked, and verification.

AllowedNumbers(facts) ==
  { i.row.amount : i \in facts.invoices }
    \union (UNION { {s.row.kwh, s.row.cost} : s \in facts.sessions })
    \union { 1000 * Cardinality(found) : found \in {facts.invoices, facts.sessions} \ {{}} }

AllowedIdentifiers(facts) ==
  { f.row.id : f \in facts.invoices \union facts.sessions }
    \union (IF facts.user = None THEN {} ELSE {facts.user.id})

AllowedEntities(facts) ==
  { s.row.station : s \in facts.sessions }
    \union (IF facts.user = None THEN {} ELSE {facts.user.name})

AllowedStatuses(facts) == { f.row.status : f \in facts.invoices \union facts.sessions }

\* Bugs: entities are scanned like the rest of the text; status words are not looked for.
ExtractUnmasked(text, facts) ==
  [text EXCEPT !.numbers = @ \union UNION { NumbersIn[e] : e \in text.entities }]

ExtractNoStatus(text, facts) ==
  [text EXCEPT !.statuses = {},
    !.numbers = @ \union UNION { NumbersIn[e] : e \in text.entities \ AllowedEntities(facts) }]

Extract(text, facts) ==
  [text EXCEPT
    !.numbers = @ \union UNION { NumbersIn[e] : e \in text.entities \ AllowedEntities(facts) }]

\* No literal is left over.
Grounded(text, facts, template) ==
  LET literals == Extract(text, facts) IN
  /\ literals.numbers \subseteq AllowedNumbers(facts) \union Safe(template)
  /\ literals.identifiers \subseteq AllowedIdentifiers(facts)
  /\ literals.statuses \subseteq AllowedStatuses(facts)
=============================================================================
