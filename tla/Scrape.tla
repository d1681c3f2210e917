-------------------------------- MODULE Scrape --------------------------------
(***************************************************************************)
(* The metric registry (observability/metrics.py) step by step: record_run *)
(* on the threads of finishing runs, GET /metrics (api/ops.py) on another. *)
(* An update holds its family's lock; rendering takes none, so a scrape    *)
(* walks live dicts, family after family, while runs update them.          *)
(*                                                                         *)
(* A dict is a function whose domain is the label sets seen so far.  The   *)
(* order in which a dict yields its labels, the text of a line and the sum *)
(* of a histogram, which is torn the way its count is, are left out.       *)
(***************************************************************************)
EXTENDS Naturals, Sequences, FiniteSets, SequencesExt

CONSTANTS
  Runs,         \* threads that each finish one run
  Finishes,     \* the finished runs: [status, reason, decisions, tools, violations, span]
  Bounds,       \* the upper bounds of a histogram's buckets, rising
  MaxScrapes,   \* bound: how many scrapes there are
  None

ASSUME BoundsAssumption == Bounds \in Seq(Nat) /\ MaxScrapes \in Nat
ASSUME RunsAssumption == None \notin Runs \union Finishes
ASSUME FinishesAssumption ==
  \A f \in Finishes :
    /\ f.tools \in Seq(STRING) /\ f.violations \in Seq(STRING)
    /\ f.status = "handed_off" <=> f.reason # None

Counters == {"tickets_total", "handoffs_total", "grounding_violations_total", "tool_calls_total"}

\* _families, in the order they render.
Families ==
  <<"tickets_total", "handoffs_total", "grounding_violations_total", "tool_calls_total",
    "iterations_per_ticket", "pipeline_duration_seconds">>

Histograms == ToSet(Families) \ Counters

\* A cell per bucket, and the overflow.
Overflow == Len(Bounds) + 1

Cells == 1 .. Overflow

VARIABLES
  values,     \* family -> its dict: label -> count, or -> [cells, count]
  lock,       \* family -> the run that holds its lock, or None
  finished,   \* run -> what record_run was called with, or None
  todo,       \* run -> the updates record_run has yet to make
  stage,      \* run -> how far it is into the first of them
  old,        \* run -> the count that inc has read
  scrape,     \* the render in progress
  page,       \* what the latest answered scrape showed: family and label -> sample
  scrapes     \* how many scrapes have begun

vars == <<values, lock, finished, todo, stage, old, scrape, page, scrapes>>

registry == <<values, lock, finished, todo, stage, old>>
scraper == <<scrape, page, scrapes>>

-----------------------------------------------------------------------------
Inc(family, label) == [family |-> family, label |-> label, cell |-> 0]

Observe(family, label, cell) == [family |-> family, label |-> label, cell |-> cell]

\* The cell a value is counted in: the first bucket whose bound it does not exceed.
CellOf(value) == Cardinality({ n \in 1 .. Len(Bounds) : Bounds[n] < value }) + 1

\* record_run: what one finished run updates, in order.
Updates(f) ==
  <<Inc("tickets_total", f.status)>>
    \o (IF f.reason = None THEN <<>> ELSE <<Inc("handoffs_total", f.reason)>>)
    \o <<Observe("iterations_per_ticket", "", CellOf(f.decisions))>>
    \o [n \in 1 .. Len(f.tools) |-> Inc("tool_calls_total", f.tools[n])]
    \o [n \in 1 .. Len(f.violations) |-> Inc("grounding_violations_total", f.violations[n])]
    \o <<Observe("pipeline_duration_seconds", f.status, CellOf(f.span))>>

Seen(family) == DOMAIN values[family]

Get(family, label) == IF label \in Seen(family) THEN values[family][label] ELSE 0

With(dict, label, value) ==
  [l \in DOMAIN dict \union {label} |-> IF l = label THEN value ELSE dict[l]]

NewSeries == [cells |-> [c \in Cells |-> 0], count |-> 0]

\* A scrape: the family it is at, the labels it has shown of it, the size its iterator
\* holds the dict to or the label set it copied, the cell it is at, the lines so far, and,
\* to judge it by, the runs that were counting while it rendered.
NoScrape ==
  [at |-> 0, shown |-> {}, size |-> 0, copied |-> {}, cell |-> 0, sum |-> 0,
   lines |-> <<>>, beside |-> {}]

Init ==
  /\ values = [f \in ToSet(Families) |-> <<>>]
  /\ lock = [f \in ToSet(Families) |-> None]
  /\ finished = [r \in Runs |-> None]
  /\ todo = [r \in Runs |-> <<>>]
  /\ stage = [r \in Runs |-> "lock"]
  /\ old = [r \in Runs |-> 0]
  /\ scrape = NoScrape
  /\ page = [lines |-> <<>>, beside |-> {}]
  /\ scrapes = 0

-----------------------------------------------------------------------------
\* record_run, one update at a time.

Counting == { r \in Runs : todo[r] # <<>> }

RecordRun(r) ==
  /\ finished[r] = None
  /\ \E f \in Finishes :
       /\ finished' = [finished EXCEPT ![r] = f]
       /\ todo' = [todo EXCEPT ![r] = Updates(f)]
  /\ scrape' = IF scrape.at = 0 THEN scrape ELSE [scrape EXCEPT !.beside = @ \union {r}]
  /\ UNCHANGED <<values, lock, stage, old, page, scrapes>>

\* A step of run r's first update u, from one stage to the next.
Update(r, u, from, to) ==
  /\ u = Head(todo[r])
  /\ stage[r] = from
  /\ stage' = [stage EXCEPT ![r] = to]
  /\ UNCHANGED <<finished, scraper>>

Acquire(r, u) ==
  /\ lock[u.family] = None
  /\ lock' = [lock EXCEPT ![u.family] = r]
  /\ UNCHANGED todo

\* The `with` of the lock ends, and with it the update.
Release(r, u) ==
  /\ lock' = [lock EXCEPT ![u.family] = None]
  /\ todo' = [todo EXCEPT ![r] = Tail(@)]

\* Bugs: no lock; a label entered before it has been counted.
IncReadUnlocked(r) ==
  \E u \in ToSet(todo[r]) :
    /\ Update(r, u, "lock", "write")
    /\ u.cell = 0
    /\ old' = [old EXCEPT ![r] = Get(u.family, u.label)]
    /\ UNCHANGED <<values, lock, todo>>

IncReadEnters(r) ==
  \E u \in ToSet(todo[r]) :
    /\ Update(r, u, "lock", "write")
    /\ u.cell = 0
    /\ Acquire(r, u)
    /\ old' = [old EXCEPT ![r] = Get(u.family, u.label)]
    /\ values' = [values EXCEPT ![u.family] = With(@, u.label, old'[r])]

IncRead(r) ==
  \E u \in ToSet(todo[r]) :
    /\ Update(r, u, "lock", "write")
    /\ u.cell = 0
    /\ Acquire(r, u)
    /\ old' = [old EXCEPT ![r] = Get(u.family, u.label)]
    /\ UNCHANGED values

IncWrite(r) ==
  \E u \in ToSet(todo[r]) :
    /\ Update(r, u, "write", "lock")
    /\ Release(r, u)
    /\ values' = [values EXCEPT ![u.family] = With(@, u.label, old[r] + 1)]
    /\ old' = [old EXCEPT ![r] = 0]

\* observe: setdefault, then the bucket, then the count.
ObserveSeries(r) ==
  \E u \in ToSet(todo[r]) :
    /\ Update(r, u, "lock", "cell")
    /\ u.cell > 0
    /\ Acquire(r, u)
    /\ values' = IF u.label \in Seen(u.family) THEN values
                 ELSE [values EXCEPT ![u.family] = With(@, u.label, NewSeries)]
    /\ UNCHANGED old

ObserveCell(r) ==
  \E u \in ToSet(todo[r]) :
    /\ Update(r, u, "cell", "count")
    /\ values' = [values EXCEPT ![u.family][u.label].cells[u.cell] = @ + 1]
    /\ UNCHANGED <<lock, todo, old>>

ObserveCount(r) ==
  \E u \in ToSet(todo[r]) :
    /\ Update(r, u, "count", "lock")
    /\ Release(r, u)
    /\ values' = [values EXCEPT ![u.family][u.label].count = @ + 1]
    /\ UNCHANGED old

-----------------------------------------------------------------------------
\* GET /metrics: MetricRegistry.render.

Family == Families[scrape.at]

\* A step of the render within the families of one kind.
Rendering(kind) ==
  /\ scrape.at \in 1 .. Len(Families)
  /\ Family \in kind
  /\ UNCHANGED <<registry, scrapes>>

BeginScrape ==
  /\ scrape.at = 0
  /\ scrapes < MaxScrapes
  /\ scrapes' = scrapes + 1
  /\ scrape' = [NoScrape EXCEPT !.at = 1, !.beside = Counting]
  /\ UNCHANGED <<registry, page>>

\* The iterator over a live dict has not begun, or finds the dict the size it was.
IteratorIsValid == scrape.shown = {} \/ scrape.size = Cardinality(Seen(Family))

ShowCount ==
  /\ Rendering(Counters)
  /\ IteratorIsValid
  /\ \E label \in Seen(Family) \ scrape.shown :
       scrape' = [scrape EXCEPT
         !.lines = With(@, <<Family, label>>, values[Family][label]),
         !.shown = @ \union {label},
         !.size = Cardinality(Seen(Family))]
  /\ UNCHANGED page

\* "dictionary changed size during iteration": the request ends in a 500.
ScrapeRaises ==
  /\ Rendering(Counters)
  /\ ~IteratorIsValid
  /\ scrape' = [NoScrape EXCEPT !.at = Len(Families) + 1]
  /\ UNCHANGED page

CopySeries ==
  /\ Rendering(Histograms)
  /\ scrape.cell = 0
  /\ scrape' = [scrape EXCEPT !.copied = Seen(Family), !.cell = 1]
  /\ UNCHANGED page

\* The series that is being rendered: each label of the copy in its turn.
Current == CHOOSE label \in scrape.copied : label \notin scrape.shown

\* Bug: the overflow is left out of the cumulative count.
ShowCellNoOverflow ==
  /\ Rendering(Histograms)
  /\ scrape.copied # scrape.shown
  /\ scrape.cell \in Cells
  /\ scrape' = [scrape EXCEPT
       !.sum = IF scrape.cell = Overflow THEN @
               ELSE @ + values[Family][Current].cells[scrape.cell],
       !.cell = @ + 1]
  /\ UNCHANGED page

ShowCell ==
  /\ Rendering(Histograms)
  /\ scrape.copied # scrape.shown
  /\ scrape.cell \in Cells
  /\ scrape' = [scrape EXCEPT
       !.sum = @ + values[Family][Current].cells[scrape.cell],
       !.cell = @ + 1]
  /\ UNCHANGED page

ShowSeriesCount ==
  /\ Rendering(Histograms)
  /\ scrape.cell = Overflow + 1
  /\ scrape' = [scrape EXCEPT
       !.lines = With(@, <<Family, Current>>,
                      [inf |-> scrape.sum, count |-> values[Family][Current].count]),
       !.shown = @ \union {Current},
       !.cell = 1,
       !.sum = 0]
  /\ UNCHANGED page

\* Every label of the family has been shown.
FamilyIsShown ==
  \/ Family \in Counters /\ IteratorIsValid /\ Seen(Family) \subseteq scrape.shown
  \/ Family \in Histograms /\ scrape.cell = 1 /\ scrape.copied = scrape.shown

NextFamily ==
  /\ scrape.at < Len(Families)
  /\ Rendering(ToSet(Families))
  /\ FamilyIsShown
  /\ scrape' = [NoScrape EXCEPT !.at = scrape.at + 1, !.lines = scrape.lines, !.beside = scrape.beside]
  /\ UNCHANGED page

Answer ==
  /\ scrape.at = Len(Families)
  /\ Rendering(ToSet(Families))
  /\ FamilyIsShown
  /\ page' = [lines |-> scrape.lines, beside |-> scrape.beside]
  /\ scrape' = NoScrape

AnswerError ==
  /\ scrape.at = Len(Families) + 1
  /\ scrape' = NoScrape
  /\ UNCHANGED <<registry, page, scrapes>>

Count(r) ==
  RecordRun(r) \/ IncRead(r) \/ IncWrite(r) \/ ObserveSeries(r) \/ ObserveCell(r) \/ ObserveCount(r)

Render ==
  \/ BeginScrape \/ ShowCount \/ ScrapeRaises \/ CopySeries \/ ShowCell \/ ShowSeriesCount
  \/ NextFamily \/ Answer \/ AnswerError

Next == Render \/ \E r \in Runs : Count(r)

Spec == Init /\ [][Next]_vars
===============================================================================
