--------------------------- MODULE ScrapeProperties ---------------------------
(***************************************************************************)
(* What the registry keeps true while runs count, and what a scrape may    *)
(* and may not be trusted to show.                                         *)
(***************************************************************************)
EXTENDS Scrape

TypeOK ==
  /\ \A f \in Counters : \A l \in Seen(f) : values[f][l] \in Nat \ {0}
  /\ \A f \in Histograms : \A l \in Seen(f) : values[f][l] \in [cells : [Cells -> Nat], count : Nat]
  /\ lock \in [ToSet(Families) -> Runs \union {None}]
  /\ finished \in [Runs -> Finishes \union {None}]
  /\ \A r \in Runs : IsSuffix(todo[r], IF finished[r] = None THEN <<>> ELSE Updates(finished[r]))
  /\ stage \in [Runs -> {"lock", "write", "cell", "count"}]
  /\ old \in [Runs -> Nat]
  /\ scrape.at \in 0 .. Len(Families) + 1 /\ scrape.cell \in 0 .. Overflow + 1
  /\ scrapes \in 0 .. MaxScrapes

\* The updates of a family and label that record_run has completed.
Completed(family, label) ==
  LET Of(r) == { n \in 1 .. Len(Updates(finished[r])) - Len(todo[r]) :
                   /\ Updates(finished[r])[n].family = family
                   /\ Updates(finished[r])[n].label = label }
  IN SumFunction([r \in { q \in Runs : finished[q] # None } |-> Cardinality(Of(r))])

\* The observation of a series that has counted its bucket and not itself.
Halfway(family, label) ==
  { r \in Runs : stage[r] = "count" /\ Head(todo[r]).family = family /\ Head(todo[r]).label = label }

\* What a page shows: 0 for a sample that is not there.
Sample(family, label) ==
  IF <<family, label>> \in DOMAIN page.lines THEN page.lines[<<family, label>>] ELSE 0

Samples(family) == { k \in DOMAIN page.lines : k[1] = family }

Shows(family) == SumFunctionOnSet(page.lines, Samples(family))

ShowsCount(family) == SumFunctionOnSet([k \in DOMAIN page.lines |-> page.lines[k].count], Samples(family))

Apart(m, n) == IF m < n THEN n - m ELSE m - n

-----------------------------------------------------------------------------
\* No update is lost or made twice under concurrent writers, of a counter or of a series,
\* and a series' buckets are ahead of its count only by the observation under way
\* (observability/metrics.py:69-71, 100-103, 154-157).
NoUpdateIsLost ==
  /\ \A f \in Counters : \A l \in Seen(f) : values[f][l] = Completed(f, l)
  /\ \A f \in Histograms : \A l \in Seen(f) :
       /\ values[f][l].count = Completed(f, l)
       /\ SumFunction(values[f][l].cells) = values[f][l].count + Cardinality(Halfway(f, l))

\* A scrape mixes moments, but no further than the runs that were counting beside it: its
\* families, and the two counts of a series, disagree by at most one for each of them; so
\* the page of a quiet registry adds up exactly (observability/metrics.py:225-228).
ScrapesDriftByTheCounting ==
  LET Agree(m, n) == Apart(m, n) <= Cardinality(page.beside) IN
  /\ Agree(Sample("tickets_total", "handed_off"), Shows("handoffs_total"))
  /\ Agree(Shows("tickets_total"), ShowsCount("iterations_per_ticket"))
  /\ Agree(Shows("tickets_total"), ShowsCount("pipeline_duration_seconds"))
  /\ \A f \in Histograms : \A k \in Samples(f) : Agree(page.lines[k].inf, page.lines[k].count)

-----------------------------------------------------------------------------
\* What the documentation says and the code does not do.

\* api/API.md:176: GET /metrics returns 200; so a render never raises.
ScrapesAnswer == scrape.at <= Len(Families)
===============================================================================
