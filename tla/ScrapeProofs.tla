----------------------------- MODULE ScrapeProofs -----------------------------
(***************************************************************************)
(* Theorems about the registry: for every number of runs that count at     *)
(* once, no update is lost, made twice or seen half done by another; and   *)
(* a page is off by no more than the runs that counted while it rendered.  *)
(***************************************************************************)
EXTENDS ScrapeProperties, FoldLemmas

-----------------------------------------------------------------------------
\* What record_run updates.

LEMMA FamilyNames ==
  /\ ToSet(Families) = Counters \union Histograms
  /\ Histograms = {"iterations_per_ticket", "pipeline_duration_seconds"}
  /\ Counters \intersect Histograms = {}
  /\ Len(Families) = 6
<1>1. ToSet(Families) =
        {"tickets_total", "handoffs_total", "grounding_violations_total", "tool_calls_total",
         "iterations_per_ticket", "pipeline_duration_seconds"}
  BY DEF ToSet, Families
<1> QED BY <1>1 DEF Histograms, Counters, Families

LEMMA UpTo ==
  ASSUME NEW n \in Nat
  PROVE  IsFiniteSet(1 .. n) /\ Cardinality(1 .. n) = n
<1>1. IsFiniteSet(1 .. n) /\ Cardinality(1 .. n) = IF 1 > n THEN 0 ELSE n - 1 + 1
  BY FS_Interval
<1>2. (IF 1 > n THEN 0 ELSE n - 1 + 1) = n
  OBVIOUS
<1> QED BY <1>1, <1>2

LEMMA CellsAre ==
  /\ Len(Bounds) \in Nat /\ Overflow \in Nat /\ Overflow > 0
  /\ \A value : CellOf(value) \in Cells
<1>1. Len(Bounds) \in Nat
  BY BoundsAssumption
<1>2. ASSUME NEW value PROVE CellOf(value) \in Cells
  <2> DEFINE below == { n \in 1 .. Len(Bounds) : Bounds[n] < value }
  <2>1. IsFiniteSet(1 .. Len(Bounds)) /\ Cardinality(1 .. Len(Bounds)) = Len(Bounds)
    BY <1>1, UpTo
  <2>2. Cardinality(below) \in Nat /\ Cardinality(below) <= Len(Bounds)
    BY <2>1, FS_Subset, FS_CardinalityType
  <2> QED BY <1>1, <2>2 DEF CellOf, Cells, Overflow
<1> QED BY <1>1, <1>2 DEF Overflow

Labels == UNION { { u.label : u \in ToSet(Updates(f)) } : f \in Finishes }

\* An update of a counter has no cell, one of a histogram has.
UpdateSet ==
  { u \in [family : ToSet(Families), label : Labels, cell : 0 .. Overflow] :
      u.cell = 0 <=> u.family \in Counters }

LEMMA UpdatesType ==
  ASSUME NEW f \in Finishes
  PROVE  Updates(f) \in Seq(UpdateSet)
<1> DEFINE Words == STRING \union {"", f.status, f.reason}
           Shape == { u \in [family : ToSet(Families), label : Words, cell : 0 .. Overflow] :
                        u.cell = 0 <=> u.family \in Counters }
<1>w. f.status \in Words /\ f.reason \in Words /\ "" \in Words /\ STRING \subseteq Words
  OBVIOUS
<1> HIDE DEF Shape, Words
<1>1. \A family \in Counters, l \in Words : Inc(family, l) \in Shape
  <2> SUFFICES ASSUME NEW family \in Counters, NEW l \in Words
               PROVE  Inc(family, l) \in Shape
    OBVIOUS
  <2>1. family \in ToSet(Families) /\ 0 \in 0 .. Overflow
    BY CellsAre, FamilyNames
  <2>2. Inc(family, l) \in [family : ToSet(Families), label : Words, cell : 0 .. Overflow]
    BY <2>1 DEF Inc
  <2>3. Inc(family, l).cell = 0 /\ Inc(family, l).family \in Counters
    BY DEF Inc
  <2> QED BY <2>2, <2>3 DEF Shape
<1>2. \A v : \A family \in Histograms, l \in Words : Observe(family, l, CellOf(v)) \in Shape
  <2> SUFFICES ASSUME NEW v, NEW family \in Histograms, NEW l \in Words
               PROVE  Observe(family, l, CellOf(v)) \in Shape
    OBVIOUS
  <2>1. family \in ToSet(Families) /\ family \notin Counters
    BY FamilyNames
  <2>2. CellOf(v) \in 0 .. Overflow /\ CellOf(v) # 0
    BY CellsAre DEF Cells
  <2>3. Observe(family, l, CellOf(v)) \in
          [family : ToSet(Families), label : Words, cell : 0 .. Overflow]
    BY <2>1, <2>2 DEF Observe
  <2>4. /\ Observe(family, l, CellOf(v)).cell # 0
        /\ Observe(family, l, CellOf(v)).family \notin Counters
    BY <2>1, <2>2 DEF Observe
  <2> QED BY <2>3, <2>4 DEF Shape
<1>3. f.tools \in Seq(STRING) /\ f.violations \in Seq(STRING)
  BY FinishesAssumption
<1>4. {"tickets_total", "handoffs_total", "tool_calls_total", "grounding_violations_total"}
        \subseteq Counters
  BY DEF Counters
<1> DEFINE status == <<Inc("tickets_total", f.status)>>
           reason == IF f.reason = None THEN <<>> ELSE <<Inc("handoffs_total", f.reason)>>
           rounds == <<Observe("iterations_per_ticket", "", CellOf(f.decisions))>>
           tools == [n \in 1 .. Len(f.tools) |-> Inc("tool_calls_total", f.tools[n])]
           violations ==
             [n \in 1 .. Len(f.violations) |-> Inc("grounding_violations_total", f.violations[n])]
           span == <<Observe("pipeline_duration_seconds", f.status, CellOf(f.span))>>
<1>5. <<>> \in Seq(Shape) /\ \A x \in Shape : <<x>> \in Seq(Shape)
  OBVIOUS
<1>6. status \in Seq(Shape) /\ reason \in Seq(Shape)
  <2>1. Inc("tickets_total", f.status) \in Shape /\ Inc("handoffs_total", f.reason) \in Shape
    BY <1>1, <1>4, <1>w
  <2> QED BY <1>5, <2>1
<1>7. rounds \in Seq(Shape) /\ span \in Seq(Shape)
  <2>1. /\ Observe("iterations_per_ticket", "", CellOf(f.decisions)) \in Shape
        /\ Observe("pipeline_duration_seconds", f.status, CellOf(f.span)) \in Shape
    BY <1>2, <1>w, FamilyNames
  <2> QED BY <1>5, <2>1
<1>8. tools \in Seq(Shape) /\ violations \in Seq(Shape)
  <2>1. ASSUME NEW family \in Counters, NEW words \in Seq(STRING)
        PROVE  [n \in 1 .. Len(words) |-> Inc(family, words[n])] \in Seq(Shape)
    <3>1. ASSUME NEW n \in 1 .. Len(words) PROVE Inc(family, words[n]) \in Shape
      <4>1. words[n] \in STRING
        OBVIOUS
      <4>2. words[n] \in Words
        BY <4>1, <1>w
      <4> QED BY <4>2, <1>1
    <3>2. Len(words) \in Nat
      OBVIOUS
    <3> QED BY <3>1, <3>2
  <2> QED BY <1>3, <1>4, <2>1
<1>9. Updates(f) = status \o reason \o rounds \o tools \o violations \o span
  BY DEF Updates
<1> HIDE DEF status, reason, rounds, tools, violations, span
<1>10. Updates(f) \in Seq(Shape)
  BY <1>6, <1>7, <1>8, <1>9
<1>11. ASSUME NEW n \in 1 .. Len(Updates(f)) PROVE Updates(f)[n] \in UpdateSet
  <2>1. Updates(f)[n] \in Shape
    BY <1>10
  <2>2. Updates(f)[n] \in ToSet(Updates(f))
    BY <1>10 DEF ToSet
  <2>3. Updates(f)[n].label \in Labels
    BY <2>2 DEF Labels
  <2> QED BY <2>1, <2>3 DEF Shape, UpdateSet
<1> QED BY <1>10, <1>11

-----------------------------------------------------------------------------
\* The inductive invariant: what a run has yet to do, what it holds and what it has read.

Finished == { r \in Runs : finished[r] # None }

All(r) == IF finished[r] = None THEN <<>> ELSE Updates(finished[r])

\* How many updates of r are made; the rest are todo.
Made(r) == Len(All(r)) - Len(todo[r])

WorkFits(r) ==
  /\ todo[r] \in Seq(UpdateSet)
  /\ Len(todo[r]) <= Len(All(r))
  /\ \A n \in 1 .. Len(todo[r]) : todo[r][n] = All(r)[Made(r) + n]

\* Between its stages a run holds the lock of the family it updates, and no other.
Holds(r, f) == stage[r] # "lock" /\ todo[r] # <<>> /\ Head(todo[r]).family = f

LocksFit ==
  /\ \A r \in Runs : stage[r] # "lock" => Holds(r, Head(todo[r]).family)
  /\ \A f \in ToSet(Families) : \A r \in Runs : lock[f] = r <=> Holds(r, f)

\* What inc has read is still so; what observe has set is still there.
StageFits(r) ==
  LET u == Head(todo[r]) IN
  /\ stage[r] = "write" => u.cell = 0 /\ old[r] = Get(u.family, u.label)
  /\ stage[r] \in {"cell", "count"} => u.cell > 0 /\ u.label \in Seen(u.family)

CounterFits(f, l) == Get(f, l) = Completed(f, l)

SeriesFits(f, l) ==
  IF l \in Seen(f)
  THEN /\ values[f][l].count = Completed(f, l)
       /\ SumFunction(values[f][l].cells) = values[f][l].count + Cardinality(Halfway(f, l))
  ELSE Completed(f, l) = 0

CountsFit ==
  /\ \A f \in ToSet(Families) : Seen(f) \subseteq Labels
  /\ \A f \in Counters : \A l \in Labels : CounterFits(f, l)
  /\ \A f \in Histograms : \A l \in Labels : SeriesFits(f, l)

ValuesFit ==
  /\ DOMAIN values = ToSet(Families)
  /\ \A f \in Counters : \A l \in Seen(f) : values[f][l] \in Nat \ {0}
  /\ \A f \in Histograms : \A l \in Seen(f) :
       values[f][l] \in [cells : [Cells -> Nat], count : Nat]

RegistryInv ==
  /\ ValuesFit
  /\ lock \in [ToSet(Families) -> Runs \union {None}]
  /\ finished \in [Runs -> Finishes \union {None}]
  /\ todo \in [Runs -> Seq(UpdateSet)]
  /\ stage \in [Runs -> {"lock", "write", "cell", "count"}]
  /\ old \in [Runs -> Nat]
  /\ IsFiniteSet(Finished)
  /\ \A r \in Runs : WorkFits(r) /\ StageFits(r)
  /\ LocksFit
  /\ CountsFit

-----------------------------------------------------------------------------
\* The work of a run.

LEMMA NextUpdate ==
  ASSUME RegistryInv, NEW r \in Runs, todo[r] # <<>>
  PROVE  /\ Head(todo[r]) \in UpdateSet
         /\ Head(todo[r]) = All(r)[Made(r) + 1]
         /\ Made(r) \in Nat /\ Made(r) + 1 <= Len(All(r)) /\ Len(All(r)) \in Nat
         /\ Len(todo[r]) \in Nat /\ Len(todo[r]) > 0
         /\ Tail(todo[r]) \in Seq(UpdateSet)
         /\ Len(Tail(todo[r])) = Len(todo[r]) - 1
         /\ \A n \in 1 .. Len(todo[r]) - 1 : Tail(todo[r])[n] = todo[r][n + 1]
         /\ finished[r] \in Finishes
<1>1. todo[r] \in Seq(UpdateSet) /\ WorkFits(r) /\ finished[r] \in Finishes \union {None}
  BY DEF RegistryInv
<1>2. /\ Len(todo[r]) \in Nat /\ Len(todo[r]) > 0
      /\ Head(todo[r]) = todo[r][1] /\ Head(todo[r]) \in UpdateSet
      /\ Tail(todo[r]) \in Seq(UpdateSet)
      /\ Len(Tail(todo[r])) = Len(todo[r]) - 1
      /\ \A n \in 1 .. Len(todo[r]) - 1 : Tail(todo[r])[n] = todo[r][n + 1]
  BY <1>1
<1>3. Len(All(r)) \in Nat
  BY <1>1, UpdatesType DEF All
<1>4. finished[r] # None
  BY <1>1, <1>2 DEF WorkFits, All
<1>5. Made(r) \in Nat /\ Made(r) + 1 <= Len(All(r)) /\ todo[r][1] = All(r)[Made(r) + 1]
  <2>1. Len(todo[r]) <= Len(All(r)) /\ 1 \in 1 .. Len(todo[r])
    BY <1>1, <1>2 DEF WorkFits
  <2>2. todo[r][1] = All(r)[Made(r) + 1]
    BY <1>1, <2>1 DEF WorkFits
  <2> QED BY <1>2, <1>3, <2>1, <2>2 DEF Made
<1> QED BY <1>1, <1>2, <1>3, <1>4, <1>5

LEMMA UpdateFields ==
  ASSUME NEW u \in UpdateSet
  PROVE  /\ u.family \in ToSet(Families) /\ u.label \in Labels /\ u.cell \in 0 .. Overflow
         /\ u.cell = 0 => u.family \in Counters
         /\ u.cell > 0 => u.family \in Histograms /\ u.family \notin Counters
<1>1. /\ u \in [family : ToSet(Families), label : Labels, cell : 0 .. Overflow]
      /\ u.cell = 0 <=> u.family \in Counters
  BY DEF UpdateSet
<1>2. u.family \in ToSet(Families) /\ u.label \in Labels /\ u.cell \in 0 .. Overflow
  BY <1>1
<1> QED BY <1>1, <1>2, FamilyNames, CellsAre

-----------------------------------------------------------------------------
\* The updates that are made.

DoneOf(r, f, l) ==
  { n \in 1 .. Len(Updates(finished[r])) - Len(todo[r]) :
      /\ Updates(finished[r])[n].family = f
      /\ Updates(finished[r])[n].label = l }

Dones(f, l) == [r \in Finished |-> Cardinality(DoneOf(r, f, l))]

LEMMA CompletedIs == \A f, l : Completed(f, l) = SumFunction(Dones(f, l))
  BY DEF Completed, Dones, DoneOf, Finished

LEMMA DonesAreFinite ==
  ASSUME RegistryInv, NEW r \in Finished
  PROVE  /\ Len(Updates(finished[r])) - Len(todo[r]) = Made(r) /\ Made(r) \in Nat
         /\ \A f, l : IsFiniteSet(DoneOf(r, f, l)) /\ Cardinality(DoneOf(r, f, l)) \in Nat
<1>1. /\ r \in Runs /\ finished[r] \in Finishes /\ finished[r] # None
      /\ WorkFits(r) /\ todo[r] \in Seq(UpdateSet)
  BY DEF RegistryInv, Finished
<1>2. Len(Updates(finished[r])) \in Nat /\ Len(todo[r]) \in Nat
  BY <1>1, UpdatesType
<1>3. Len(Updates(finished[r])) - Len(todo[r]) = Made(r) /\ Made(r) \in Nat
  BY <1>1, <1>2 DEF WorkFits, Made, All
<1>4. IsFiniteSet(1 .. Made(r)) /\ \A f, l : DoneOf(r, f, l) \subseteq 1 .. Made(r)
  <2>1. 1 .. Len(Updates(finished[r])) - Len(todo[r]) = 1 .. Made(r)
    BY <1>3
  <2>2. \A f, l : DoneOf(r, f, l) \subseteq 1 .. Len(Updates(finished[r])) - Len(todo[r])
    BY DEF DoneOf
  <2>3. IsFiniteSet(1 .. Made(r))
    BY <1>3, UpTo
  <2>4. \A f, l : DoneOf(r, f, l) \subseteq 1 .. Made(r)
    BY <2>1, <2>2, Zenon
  <2> QED BY <2>3, <2>4
<1>5. \A f, l : IsFiniteSet(DoneOf(r, f, l)) /\ Cardinality(DoneOf(r, f, l)) \in Nat
  BY <1>4, FS_Subset, FS_CardinalityType
<1> QED BY <1>3, <1>5

LEMMA DonesType ==
  ASSUME RegistryInv
  PROVE  \A f, l : Dones(f, l) \in [Finished -> Nat] /\ Completed(f, l) \in Nat
<1>1. \A f, l : Dones(f, l) \in [Finished -> Nat]
  BY DonesAreFinite DEF Dones
<1>2. IsFiniteSet(Finished)
  BY DEF RegistryInv
<1>3. \A f, l : SumFunction(Dones(f, l)) \in Nat
  BY <1>1, <1>2, SumIsNatural
<1> QED BY <1>1, <1>3, CompletedIs

LEMMA CompletedStays ==
  ASSUME NEW f, NEW l, finished' = finished, todo' = todo
  PROVE  Completed(f, l)' = Completed(f, l)
BY DEF Completed

\* A run that begins to count has completed nothing.
LEMMA CompletedStarts ==
  ASSUME RegistryInv, NEW r \in Runs, RecordRun(r), NEW f, NEW l
  PROVE  Completed(f, l)' = Completed(f, l)
<1>1. PICK done \in Finishes :
        /\ finished[r] = None /\ finished' = [finished EXCEPT ![r] = done]
        /\ todo' = [todo EXCEPT ![r] = Updates(done)]
  BY DEF RecordRun
<1>2. /\ finished'[r] = done /\ todo'[r] = Updates(done) /\ done # None
      /\ \A q \in Runs \ {r} : finished'[q] = finished[q] /\ todo'[q] = todo[q]
  BY <1>1, RunsAssumption DEF RegistryInv
<1>3. Finished' = Finished \union {r} /\ r \notin Finished
  BY <1>1, <1>2 DEF Finished
<1>4. IsFiniteSet(Finished) /\ IsFiniteSet(Finished')
  BY <1>3, FS_AddElement DEF RegistryInv
<1>5. DoneOf(r, f, l)' = {}
  <2>1. Len(Updates(done)) \in Nat
    BY UpdatesType
  <2>2. 1 .. Len(Updates(done)) - Len(Updates(done)) = {}
    BY <2>1
  <2> QED BY <1>2, <2>2 DEF DoneOf
<1> DEFINE before == Dones(f, l)
           after == Dones(f, l)'
<1>6. DOMAIN before = Finished /\ DOMAIN after = Finished'
  BY DEF Dones
<1>7. after[r] = 0
  BY <1>3, <1>5, FS_EmptySet DEF Dones
<1>8. \A q \in Finished : after[q] = before[q] /\ before[q] \in Nat
  <2> SUFFICES ASSUME NEW q \in Finished PROVE after[q] = before[q] /\ before[q] \in Nat
    OBVIOUS
  <2>1. q \in Runs \ {r}
    BY <1>3 DEF Finished
  <2>2. DoneOf(q, f, l)' = DoneOf(q, f, l)
    BY <1>2, <2>1 DEF DoneOf
  <2>3. after[q] = Cardinality(DoneOf(q, f, l)') /\ before[q] = Cardinality(DoneOf(q, f, l))
    BY <1>3 DEF Dones
  <2> QED BY <2>2, <2>3, DonesAreFinite
<1> HIDE DEF before, after
<1>9. SumFunctionOnSet(after, Finished \union {r}) = after[r] + SumFunctionOnSet(after, Finished)
  <2>1. after[r] \in Nat /\ \A q \in Finished : after[q] \in Nat
    BY <1>7, <1>8
  <2> QED BY <1>3, <1>4, <2>1, SumWith
<1>10. SumFunctionOnSet(after, Finished) = SumFunctionOnSet(before, Finished)
  BY <1>4, <1>8, SumAgrees
<1>11. SumFunctionOnSet(before, Finished) \in Nat
  BY <1>4, <1>8, SumWithout
<1>12. SumFunction(after) = SumFunction(before)
  BY <1>3, <1>6, <1>7, <1>9, <1>10, <1>11, SumOfDomain
<1>13. Completed(f, l)' = SumFunction(after) /\ Completed(f, l) = SumFunction(before)
  BY DEF Completed, Dones, DoneOf, Finished, before, after
<1> QED BY <1>12, <1>13

\* A run that makes its next update has completed one more, of that family and label.
LEMMA CompletedGrows ==
  ASSUME RegistryInv, NEW r \in Runs, todo[r] # <<>>,
         todo' = [todo EXCEPT ![r] = Tail(@)], finished' = finished, NEW f, NEW l
  PROVE  LET u == Head(todo[r]) IN
         Completed(f, l)' =
           IF u.family = f /\ u.label = l THEN Completed(f, l) + 1 ELSE Completed(f, l)
<1> DEFINE u == Head(todo[r])
           k == IF u.family = f /\ u.label = l THEN 1 ELSE 0
           before == Dones(f, l)
           after == Dones(f, l)'
<1>1. todo'[r] = Tail(todo[r]) /\ \A q \in Runs \ {r} : todo'[q] = todo[q]
  BY DEF RegistryInv
<1>2. /\ r \in Finished /\ Finished' = Finished /\ IsFiniteSet(Finished)
      /\ finished[r] # None
  BY NextUpdate, RunsAssumption DEF Finished, RegistryInv
<1>3. /\ DOMAIN before = Finished /\ DOMAIN after = Finished
      /\ \A q \in Finished : before[q] = Cardinality(DoneOf(q, f, l)) /\ before[q] \in Nat
      /\ \A q \in Finished : after[q] = Cardinality(DoneOf(q, f, l)')
  BY <1>2, DonesAreFinite DEF Dones
<1>4. \A q \in Finished \ {r} : DoneOf(q, f, l)' = DoneOf(q, f, l)
  BY <1>1 DEF DoneOf, Finished
<1>5. Cardinality(DoneOf(r, f, l)') = Cardinality(DoneOf(r, f, l)) + k
  <2> DEFINE n == Made(r) + 1
             all == Updates(finished[r])
  <2>1. /\ Made(r) \in Nat /\ Len(all) - Len(todo[r]) = Made(r)
        /\ Len(all) - Len(todo'[r]) = n
        /\ all[n] = u
    <3>1. Len(all) \in Nat /\ Len(todo[r]) \in Nat /\ Len(todo'[r]) = Len(todo[r]) - 1
      BY <1>1, <1>2, NextUpdate DEF All
    <3>2. all[n] = u /\ all = All(r)
      BY <1>2, NextUpdate DEF All
    <3>3. Len(all) - Len(todo[r]) = Made(r)
      BY <3>2 DEF Made
    <3> HIDE DEF all
    <3>4. Len(all) - Len(todo'[r]) = n
      BY <3>1, <3>3
    <3> QED BY <3>2, <3>3, <3>4, NextUpdate
  <2>2. /\ DoneOf(r, f, l) = { m \in 1 .. Made(r) : all[m].family = f /\ all[m].label = l }
        /\ DoneOf(r, f, l)' = { m \in 1 .. n : all[m].family = f /\ all[m].label = l }
    BY <2>1 DEF DoneOf
  <2>3. 1 .. n = (1 .. Made(r)) \union {n} /\ n \notin 1 .. Made(r)
    BY <2>1
  <2> HIDE DEF n, all, u
  <2>4. IsFiniteSet(DoneOf(r, f, l)) /\ Cardinality(DoneOf(r, f, l)) \in Nat
    BY <1>2, DonesAreFinite
  <2>5. CASE u.family = f /\ u.label = l
    <3>1. DoneOf(r, f, l)' = DoneOf(r, f, l) \union {n} /\ n \notin DoneOf(r, f, l)
      BY <2>1, <2>2, <2>3, <2>5
    <3> QED BY <2>4, <2>5, <3>1, FS_AddElement
  <2>6. CASE ~(u.family = f /\ u.label = l)
    <3>1. DoneOf(r, f, l)' = DoneOf(r, f, l)
      BY <2>1, <2>2, <2>3, <2>6
    <3> QED BY <2>4, <2>6, <3>1
  <2> QED BY <2>5, <2>6
<1>6. k \in Nat
  OBVIOUS
<1>7. after[r] = before[r] + k /\ \A q \in Finished \ {r} : after[q] = before[q]
  BY <1>2, <1>3, <1>4, <1>5
<1> HIDE DEF before, after, k
<1>8. SumFunctionOnSet(after, Finished) = SumFunctionOnSet(before, Finished) + k
  BY <1>2, <1>3, <1>6, <1>7, SumGrows
<1>9. SumFunctionOnSet(before, Finished) \in Nat
  BY <1>2, <1>3, SumWithout
<1>10. SumFunction(after) = SumFunction(before) + k /\ SumFunction(before) \in Nat
  BY <1>3, <1>8, <1>9, SumOfDomain
<1>11. Completed(f, l)' = SumFunction(after) /\ Completed(f, l) = SumFunction(before)
  BY DEF Completed, Dones, DoneOf, Finished, before, after
<1> QED BY <1>10, <1>11 DEF k

-----------------------------------------------------------------------------
\* A step of an update, and what it leaves to the other runs and families.

StepOf(r, u, to) ==
  /\ todo[r] # <<>> /\ u = Head(todo[r])
  /\ lock[u.family] \in {r, None}
  /\ stage' = [stage EXCEPT ![r] = to]
  /\ finished' = finished
  /\ \A q \in Runs \ {r} : old'[q] = old[q]
  /\ DOMAIN values' = ToSet(Families)
  /\ \A f \in ToSet(Families) \ {u.family} : values'[f] = values[f]
  /\ Seen(u.family) \subseteq Seen(u.family)'
  /\ \/ to # "lock" /\ lock' = [lock EXCEPT ![u.family] = r] /\ todo' = todo
     \/ /\ to = "lock" /\ lock' = [lock EXCEPT ![u.family] = None]
        /\ todo' = [todo EXCEPT ![r] = Tail(@)]

FamilyFits(f) ==
  /\ Seen(f) \subseteq Labels
  /\ f \in Counters =>
       /\ \A l \in Seen(f) : values[f][l] \in Nat \ {0}
       /\ \A l \in Labels : CounterFits(f, l)
  /\ f \in Histograms =>
       /\ \A l \in Seen(f) : values[f][l] \in [cells : [Cells -> Nat], count : Nat]
       /\ \A l \in Labels : SeriesFits(f, l)

LEMMA FamiliesFit ==
  ASSUME RegistryInv
  PROVE  \A f \in ToSet(Families) : FamilyFits(f)
BY DEF RegistryInv, ValuesFit, CountsFit, FamilyFits

\* Two runs never hold the lock of one family.
LEMMA OneHolder ==
  ASSUME RegistryInv, NEW r \in Runs, NEW u, NEW to, StepOf(r, u, to), NEW q \in Runs \ {r}
  PROVE  /\ u \in UpdateSet /\ u.family \in ToSet(Families)
         /\ ~Holds(q, u.family)
<1>1. u \in UpdateSet /\ u.family \in ToSet(Families)
  BY NextUpdate, UpdateFields DEF StepOf
<1>2. lock[u.family] # q
  BY RunsAssumption DEF StepOf
<1> QED BY <1>1, <1>2 DEF RegistryInv, LocksFit

LEMMA StepType ==
  ASSUME RegistryInv, NEW r \in Runs, NEW u, NEW to \in {"lock", "write", "cell", "count"},
         StepOf(r, u, to)
  PROVE  /\ (lock \in [ToSet(Families) -> Runs \union {None}])'
         /\ (todo \in [Runs -> Seq(UpdateSet)])'
         /\ (stage \in [Runs -> {"lock", "write", "cell", "count"}])'
         /\ u \in UpdateSet /\ u.family \in ToSet(Families) /\ u.label \in Labels
         /\ stage'[r] = to
         /\ todo'[r] = IF to = "lock" THEN Tail(todo[r]) ELSE todo[r]
         /\ lock'[u.family] = IF to = "lock" THEN None ELSE r
         /\ \A q \in Runs \ {r} : stage'[q] = stage[q] /\ todo'[q] = todo[q]
         /\ \A f \in ToSet(Families) \ {u.family} : lock'[f] = lock[f]
<1>1. /\ lock \in [ToSet(Families) -> Runs \union {None}]
      /\ todo \in [Runs -> Seq(UpdateSet)]
      /\ stage \in [Runs -> {"lock", "write", "cell", "count"}]
  BY DEF RegistryInv
<1>2. /\ u \in UpdateSet /\ u.family \in ToSet(Families) /\ u.label \in Labels
      /\ Tail(todo[r]) \in Seq(UpdateSet)
  BY NextUpdate, UpdateFields DEF StepOf
<1>3. stage' = [stage EXCEPT ![r] = to]
  BY DEF StepOf
<1>4. /\ (stage \in [Runs -> {"lock", "write", "cell", "count"}])'
      /\ stage'[r] = to /\ \A q \in Runs \ {r} : stage'[q] = stage[q]
  BY <1>1, <1>3
<1>5. CASE to = "lock"
  <2>1. todo' = [todo EXCEPT ![r] = Tail(@)] /\ lock' = [lock EXCEPT ![u.family] = None]
    BY <1>5 DEF StepOf
  <2> QED BY <1>1, <1>2, <1>4, <1>5, <2>1
<1>6. CASE to # "lock"
  <2>1. todo' = todo /\ lock' = [lock EXCEPT ![u.family] = r]
    BY <1>6 DEF StepOf
  <2> QED BY <1>1, <1>2, <1>4, <1>6, <2>1
<1> QED BY <1>5, <1>6

LEMMA StepKeepsWork ==
  ASSUME RegistryInv, NEW r \in Runs, NEW u, NEW to \in {"lock", "write", "cell", "count"},
         StepOf(r, u, to), NEW q \in Runs
  PROVE  WorkFits(q)'
<1>1. WorkFits(q) /\ finished' = finished
  BY DEF RegistryInv, StepOf
<1>2. CASE todo'[q] = todo[q]
  BY <1>1, <1>2 DEF WorkFits, Made, All
<1>3. CASE q = r /\ todo'[r] = Tail(todo[r])
  <2> DEFINE rest == Tail(todo[r])
  <2>1. /\ Len(todo[r]) \in Nat /\ Len(rest) = Len(todo[r]) - 1
        /\ Len(todo[r]) <= Len(All(r)) /\ Len(All(r)) \in Nat
        /\ \A n \in 1 .. Len(todo[r]) - 1 : rest[n] = todo[r][n + 1]
        /\ rest \in Seq(UpdateSet)
    BY <1>1, <1>3, NextUpdate DEF StepOf, WorkFits
  <2>2. All(r)' = All(r) /\ todo'[r] = rest
    BY <1>1, <1>3 DEF All
  <2> HIDE DEF rest
  <2>3. Made(r)' = Made(r) + 1 /\ Made(r) \in Int
    <3>1. Made(r) = Len(All(r)) - Len(todo[r]) /\ Made(r)' = Len(All(r)) - Len(rest)
      BY <2>2 DEF Made
    <3> QED BY <2>1, <3>1
  <2>4. ASSUME NEW n \in 1 .. Len(rest) PROVE rest[n] = All(r)[Made(r) + 1 + n]
    <3>1. n + 1 \in 1 .. Len(todo[r]) /\ rest[n] = todo[r][n + 1]
      BY <2>1
    <3>2. todo[r][n + 1] = All(r)[Made(r) + (n + 1)]
      BY <1>1, <1>3, <3>1 DEF WorkFits
    <3>3. Made(r) + (n + 1) = Made(r) + 1 + n
      BY <2>3
    <3> QED BY <3>1, <3>2, <3>3
  <2>5. \A n \in 1 .. Len(rest) : rest[n] = All(r)'[Made(r)' + n]
    BY <2>2, <2>3, <2>4
  <2>6. Len(rest) <= Len(All(r)')
    BY <2>1, <2>2
  <2> QED BY <1>3, <2>1, <2>2, <2>5, <2>6 DEF WorkFits
<1> QED BY <1>2, <1>3, StepType

LEMMA StepKeepsLocks ==
  ASSUME RegistryInv, NEW r \in Runs, NEW u, NEW to \in {"lock", "write", "cell", "count"},
         StepOf(r, u, to)
  PROVE  LocksFit'
<1>1. \A q \in Runs \ {r} : \A f : Holds(q, f)' = Holds(q, f)
  BY StepType DEF Holds
<1>2. \A f : Holds(r, f)' <=> to # "lock" /\ f = u.family
  BY StepType DEF Holds, StepOf
<1>3. LocksFit
  BY DEF RegistryInv
<1>4. ASSUME NEW q \in Runs, stage'[q] # "lock" PROVE Holds(q, Head(todo[q]).family)'
  <2>1. CASE q = r
    BY <1>4, <2>1, StepType DEF Holds, StepOf
  <2>2. CASE q # r
    BY <1>3, <1>4, <2>2, StepType DEF Holds, LocksFit
  <2> QED BY <2>1, <2>2
<1>5. ASSUME NEW f \in ToSet(Families), NEW q \in Runs PROVE lock'[f] = q <=> Holds(q, f)'
  <2>1. CASE f = u.family
    <3>1. q # r => ~Holds(q, f)
      BY <2>1, OneHolder
    <3> QED BY <1>1, <1>2, <2>1, <3>1, StepType, RunsAssumption
  <2>2. CASE f # u.family
    <3>1. lock'[f] = lock[f] /\ lock[f] = q <=> Holds(q, f)
      BY <1>3, <2>2, StepType DEF LocksFit
    <3>2. CASE q # r
      BY <1>1, <1>3, <2>2, <3>2, StepType DEF LocksFit
    <3>3. CASE q = r
      <4>1. ~Holds(r, f)
        BY <2>2 DEF Holds, StepOf
      <4>2. lock[f] # r /\ lock'[f] = lock[f]
        BY <1>3, <2>2, <4>1, StepType DEF LocksFit
      <4> QED BY <1>2, <2>2, <3>3, <4>2
    <3> QED BY <3>2, <3>3
  <2> QED BY <2>1, <2>2
<1> QED BY <1>4, <1>5 DEF LocksFit

LEMMA StepKeepsStages ==
  ASSUME RegistryInv, NEW r \in Runs, NEW u, NEW to \in {"lock", "write", "cell", "count"},
         StepOf(r, u, to), NEW q \in Runs \ {r}
  PROVE  StageFits(q)'
<1> DEFINE v == Head(todo[q])
<1>1. /\ stage'[q] = stage[q] /\ todo'[q] = todo[q] /\ old'[q] = old[q]
      /\ StageFits(q) /\ stage[q] \in {"lock", "write", "cell", "count"}
  BY StepType DEF StepOf, RegistryInv
<1>2. CASE stage[q] = "lock"
  BY <1>1, <1>2 DEF StageFits
<1>3. CASE stage[q] # "lock"
  <2>1. Holds(q, v.family)
    BY <1>3 DEF RegistryInv, LocksFit
  <2>2. v.family # u.family /\ v.family \in ToSet(Families)
    BY <2>1, OneHolder, NextUpdate, UpdateFields DEF Holds
  <2>3. values'[v.family] = values[v.family]
    BY <2>2 DEF StepOf
  <2> QED BY <1>1, <2>3 DEF StageFits, Get, Seen
<1> QED BY <1>2, <1>3

\* The step as the counts see it: its own family's, and those of the others.
LEMMA StepCompletes ==
  ASSUME RegistryInv, NEW r \in Runs, NEW u, NEW to \in {"lock", "write", "cell", "count"},
         StepOf(r, u, to), NEW f, NEW l
  PROVE  Completed(f, l)' =
           IF to = "lock" /\ f = u.family /\ l = u.label THEN Completed(f, l) + 1 ELSE Completed(f, l)
<1>1. CASE to = "lock"
  BY <1>1, CompletedGrows DEF StepOf
<1>2. CASE to # "lock"
  BY <1>2, CompletedStays DEF StepOf
<1> QED BY <1>1, <1>2

\* The run alone, where the stage is the count of this label.
Alone(r, at, u, l) == IF at = "count" /\ l = u.label THEN {r} ELSE {}

LEMMA StepHalfway ==
  ASSUME RegistryInv, NEW r \in Runs, NEW u, NEW to \in {"lock", "write", "cell", "count"},
         StepOf(r, u, to), NEW f \in ToSet(Families), NEW l
  PROVE  /\ f # u.family => Halfway(f, l)' = Halfway(f, l)
         /\ f = u.family =>
              /\ Halfway(f, l) = Alone(r, stage[r], u, l)
              /\ Halfway(f, l)' = Alone(r, to, u, l)
<1> DEFINE IsHalfway(q) == stage[q] = "count" /\ Head(todo[q]).family = f /\ Head(todo[q]).label = l
<1>h. Halfway(f, l) = { q \in Runs : IsHalfway(q) } /\ Halfway(f, l)' = { q \in Runs : IsHalfway(q)' }
  BY DEF Halfway
<1>s. /\ \A q \in Runs \ {r} : IsHalfway(q)' <=> IsHalfway(q)
      /\ IsHalfway(r) <=> stage[r] = "count" /\ f = u.family /\ l = u.label
      /\ IsHalfway(r)' <=> to = "count" /\ f = u.family /\ l = u.label
  <2>1. \A q \in Runs \ {r} : stage'[q] = stage[q] /\ todo'[q] = todo[q]
    BY StepType
  <2>2. u = Head(todo[r]) /\ stage'[r] = to
    BY StepType DEF StepOf
  <2>3. to = "count" => Head(todo'[r]) = u
    BY <2>2, StepType
  <2> QED BY <2>1, <2>2, <2>3
<1>1. CASE f # u.family
  BY <1>h, <1>s, <1>1
<1>2. CASE f = u.family
  <2>1. ASSUME NEW q \in Runs \ {r}, stage[q] = "count" PROVE Head(todo[q]).family # f
    <3>1. Holds(q, Head(todo[q]).family)
      BY <2>1 DEF RegistryInv, LocksFit
    <3> QED BY <1>2, <3>1, OneHolder
  <2>2. Halfway(f, l) = Alone(r, stage[r], u, l)
    BY <1>h, <1>s, <1>2, <2>1 DEF Alone
  <2>3. Halfway(f, l)' = Alone(r, to, u, l)
    BY <1>h, <1>s, <1>2, <2>1 DEF Alone
  <2> QED BY <1>2, <2>2, <2>3
<1> QED BY <1>1, <1>2

LEMMA StepKeepsElsewhere ==
  ASSUME RegistryInv, NEW r \in Runs, NEW u, NEW to \in {"lock", "write", "cell", "count"},
         StepOf(r, u, to), NEW f \in ToSet(Families) \ {u.family}
  PROVE  FamilyFits(f)'
<1>1. FamilyFits(f) /\ values'[f] = values[f]
  BY FamiliesFit DEF StepOf
<1>2. \A l : Completed(f, l)' = Completed(f, l) /\ Halfway(f, l)' = Halfway(f, l)
  BY StepCompletes, StepHalfway
<1> QED BY <1>1, <1>2 DEF FamilyFits, CounterFits, SeriesFits, Get, Seen

\* So much is left to show of a step: what it does to its own run and family.
LEMMA StepKeepsRegistry ==
  ASSUME RegistryInv, NEW r \in Runs, NEW u, NEW to \in {"lock", "write", "cell", "count"},
         StepOf(r, u, to),
         old' \in [Runs -> Nat], StageFits(r)', FamilyFits(u.family)'
  PROVE  RegistryInv'
<1>1. \A f \in ToSet(Families) : FamilyFits(f)'
  BY StepKeepsElsewhere
<1>2. ValuesFit' /\ CountsFit'
  <2>1. Counters \subseteq ToSet(Families) /\ Histograms \subseteq ToSet(Families)
    BY FamilyNames
  <2> QED BY <1>1, <2>1 DEF ValuesFit, CountsFit, FamilyFits, StepOf
<1>3. (finished \in [Runs -> Finishes \union {None}])' /\ IsFiniteSet(Finished)'
  BY DEF RegistryInv, StepOf, Finished
<1>4. \A q \in Runs : WorkFits(q)' /\ StageFits(q)'
  BY StepKeepsWork, StepKeepsStages
<1> QED BY <1>2, <1>3, <1>4, StepType, StepKeepsLocks DEF RegistryInv

-----------------------------------------------------------------------------
\* The steps of record_run.

LEMMA UpdateFacts ==
  ASSUME RegistryInv, NEW r \in Runs, NEW u \in ToSet(todo[r]), NEW from, NEW to,
         Update(r, u, from, to)
  PROVE  /\ todo[r] # <<>> /\ u = Head(todo[r]) /\ u \in UpdateSet
         /\ stage[r] = from /\ stage' = [stage EXCEPT ![r] = to] /\ finished' = finished
         /\ u.family \in ToSet(Families) /\ u.label \in Labels /\ u.cell \in 0 .. Overflow
         /\ u.cell = 0 => u.family \in Counters /\ u.family \notin Histograms
         /\ u.cell > 0 => u.family \in Histograms /\ u.family \notin Counters /\ u.cell \in Cells
         /\ from # "lock" => lock[u.family] = r
         /\ from = "write" => u.cell = 0 /\ old[r] = Get(u.family, u.label)
         /\ from \in {"cell", "count"} => u.cell > 0 /\ u.label \in Seen(u.family)
         /\ FamilyFits(u.family)
<1>1. todo[r] # <<>> /\ u = Head(todo[r])
  BY DEF ToSet, Update
<1>2. u \in UpdateSet
  BY <1>1, NextUpdate
<1>3. from # "lock" => lock[u.family] = r
  <2>1. from # "lock" => Holds(r, u.family)
    BY <1>1 DEF Update, RegistryInv, LocksFit
  <2> QED BY <1>2, <2>1, UpdateFields DEF RegistryInv, LocksFit
<1>4. u.cell > 0 => u.cell \in Cells
  BY <1>2, UpdateFields, CellsAre DEF Cells
<1>5. StageFits(r)
  BY DEF RegistryInv
<1> QED BY <1>1, <1>2, <1>3, <1>4, <1>5, UpdateFields, FamiliesFit, FamilyNames
        DEF Update, StageFits

LEMMA IncReadKeepsRegistry ==
  ASSUME RegistryInv, NEW r \in Runs, IncRead(r) PROVE RegistryInv'
<1>1. PICK u \in ToSet(todo[r]) :
        /\ Update(r, u, "lock", "write") /\ u.cell = 0
        /\ lock[u.family] = None /\ lock' = [lock EXCEPT ![u.family] = r] /\ todo' = todo
        /\ old' = [old EXCEPT ![r] = Get(u.family, u.label)] /\ values' = values
  BY DEF IncRead, Acquire
<1>2. old \in [Runs -> Nat] /\ DOMAIN values = ToSet(Families)
  BY DEF RegistryInv, ValuesFit
<1>3. Get(u.family, u.label) \in Nat
  BY <1>1, UpdateFacts DEF FamilyFits, Get
<1>4. StepOf(r, u, "write")
  BY <1>1, <1>2, UpdateFacts DEF StepOf, Seen
<1>5. old' \in [Runs -> Nat] /\ old'[r] = Get(u.family, u.label)
  BY <1>1, <1>2, <1>3
<1>6. StageFits(r)'
  <2>1. todo'[r] = todo[r] /\ stage'[r] = "write" /\ Get(u.family, u.label)' = Get(u.family, u.label)
    BY <1>1, <1>4, StepType DEF Get, Seen
  <2> QED BY <1>1, <1>5, <2>1, UpdateFacts DEF StageFits, Get, Seen
<1>7. FamilyFits(u.family)'
  <2>1. \A l : Completed(u.family, l)' = Completed(u.family, l)
    BY <1>4, StepCompletes
  <2> QED BY <1>1, <2>1, UpdateFacts DEF FamilyFits, CounterFits, Get, Seen
<1> QED BY <1>4, <1>5, <1>6, <1>7, StepKeepsRegistry

LEMMA IncWriteKeepsRegistry ==
  ASSUME RegistryInv, NEW r \in Runs, IncWrite(r) PROVE RegistryInv'
<1>1. PICK u \in ToSet(todo[r]) :
        /\ Update(r, u, "write", "lock")
        /\ lock' = [lock EXCEPT ![u.family] = None] /\ todo' = [todo EXCEPT ![r] = Tail(@)]
        /\ values' = [values EXCEPT ![u.family] = With(@, u.label, old[r] + 1)]
        /\ old' = [old EXCEPT ![r] = 0]
  BY DEF IncWrite, Release
<1> DEFINE f == u.family
           new == With(values[f], u.label, old[r] + 1)
<1>2. old \in [Runs -> Nat] /\ DOMAIN values = ToSet(Families)
  BY DEF RegistryInv, ValuesFit
<1>3. /\ old[r] = Get(f, u.label) /\ old[r] \in Nat
      /\ f \in Counters /\ f \notin Histograms /\ f \in ToSet(Families) /\ lock[f] = r
      /\ u.label \in Labels
  BY <1>1, <1>2, UpdateFacts
<1>4. values'[f] = new /\ \A g \in ToSet(Families) \ {f} : values'[g] = values[g]
  BY <1>1, <1>2, <1>3
<1>5. /\ DOMAIN new = Seen(f) \union {u.label}
      /\ \A l \in DOMAIN new : new[l] = IF l = u.label THEN old[r] + 1 ELSE values[f][l]
  BY DEF With, Seen
<1> HIDE DEF new
<1>6. StepOf(r, u, "lock")
  BY <1>1, <1>2, <1>3, <1>4, <1>5, UpdateFacts DEF StepOf, Seen
<1>7. old' \in [Runs -> Nat]
  BY <1>1, <1>2
<1>8. StageFits(r)'
  BY <1>6, StepType DEF StageFits
<1>9. FamilyFits(f)'
  <2>1. /\ \A l \in Seen(f) : values[f][l] \in Nat \ {0}
        /\ \A l \in Labels : CounterFits(f, l)
        /\ Seen(f) \subseteq Labels
    BY <1>1, <1>3, UpdateFacts DEF FamilyFits
  <2>2. \A l \in Seen(f)' : values'[f][l] \in Nat \ {0}
    BY <1>3, <1>4, <1>5, <2>1 DEF Seen
  <2>3. ASSUME NEW l \in Labels PROVE CounterFits(f, l)'
    <3>1. Completed(f, l)' = IF l = u.label THEN Completed(f, l) + 1 ELSE Completed(f, l)
      BY <1>6, StepCompletes
    <3>2. Get(f, l)' = IF l = u.label THEN old[r] + 1 ELSE Get(f, l)
      BY <1>4, <1>5 DEF Get, Seen
    <3> QED BY <1>3, <2>1, <3>1, <3>2 DEF CounterFits
  <2> QED BY <1>3, <1>4, <1>5, <2>1, <2>2, <2>3 DEF FamilyFits, Seen
<1> QED BY <1>6, <1>7, <1>8, <1>9, StepKeepsRegistry

LEMMA ObserveSeriesKeepsRegistry ==
  ASSUME RegistryInv, NEW r \in Runs, ObserveSeries(r) PROVE RegistryInv'
<1>1. PICK u \in ToSet(todo[r]) :
        /\ Update(r, u, "lock", "cell") /\ u.cell > 0
        /\ lock[u.family] = None /\ lock' = [lock EXCEPT ![u.family] = r] /\ todo' = todo
        /\ values' = IF u.label \in Seen(u.family) THEN values
                     ELSE [values EXCEPT ![u.family] = With(@, u.label, NewSeries)]
        /\ old' = old
  BY DEF ObserveSeries, Acquire
<1> DEFINE f == u.family
<1>2. old \in [Runs -> Nat] /\ DOMAIN values = ToSet(Families)
  BY DEF RegistryInv, ValuesFit
<1>3. /\ f \in Histograms /\ f \notin Counters /\ f \in ToSet(Families) /\ u.label \in Labels
      /\ FamilyFits(f)
  BY <1>1, UpdateFacts
<1>4. /\ DOMAIN values' = ToSet(Families)
      /\ \A g \in ToSet(Families) \ {f} : values'[g] = values[g]
      /\ Seen(f)' = Seen(f) \union {u.label}
      /\ \A l \in Seen(f) : values'[f][l] = values[f][l]
      /\ u.label \notin Seen(f) => values'[f][u.label] = NewSeries
  <2>1. CASE u.label \in Seen(f)
    BY <1>1, <1>2, <2>1 DEF Seen
  <2>2. CASE u.label \notin Seen(f)
    <3> DEFINE new == With(values[f], u.label, NewSeries)
    <3>1. /\ DOMAIN new = Seen(f) \union {u.label}
          /\ \A l \in DOMAIN new : new[l] = IF l = u.label THEN NewSeries ELSE values[f][l]
      BY DEF With, Seen
    <3> HIDE DEF new
    <3>2. values' = [values EXCEPT ![f] = new]
      BY <1>1, <2>2 DEF new
    <3> QED BY <1>2, <1>3, <2>2, <3>1, <3>2 DEF Seen
  <2> QED BY <2>1, <2>2
<1>5. StepOf(r, u, "cell")
  BY <1>1, <1>2, <1>4, UpdateFacts DEF StepOf
<1>6. StageFits(r)'
  <2>1. todo'[r] = todo[r] /\ stage'[r] = "cell"
    BY <1>1, <1>5, StepType
  <2> QED BY <1>1, <1>4, <2>1, UpdateFacts DEF StageFits
<1>7. FamilyFits(f)'
  <2>1. NewSeries \in [cells : [Cells -> Nat], count : Nat] /\ NewSeries.count = 0
        /\ SumFunction(NewSeries.cells) = 0
    <3>1. NewSeries.cells = [c \in Cells |-> 0] /\ NewSeries.count = 0
      BY DEF NewSeries
    <3>2. IsFiniteSet(Cells)
      BY CellsAre, UpTo DEF Cells
    <3>3. SumFunctionOnSet([c \in Cells |-> 0], Cells) = 0
      BY <3>2, SumOfZeros
    <3>4. SumFunction([c \in Cells |-> 0]) = SumFunctionOnSet([c \in Cells |-> 0], Cells)
      BY SumOfDomain
    <3> QED BY <3>1, <3>3, <3>4 DEF NewSeries
  <2>2. \A l : /\ Completed(f, l)' = Completed(f, l)
               /\ Halfway(f, l) = {} /\ Halfway(f, l)' = {}
    <3>1. stage[r] = "lock"
      BY <1>1, UpdateFacts
    <3> QED BY <1>3, <1>5, <3>1, StepCompletes, StepHalfway DEF Alone
  <2>3. Cardinality({}) = 0
    BY FS_EmptySet
  <2>4. ASSUME NEW l \in Labels PROVE SeriesFits(f, l)'
    <3>1. SeriesFits(f, l)
      BY <1>3 DEF FamilyFits
    <3>2. CASE l \in Seen(f)
      BY <1>4, <2>2, <3>1, <3>2 DEF SeriesFits
    <3>3. CASE l \notin Seen(f) /\ l = u.label
      <4>1. Completed(f, l) = 0
        BY <3>1, <3>3 DEF SeriesFits
      <4>2. l \in Seen(f)' /\ values'[f][l] = NewSeries
        BY <1>4, <3>3
      <4> QED BY <2>1, <2>2, <2>3, <4>1, <4>2 DEF SeriesFits
    <3>4. CASE l \notin Seen(f) /\ l # u.label
      BY <1>4, <2>2, <3>1, <3>4 DEF SeriesFits
    <3> QED BY <3>2, <3>3, <3>4
  <2>5. \A l \in Seen(f)' : values'[f][l] \in [cells : [Cells -> Nat], count : Nat]
    BY <1>3, <1>4, <2>1 DEF FamilyFits
  <2>6. Seen(f)' \subseteq Labels
    BY <1>3, <1>4 DEF FamilyFits
  <2> QED BY <1>3, <2>4, <2>5, <2>6 DEF FamilyFits
<1> QED BY <1>1, <1>2, <1>5, <1>6, <1>7, StepKeepsRegistry

\* A series that is observed: nothing but one of its fields changes.
LEMMA SeriesField ==
  ASSUME NEW d, NEW l \in DOMAIN d, NEW new
  PROVE  /\ DOMAIN [d EXCEPT ![l] = new] = DOMAIN d
         /\ [d EXCEPT ![l] = new][l] = new
         /\ \A m \in DOMAIN d \ {l} : [d EXCEPT ![l] = new][m] = d[m]
OBVIOUS

LEMMA CounterGrowsType ==
  ASSUME NEW S, NEW f \in [S -> Nat], NEW k \in S
  PROVE  [f EXCEPT ![k] = @ + 1] \in [S -> Nat]
OBVIOUS

LEMMA ObserveCellKeepsRegistry ==
  ASSUME RegistryInv, NEW r \in Runs, ObserveCell(r) PROVE RegistryInv'
<1>1. PICK u \in ToSet(todo[r]) :
        /\ Update(r, u, "cell", "count")
        /\ values' = [values EXCEPT ![u.family][u.label].cells[u.cell] = @ + 1]
        /\ lock' = lock /\ todo' = todo /\ old' = old
  BY DEF ObserveCell
<1> DEFINE f == u.family
           l == u.label
           series == values[f][l]
           cells == [series.cells EXCEPT ![u.cell] = @ + 1]
           new == [series EXCEPT !.cells = cells]
<1>2. old \in [Runs -> Nat] /\ DOMAIN values = ToSet(Families)
  BY DEF RegistryInv, ValuesFit
<1>3. /\ f \in Histograms /\ f \notin Counters /\ f \in ToSet(Families) /\ l \in Labels
      /\ u.cell \in Cells /\ l \in Seen(f) /\ FamilyFits(f) /\ lock[f] = r /\ u.cell > 0
      /\ stage[r] = "cell"
  BY <1>1, UpdateFacts
<1>4. series \in [cells : [Cells -> Nat], count : Nat]
  BY <1>3 DEF FamilyFits
<1>5. values' = [values EXCEPT ![f] = [values[f] EXCEPT ![l] = new]]
  BY <1>1
<1>6. new \in [cells : [Cells -> Nat], count : Nat] /\ new.cells = cells /\ new.count = series.count
  BY <1>3, <1>4, CounterGrowsType
<1>7. SumFunction(cells) = SumFunction(series.cells) + 1 /\ SumFunction(series.cells) \in Nat
  <2>1. series.cells \in [Cells -> Nat]
    BY <1>4
  <2>2. IsFiniteSet(Cells)
    BY CellsAre, UpTo DEF Cells
  <2> QED BY <1>3, <2>1, <2>2, CounterGrows
<1> HIDE DEF new, cells
<1>8. /\ DOMAIN values' = ToSet(Families)
      /\ \A g \in ToSet(Families) \ {f} : values'[g] = values[g]
      /\ Seen(f)' = Seen(f)
      /\ values'[f][l] = new
      /\ \A m \in Seen(f) \ {l} : values'[f][m] = values[f][m]
  BY <1>2, <1>3, <1>5, SeriesField DEF Seen
<1>9. StepOf(r, u, "count")
  <2>1. lock \in [ToSet(Families) -> Runs \union {None}]
    BY DEF RegistryInv
  <2>2. lock' = [lock EXCEPT ![f] = r]
    BY <1>1, <1>3, <2>1
  <2>3. /\ todo[r] # <<>> /\ u = Head(todo[r])
        /\ stage' = [stage EXCEPT ![r] = "count"] /\ finished' = finished
    BY <1>1, UpdateFacts
  <2> QED BY <1>1, <1>3, <1>8, <2>2, <2>3 DEF StepOf
<1>10. StageFits(r)'
  <2>1. todo'[r] = todo[r] /\ stage'[r] = "count"
    BY <1>9, StepType
  <2>2. u = Head(todo'[r]) /\ u.label \in Seen(f)'
    BY <1>1, <1>3, <1>8, <2>1, UpdateFacts
  <2> QED BY <1>3, <2>1, <2>2 DEF StageFits
<1>11. FamilyFits(f)'
  <2>1. \A m : /\ Completed(f, m)' = Completed(f, m) /\ Halfway(f, m) = {}
               /\ Halfway(f, m)' = IF m = l THEN {r} ELSE {}
    <3> SUFFICES ASSUME NEW m
                 PROVE  /\ Completed(f, m)' = Completed(f, m) /\ Halfway(f, m) = {}
                        /\ Halfway(f, m)' = IF m = l THEN {r} ELSE {}
      OBVIOUS
    <3>1. Completed(f, m)' = Completed(f, m)
      BY <1>9, StepCompletes
    <3>2. Halfway(f, m) = Alone(r, stage[r], u, m) /\ Halfway(f, m)' = Alone(r, "count", u, m)
      BY <1>3, <1>9, StepHalfway
    <3> QED BY <1>3, <3>1, <3>2 DEF Alone
  <2>2. Cardinality({}) = 0 /\ Cardinality({r}) = 1
    BY FS_EmptySet, FS_Singleton
  <2>3. ASSUME NEW m \in Labels PROVE SeriesFits(f, m)'
    <3>1. SeriesFits(f, m)
      BY <1>3 DEF FamilyFits
    <3>2. CASE m = l
      <4>1. series.count = Completed(f, l) /\ SumFunction(series.cells) = series.count + 0
        BY <1>3, <2>1, <2>2, <3>1, <3>2 DEF SeriesFits
      <4>2. /\ new.count = Completed(f, l)' /\ SumFunction(new.cells) = new.count + 1
            /\ Cardinality(Halfway(f, l)') = 1
        BY <1>4, <1>6, <1>7, <2>1, <2>2, <4>1
      <4>3. values'[f][m] = new /\ m \in Seen(f)'
        BY <1>3, <1>8, <3>2
      <4> QED BY <3>2, <4>2, <4>3 DEF SeriesFits
    <3>3. CASE m # l
      BY <1>8, <2>1, <3>1, <3>3 DEF SeriesFits
    <3> QED BY <3>2, <3>3
  <2>4. \A m \in Seen(f)' : values'[f][m] \in [cells : [Cells -> Nat], count : Nat]
    BY <1>3, <1>6, <1>8 DEF FamilyFits
  <2> QED BY <1>3, <1>8, <2>3, <2>4 DEF FamilyFits
<1> QED BY <1>1, <1>2, <1>9, <1>10, <1>11, StepKeepsRegistry

LEMMA ObserveCountKeepsRegistry ==
  ASSUME RegistryInv, NEW r \in Runs, ObserveCount(r) PROVE RegistryInv'
<1>1. PICK u \in ToSet(todo[r]) :
        /\ Update(r, u, "count", "lock")
        /\ lock' = [lock EXCEPT ![u.family] = None] /\ todo' = [todo EXCEPT ![r] = Tail(@)]
        /\ values' = [values EXCEPT ![u.family][u.label].count = @ + 1]
        /\ old' = old
  BY DEF ObserveCount, Release
<1> DEFINE f == u.family
           l == u.label
           series == values[f][l]
           new == [series EXCEPT !.count = @ + 1]
<1>2. old \in [Runs -> Nat] /\ DOMAIN values = ToSet(Families)
  BY DEF RegistryInv, ValuesFit
<1>3. /\ f \in Histograms /\ f \notin Counters /\ f \in ToSet(Families) /\ l \in Labels
      /\ l \in Seen(f) /\ FamilyFits(f) /\ lock[f] = r
      /\ stage[r] = "count"
  BY <1>1, UpdateFacts
<1>4. series \in [cells : [Cells -> Nat], count : Nat]
  BY <1>3 DEF FamilyFits
<1>5. values' = [values EXCEPT ![f] = [values[f] EXCEPT ![l] = new]]
  BY <1>1
<1>6. /\ new \in [cells : [Cells -> Nat], count : Nat]
      /\ new.cells = series.cells /\ new.count = series.count + 1
  BY <1>4
<1> HIDE DEF new
<1>7. /\ DOMAIN values' = ToSet(Families)
      /\ \A g \in ToSet(Families) \ {f} : values'[g] = values[g]
      /\ Seen(f)' = Seen(f)
      /\ values'[f][l] = new
      /\ \A m \in Seen(f) \ {l} : values'[f][m] = values[f][m]
  BY <1>2, <1>3, <1>5, SeriesField DEF Seen
<1>8. StepOf(r, u, "lock")
  BY <1>1, <1>2, <1>3, <1>7, UpdateFacts DEF StepOf
<1>9. StageFits(r)'
  BY <1>8, StepType DEF StageFits
<1>10. FamilyFits(f)'
  <2>1. \A m : /\ Completed(f, m)' = IF m = l THEN Completed(f, m) + 1 ELSE Completed(f, m)
               /\ Halfway(f, m) = IF m = l THEN {r} ELSE {}
               /\ Halfway(f, m)' = {}
    <3> SUFFICES ASSUME NEW m
                 PROVE  /\ Completed(f, m)' = IF m = l THEN Completed(f, m) + 1 ELSE Completed(f, m)
                        /\ Halfway(f, m) = IF m = l THEN {r} ELSE {}
                        /\ Halfway(f, m)' = {}
      OBVIOUS
    <3>1. Completed(f, m)' = IF m = l THEN Completed(f, m) + 1 ELSE Completed(f, m)
      BY <1>8, StepCompletes
    <3>2. Halfway(f, m) = Alone(r, stage[r], u, m) /\ Halfway(f, m)' = Alone(r, "lock", u, m)
      BY <1>3, <1>8, StepHalfway
    <3> QED BY <1>3, <3>1, <3>2 DEF Alone
  <2>2. Cardinality({}) = 0 /\ Cardinality({r}) = 1
    BY FS_EmptySet, FS_Singleton
  <2>3. ASSUME NEW m \in Labels PROVE SeriesFits(f, m)'
    <3>1. SeriesFits(f, m)
      BY <1>3 DEF FamilyFits
    <3>2. CASE m = l
      <4>1. series.count = Completed(f, l) /\ SumFunction(series.cells) = series.count + 1
        BY <1>3, <2>1, <2>2, <3>1, <3>2 DEF SeriesFits
      <4>2. /\ new.count = Completed(f, l)' /\ SumFunction(new.cells) = new.count + 0
            /\ Cardinality(Halfway(f, l)') = 0
        <5>1. new.count \in Nat /\ SumFunction(new.cells) = new.count
          BY <1>4, <1>6, <4>1
        <5>2. new.count = Completed(f, l)' /\ Halfway(f, l)' = {}
          BY <1>6, <2>1, <4>1
        <5> QED BY <2>2, <5>1, <5>2
      <4>3. values'[f][m] = new /\ m \in Seen(f)'
        BY <1>3, <1>7, <3>2
      <4> QED BY <3>2, <4>2, <4>3 DEF SeriesFits
    <3>3. CASE m # l
      BY <1>7, <2>1, <3>1, <3>3 DEF SeriesFits
    <3> QED BY <3>2, <3>3
  <2>4. \A m \in Seen(f)' : values'[f][m] \in [cells : [Cells -> Nat], count : Nat]
    BY <1>3, <1>6, <1>7 DEF FamilyFits
  <2> QED BY <1>3, <1>7, <2>3, <2>4 DEF FamilyFits
<1> QED BY <1>1, <1>2, <1>8, <1>9, <1>10, StepKeepsRegistry

LEMMA RecordRunKeepsRegistry ==
  ASSUME RegistryInv, NEW r \in Runs, RecordRun(r) PROVE RegistryInv'
<1>1. PICK done \in Finishes :
        /\ finished[r] = None /\ finished' = [finished EXCEPT ![r] = done]
        /\ todo' = [todo EXCEPT ![r] = Updates(done)]
        /\ values' = values /\ lock' = lock /\ stage' = stage /\ old' = old
  BY DEF RecordRun
<1>2. /\ todo[r] = <<>> /\ stage[r] = "lock"
      /\ todo'[r] = Updates(done) /\ Updates(done) \in Seq(UpdateSet)
      /\ finished'[r] = done /\ done # None
      /\ \A q \in Runs \ {r} : todo'[q] = todo[q] /\ finished'[q] = finished[q]
  <2>1. Len(todo[r]) <= 0 /\ todo[r] \in Seq(UpdateSet)
    BY <1>1 DEF RegistryInv, WorkFits, All
  <2>2. todo[r] = <<>>
    BY <2>1
  <2>3. stage[r] = "lock"
    BY <2>2 DEF RegistryInv, LocksFit, Holds
  <2> QED BY <1>1, <2>2, <2>3, UpdatesType, RunsAssumption DEF RegistryInv
<1>3. /\ (finished \in [Runs -> Finishes \union {None}])'
      /\ (todo \in [Runs -> Seq(UpdateSet)])'
  BY <1>1, <1>2 DEF RegistryInv
<1>4. IsFiniteSet(Finished)'
  <2>1. Finished' = Finished \union {r}
    BY <1>1, <1>2 DEF Finished
  <2> QED BY <2>1, FS_AddElement DEF RegistryInv
<1>5. \A q \in Runs \ {r} : WorkFits(q)'
  <2> SUFFICES ASSUME NEW q \in Runs \ {r} PROVE WorkFits(q)'
    OBVIOUS
  <2>1. WorkFits(q) /\ todo'[q] = todo[q] /\ All(q)' = All(q)
    BY <1>2 DEF RegistryInv, All
  <2>2. Made(q)' = Made(q)
    BY <2>1 DEF Made
  <2> QED BY <2>1, <2>2 DEF WorkFits
<1>6. WorkFits(r)'
  <2>1. All(r)' = todo'[r] /\ Len(todo'[r]) \in Nat
    BY <1>2 DEF All
  <2>2. Made(r)' = 0
    BY <2>1 DEF Made
  <2>3. \A n \in 1 .. Len(todo'[r]) : 0 + n = n
    BY <2>1
  <2> QED BY <1>2, <2>1, <2>2, <2>3 DEF WorkFits
<1>7. \A q \in Runs : StageFits(q)'
  BY <1>1, <1>2 DEF RegistryInv, StageFits, Get, Seen
<1>8. LocksFit'
  <2>1. \A q \in Runs : \A f : Holds(q, f)' <=> Holds(q, f)
    BY <1>1, <1>2 DEF Holds
  <2>2. \A q \in Runs : stage[q] # "lock" => todo'[q] = todo[q]
    BY <1>2
  <2> QED BY <1>1, <2>1, <2>2 DEF RegistryInv, LocksFit
<1>9. ValuesFit'
  BY <1>1 DEF RegistryInv, ValuesFit, Seen
<1>10. CountsFit'
  <2>1. \A f, l : Completed(f, l)' = Completed(f, l)
    BY CompletedStarts
  <2>2. \A f, l : Halfway(f, l)' = Halfway(f, l)
    BY <1>1, <1>2 DEF Halfway
  <2> QED BY <1>1, <2>1, <2>2 DEF RegistryInv, CountsFit, CounterFits, SeriesFits, Get, Seen
<1> QED BY <1>1, <1>3, <1>4, <1>5, <1>6, <1>7, <1>8, <1>9, <1>10 DEF RegistryInv

-----------------------------------------------------------------------------
LEMMA RenderLeavesRegistry ==
  ASSUME Render PROVE UNCHANGED registry
BY DEF Render, BeginScrape, ShowCount, ScrapeRaises, CopySeries, ShowCell, ShowSeriesCount,
       NextFamily, Answer, AnswerError, Rendering

LEMMA QuietKeepsRegistry ==
  ASSUME RegistryInv, UNCHANGED registry PROVE RegistryInv'
<1>1. /\ values' = values /\ lock' = lock /\ finished' = finished /\ todo' = todo
      /\ stage' = stage /\ old' = old
  BY DEF registry
<1>2. ValuesFit' /\ LocksFit' /\ IsFiniteSet(Finished)'
  BY <1>1 DEF RegistryInv, ValuesFit, LocksFit, Holds, Seen, Finished
<1>3. \A r \in Runs : WorkFits(r)' /\ StageFits(r)'
  BY <1>1 DEF RegistryInv, WorkFits, StageFits, Made, All, Get, Seen
<1>4. CountsFit'
  <2>1. \A f, l : Completed(f, l)' = Completed(f, l) /\ Halfway(f, l)' = Halfway(f, l)
    BY <1>1 DEF Completed, Halfway
  <2> QED BY <1>1, <2>1 DEF RegistryInv, CountsFit, CounterFits, SeriesFits, Get, Seen
<1> QED BY <1>1, <1>2, <1>3, <1>4 DEF RegistryInv

LEMMA InitEstablishesRegistry == Init => RegistryInv
<1> SUFFICES ASSUME Init PROVE RegistryInv
  OBVIOUS
<1>1. /\ \A f \in ToSet(Families) : values[f] = <<>> /\ lock[f] = None
      /\ \A r \in Runs : finished[r] = None /\ todo[r] = <<>> /\ stage[r] = "lock"
      /\ DOMAIN values = ToSet(Families)
  BY DEF Init
<1>2. \A f \in ToSet(Families) : Seen(f) = {}
  BY <1>1 DEF Seen
<1>3. Counters \subseteq ToSet(Families) /\ Histograms \subseteq ToSet(Families)
  BY FamilyNames
<1>4. ValuesFit
  BY <1>1, <1>2, <1>3 DEF ValuesFit
<1>5. /\ lock \in [ToSet(Families) -> Runs \union {None}]
      /\ finished \in [Runs -> Finishes \union {None}]
      /\ todo \in [Runs -> Seq(UpdateSet)]
      /\ stage \in [Runs -> {"lock", "write", "cell", "count"}]
      /\ old \in [Runs -> Nat]
  BY DEF Init
<1>6. Finished = {} /\ IsFiniteSet({})
  BY <1>1, FS_EmptySet DEF Finished
<1>7. \A r \in Runs : WorkFits(r) /\ StageFits(r)
  BY <1>1, <1>5 DEF WorkFits, StageFits, All
<1>8. LocksFit
  BY <1>1, RunsAssumption DEF LocksFit, Holds
<1>9. \A f, l : Completed(f, l) = 0
  <2>1. \A f, l : DOMAIN Dones(f, l) = {}
    BY <1>6 DEF Dones
  <2> QED BY <2>1, CompletedIs, SumOfDomain, SumOfNone
<1>10. CountsFit
  BY <1>2, <1>3, <1>9 DEF CountsFit, CounterFits, SeriesFits, Get
<1> QED BY <1>4, <1>5, <1>6, <1>7, <1>8, <1>10 DEF RegistryInv

LEMMA NextKeepsRegistry == RegistryInv /\ [Next]_vars => RegistryInv'
<1> SUFFICES ASSUME RegistryInv, [Next]_vars PROVE RegistryInv'
  OBVIOUS
<1>1. CASE Render
  BY <1>1, RenderLeavesRegistry, QuietKeepsRegistry
<1>2. ASSUME NEW r \in Runs, Count(r) PROVE RegistryInv'
  BY <1>2, RecordRunKeepsRegistry, IncReadKeepsRegistry, IncWriteKeepsRegistry,
     ObserveSeriesKeepsRegistry, ObserveCellKeepsRegistry, ObserveCountKeepsRegistry DEF Count
<1>3. CASE UNCHANGED vars
  BY <1>3, QuietKeepsRegistry DEF vars, registry
<1> QED BY <1>1, <1>2, <1>3 DEF Next

LEMMA AlwaysRegistryInv == Spec => []RegistryInv
BY InitEstablishesRegistry, NextKeepsRegistry, PTL DEF Spec

\* For every number of runs, of outcomes and of buckets: a counter is what was counted, and
\* a series whose observation is under way is one bucket ahead of itself, and no more.
THEOREM NoUpdateIsEverLost == Spec => []NoUpdateIsLost
<1>1. RegistryInv => NoUpdateIsLost
  BY FamilyNames DEF RegistryInv, CountsFit, CounterFits, SeriesFits, Get, NoUpdateIsLost
<1> QED BY <1>1, AlwaysRegistryInv, PTL

-----------------------------------------------------------------------------
\* The types.

\* What is todo is the end of what record_run was given.
LEMMA WorkIsSuffix ==
  ASSUME RegistryInv, NEW r \in Runs
  PROVE  IsSuffix(todo[r], IF finished[r] = None THEN <<>> ELSE Updates(finished[r]))
<1> DEFINE s == todo[r]
           all == All(r)
           k == Len(s)
           n == Len(all)
<1>1. /\ s \in Seq(UpdateSet) /\ all \in Seq(UpdateSet)
      /\ k <= n
      /\ \A i \in 1 .. k : s[i] = all[(n - k) + i]
  BY UpdatesType DEF RegistryInv, WorkFits, Made, All
<1> HIDE DEF s, all
<1>2. k \in Nat /\ n \in Nat
  BY <1>1
<1>3. /\ Len(Reverse(s)) = k /\ Len(Reverse(all)) = n
      /\ \A i \in 1 .. k : Reverse(s)[i] = s[(k - i) + 1]
      /\ \A i \in 1 .. n : Reverse(all)[i] = all[(n - i) + 1]
      /\ Reverse(s) \in Seq(UpdateSet) /\ Reverse(all) \in Seq(UpdateSet)
  <2>1. ASSUME NEW w \in Seq(UpdateSet)
        PROVE  /\ Reverse(w) \in Seq(UpdateSet) /\ Len(Reverse(w)) = Len(w)
               /\ \A i \in 1 .. Len(w) : Reverse(w)[i] = w[(Len(w) - i) + 1]
    <3>1. \A i \in 1 .. Len(w) : w[(Len(w) - i) + 1] \in UpdateSet
      OBVIOUS
    <3>2. Reverse(w) = [i \in 1 .. Len(w) |-> w[(Len(w) - i) + 1]]
      BY DEF Reverse
    <3> QED BY <3>1, <3>2
  <2> QED BY <1>1, <2>1
<1>4. \A i \in 1 .. k : Reverse(s)[i] = Reverse(all)[i]
  <2> SUFFICES ASSUME NEW i \in 1 .. k PROVE Reverse(s)[i] = Reverse(all)[i]
    OBVIOUS
  <2>1. /\ (k - i) + 1 \in 1 .. k /\ i \in 1 .. n
        /\ (n - k) + ((k - i) + 1) = (n - i) + 1
    BY <1>1, <1>2
  <2>2. s[(k - i) + 1] = all[(n - k) + ((k - i) + 1)]
    BY <1>1, <2>1
  <2> QED BY <1>3, <2>1, <2>2
<1>5. SubSeq(Reverse(s), 1, k) = SubSeq(Reverse(all), 1, k)
  <2> HIDE DEF k, n
  <2> QED BY <1>1, <1>2, <1>3, <1>4
<1>6. IsSuffix(s, all)
  BY <1>1, <1>3, <1>5 DEF IsSuffix, IsPrefix
<1> QED BY <1>6 DEF s, all, All

\* The scrape is a record of these fields throughout.
ScrapeFits ==
  /\ DOMAIN scrape = {"at", "shown", "size", "copied", "cell", "sum", "lines", "beside"}
  /\ scrape.at \in 0 .. Len(Families) + 1 /\ scrape.cell \in 0 .. Overflow + 1
  /\ scrapes \in 0 .. MaxScrapes

LEMMA AlwaysScrapeFits == Spec => []ScrapeFits
<1>1. Len(Families) = 6 /\ Overflow \in Nat /\ MaxScrapes \in Nat /\ Cells = 1 .. Overflow
  BY FamilyNames, CellsAre, BoundsAssumption DEF Cells
<1>2. Init => ScrapeFits
  BY <1>1 DEF Init, ScrapeFits, NoScrape
<1>3. ScrapeFits /\ [Next]_vars => ScrapeFits'
  <2> SUFFICES ASSUME ScrapeFits, [Next]_vars PROVE ScrapeFits'
    OBVIOUS
  <2> USE <1>1
  <2>1. ASSUME UNCHANGED <<scrape, scrapes>> PROVE ScrapeFits'
    BY <2>1 DEF ScrapeFits
  <2>2. ASSUME NEW r \in Runs, Count(r) PROVE ScrapeFits'
    <3>1. CASE RecordRun(r)
      BY <3>1 DEF RecordRun, ScrapeFits
    <3>2. CASE UNCHANGED <<scrape, scrapes>>
      BY <2>1, <3>2
    <3> QED BY <2>2, <3>1, <3>2
            DEF Count, IncRead, IncWrite, ObserveSeries, ObserveCell, ObserveCount, Update, scraper
  <2>3. CASE BeginScrape
    BY <2>3 DEF BeginScrape, ScrapeFits, NoScrape
  <2>4. CASE ShowCount
    BY <2>4 DEF ShowCount, Rendering, ScrapeFits
  <2>5. CASE ScrapeRaises
    BY <2>5 DEF ScrapeRaises, Rendering, ScrapeFits, NoScrape
  <2>6. CASE CopySeries
    BY <2>6 DEF CopySeries, Rendering, ScrapeFits
  <2>7. CASE ShowCell
    BY <2>7 DEF ShowCell, Rendering, ScrapeFits
  <2>8. CASE ShowSeriesCount
    BY <2>8 DEF ShowSeriesCount, Rendering, ScrapeFits
  <2>9. CASE NextFamily
    BY <2>9 DEF NextFamily, Rendering, ScrapeFits, NoScrape
  <2>10. CASE Answer \/ AnswerError
    BY <2>10 DEF Answer, AnswerError, Rendering, ScrapeFits, NoScrape
  <2>11. CASE UNCHANGED vars
    BY <2>1, <2>11 DEF vars
  <2> QED BY <2>2, <2>3, <2>4, <2>5, <2>6, <2>7, <2>8, <2>9, <2>10, <2>11 DEF Next, Render
<1> QED BY <1>2, <1>3, PTL DEF Spec

\* The types hold: a scrape never meets a count that is 0, and what a run has yet to update
\* is always the end of what it was given.
THEOREM TypeCorrect == Spec => []TypeOK
<1>1. RegistryInv /\ ScrapeFits => TypeOK
  BY WorkIsSuffix DEF RegistryInv, ValuesFit, ScrapeFits, TypeOK
<1> QED BY <1>1, AlwaysRegistryInv, AlwaysScrapeFits, PTL

-----------------------------------------------------------------------------
\* What a scrape shows.  A family of Once is updated at most once by each run, so a sample of
\* it is a number of runs: at least those that were done when the scrape began, at most all.

Once == {"tickets_total", "handoffs_total", "iterations_per_ticket", "pipeline_duration_seconds"}

AnyCell == 0 .. Overflow

\* The runs of R that count f and l, in one of these cells, now or later.
Having(R, f, l, cells) ==
  { r \in R : \E n \in 1 .. Len(All(r)) :
      /\ All(r)[n].family = f /\ All(r)[n].label = l /\ All(r)[n].cell \in cells }

\* How many of its updates have reached a cell.
Ahead(r) == IF stage[r] = "count" THEN Made(r) + 1 ELSE Made(r)

Celled(f, l, c) ==
  { r \in Finished : \E n \in 1 .. Ahead(r) :
      /\ All(r)[n].family = f /\ All(r)[n].label = l /\ All(r)[n].cell = c }

\* A cell is the number of the runs that have reached it.
CellsFit ==
  \A f \in Histograms : \A l \in Labels : \A c \in Cells :
    IF l \in Seen(f) THEN values[f][l].cells[c] = Cardinality(Celled(f, l, c))
    ELSE Celled(f, l, c) = {}

\* The runs that were done when the scrape began.
Settled == Finished \ scrape.beside

Within(v, f, l, cells) ==
  /\ v \in Nat
  /\ Cardinality(Having(Settled, f, l, cells)) <= v
  /\ v <= Cardinality(Having(Finished, f, l, cells))

LineFits(f, l) ==
  LET line == scrape.lines[<<f, l>>] IN
  IF f \in Counters THEN Within(line, f, l, AnyCell)
  ELSE Within(line.inf, f, l, AnyCell) /\ Within(line.count, f, l, AnyCell)

\* The labels of f that a settled run has counted.
Wanted(f) == { l \in Labels : Having(Settled, f, l, AnyCell) # {} }

\* The series the scrape is in.
SeriesShown ==
  /\ scrape.cell = 0 => scrape.shown = {}
  /\ scrape.cell <= 1 => scrape.sum = 0
  /\ scrape.cell > 0 =>
       /\ scrape.shown \subseteq scrape.copied /\ scrape.copied \subseteq Seen(Family)
       /\ Wanted(Family) \subseteq scrape.copied
       /\ scrape.cell > 1 => scrape.copied # scrape.shown
       /\ scrape.copied # scrape.shown =>
            Within(scrape.sum, Family, Current, 1 .. scrape.cell - 1)

LinesFit ==
  /\ scrape.beside \subseteq Finished
  /\ \A r \in Settled : todo[r] = <<>>
  /\ IsFiniteSet(DOMAIN scrape.lines)
  /\ DOMAIN scrape.lines \subseteq ToSet(Families) \X Labels
  /\ \A f \in Once, l \in Labels : <<f, l>> \in DOMAIN scrape.lines => LineFits(f, l)
  /\ \A n \in 1 .. scrape.at - 1 : Families[n] \in Once =>
       \A l \in Wanted(Families[n]) : <<Families[n], l>> \in DOMAIN scrape.lines
  /\ \A l \in scrape.shown : <<Family, l>> \in DOMAIN scrape.lines
  /\ Family \in Histograms => SeriesShown

LinesInv == scrape.at \in 1 .. Len(Families) => LinesFit
-----------------------------------------------------------------------------
\* What one run updates of each family.

Mentions(s, f, l) == \E n \in 1 .. Len(s) : s[n].family = f /\ s[n].label = l

NoneIn(s, f) == \A n \in 1 .. Len(s) : s[n].family # f

OnceIn(s, f) == \A m, n \in 1 .. Len(s) : s[m].family = f /\ s[n].family = f => m = n

LEMMA ConcatIndex ==
  ASSUME NEW S, NEW s \in Seq(S), NEW t \in Seq(S)
  PROVE  /\ s \o t \in Seq(S) /\ Len(s) \in Nat /\ Len(t) \in Nat
         /\ Len(s \o t) = Len(s) + Len(t)
         /\ \A n \in 1 .. Len(s) : n \in 1 .. Len(s \o t) /\ (s \o t)[n] = s[n]
         /\ \A n \in 1 .. Len(t) : /\ Len(s) + n \in 1 .. Len(s \o t)
                                   /\ (s \o t)[Len(s) + n] = t[n]
         /\ \A n \in 1 .. Len(s \o t) :
              n \in 1 .. Len(s) \/ \E m \in 1 .. Len(t) : n = Len(s) + m
<1>1. s \o t \in Seq(S) /\ Len(s) \in Nat /\ Len(t) \in Nat /\ Len(s \o t) = Len(s) + Len(t)
  OBVIOUS
<1>2. \A n \in 1 .. Len(s \o t) : (s \o t)[n] = IF n <= Len(s) THEN s[n] ELSE t[n - Len(s)]
  OBVIOUS
<1>3. ASSUME NEW n \in 1 .. Len(s \o t), n \notin 1 .. Len(s)
      PROVE  \E m \in 1 .. Len(t) : n = Len(s) + m
  <2>1. n - Len(s) \in 1 .. Len(t) /\ n = Len(s) + (n - Len(s))
    BY <1>1, <1>3
  <2> QED BY <2>1
<1>4. ASSUME NEW n \in 1 .. Len(s) PROVE n \in 1 .. Len(s \o t) /\ (s \o t)[n] = s[n]
  <2>1. n \in 1 .. Len(s \o t) /\ n <= Len(s)
    BY <1>1
  <2> QED BY <1>2, <2>1
<1>5. ASSUME NEW n \in 1 .. Len(t)
      PROVE  Len(s) + n \in 1 .. Len(s \o t) /\ (s \o t)[Len(s) + n] = t[n]
  <2>1. /\ Len(s) + n \in 1 .. Len(s \o t) /\ ~(Len(s) + n <= Len(s))
        /\ (Len(s) + n) - Len(s) = n
    BY <1>1
  <2> QED BY <1>2, <2>1
<1> QED BY <1>1, <1>3, <1>4, <1>5

LEMMA ConcatMentions ==
  ASSUME NEW S, NEW s \in Seq(S), NEW t \in Seq(S)
  PROVE  /\ \A f, l : Mentions(s \o t, f, l) <=> Mentions(s, f, l) \/ Mentions(t, f, l)
         /\ \A f : OnceIn(s, f) /\ OnceIn(t, f) /\ (NoneIn(s, f) \/ NoneIn(t, f)) => OnceIn(s \o t, f)
         /\ \A f : NoneIn(s, f) /\ NoneIn(t, f) => NoneIn(s \o t, f)
<1> DEFINE st == s \o t
<1>1. /\ \A n \in 1 .. Len(s) : n \in 1 .. Len(st) /\ st[n] = s[n]
      /\ \A n \in 1 .. Len(t) : Len(s) + n \in 1 .. Len(st) /\ st[Len(s) + n] = t[n]
      /\ \A n \in 1 .. Len(st) :
           n \in 1 .. Len(s) \/ \E m \in 1 .. Len(t) : n = Len(s) + m
  BY ConcatIndex
<1> HIDE DEF st
<1>2. ASSUME NEW f, NEW l PROVE Mentions(st, f, l) <=> Mentions(s, f, l) \/ Mentions(t, f, l)
  <2>1. ASSUME Mentions(st, f, l) PROVE Mentions(s, f, l) \/ Mentions(t, f, l)
    <3>1. PICK n \in 1 .. Len(st) : st[n].family = f /\ st[n].label = l
      BY <2>1 DEF Mentions
    <3>2. CASE n \in 1 .. Len(s)
      BY <1>1, <3>1, <3>2 DEF Mentions
    <3>3. CASE n \notin 1 .. Len(s)
      <4>1. PICK m \in 1 .. Len(t) : n = Len(s) + m
        BY <1>1, <3>3
      <4>2. st[n] = t[m]
        BY <1>1, <4>1
      <4> QED BY <3>1, <4>2 DEF Mentions
    <3> QED BY <3>2, <3>3
  <2>2. ASSUME Mentions(s, f, l) PROVE Mentions(st, f, l)
    <3>1. PICK n \in 1 .. Len(s) : s[n].family = f /\ s[n].label = l
      BY <2>2 DEF Mentions
    <3>2. n \in 1 .. Len(st) /\ st[n] = s[n]
      BY <1>1
    <3> QED BY <3>1, <3>2 DEF Mentions
  <2>3. ASSUME Mentions(t, f, l) PROVE Mentions(st, f, l)
    <3>1. PICK n \in 1 .. Len(t) : t[n].family = f /\ t[n].label = l
      BY <2>3 DEF Mentions
    <3>2. Len(s) + n \in 1 .. Len(st) /\ st[Len(s) + n] = t[n]
      BY <1>1
    <3> QED BY <3>1, <3>2 DEF Mentions
  <2> QED BY <2>1, <2>2, <2>3
<1>3. ASSUME NEW f, OnceIn(s, f), OnceIn(t, f), NoneIn(s, f) \/ NoneIn(t, f) PROVE OnceIn(st, f)
  <2> SUFFICES ASSUME NEW m \in 1 .. Len(st), NEW n \in 1 .. Len(st),
                      st[m].family = f, st[n].family = f
               PROVE  m = n
    BY DEF OnceIn
  <2>1. CASE NoneIn(t, f)
    <3>1. \A k \in 1 .. Len(st) : st[k].family = f => k \in 1 .. Len(s)
      <4> SUFFICES ASSUME NEW k \in 1 .. Len(st), k \notin 1 .. Len(s) PROVE st[k].family # f
        OBVIOUS
      <4>1. PICK j \in 1 .. Len(t) : k = Len(s) + j
        BY <1>1
      <4>2. st[k] = t[j]
        BY <1>1, <4>1
      <4> QED BY <2>1, <4>2 DEF NoneIn
    <3> QED BY <1>1, <1>3, <3>1 DEF OnceIn
  <2>2. CASE NoneIn(s, f)
    <3>1. m \notin 1 .. Len(s) /\ n \notin 1 .. Len(s)
      <4>1. \A k \in 1 .. Len(s) : st[k].family # f
        BY <1>1, <2>2 DEF NoneIn
      <4> QED BY <4>1
    <3>2. PICK i \in 1 .. Len(t) : m = Len(s) + i
      BY <1>1, <3>1
    <3>3. PICK j \in 1 .. Len(t) : n = Len(s) + j
      BY <1>1, <3>1
    <3>4. st[m] = t[i] /\ st[n] = t[j]
      BY <1>1, <3>2, <3>3
    <3>5. i = j
      BY <1>3, <3>4 DEF OnceIn
    <3> QED BY <3>2, <3>3, <3>5
  <2> QED BY <1>3, <2>1, <2>2
<1>4. ASSUME NEW f, NoneIn(s, f), NoneIn(t, f) PROVE NoneIn(st, f)
  <2> SUFFICES ASSUME NEW n \in 1 .. Len(st) PROVE st[n].family # f
    BY DEF NoneIn
  <2>1. CASE n \in 1 .. Len(s)
    BY <1>1, <1>4, <2>1 DEF NoneIn
  <2>2. CASE n \notin 1 .. Len(s)
    <3>1. PICK m \in 1 .. Len(t) : n = Len(s) + m
      BY <1>1, <2>2
    <3>2. st[n] = t[m] /\ t[m].family # f
      BY <1>1, <1>4, <3>1 DEF NoneIn
    <3> QED BY <3>2
  <2> QED BY <2>1, <2>2
<1> QED BY <1>2, <1>3, <1>4 DEF st

\* A list of updates of one family.
LEMMA OneFamily ==
  ASSUME NEW s, NEW f, \A n \in 1 .. Len(s) : s[n].family = f
  PROVE  /\ \A g : g # f => NoneIn(s, g) /\ OnceIn(s, g) /\ \A l : ~Mentions(s, g, l)
         /\ Len(s) = 1 => OnceIn(s, f) /\ \A l : Mentions(s, f, l) <=> s[1].label = l
         /\ Len(s) = 0 => NoneIn(s, f) /\ OnceIn(s, f) /\ \A l : ~Mentions(s, f, l)
<1>1. ASSUME NEW g, g # f PROVE NoneIn(s, g) /\ OnceIn(s, g) /\ \A l : ~Mentions(s, g, l)
  BY <1>1 DEF NoneIn, OnceIn, Mentions
<1>2. ASSUME Len(s) = 1 PROVE OnceIn(s, f) /\ \A l : Mentions(s, f, l) <=> s[1].label = l
  <2>1. 1 .. Len(s) = {1}
    BY <1>2
  <2>2. OnceIn(s, f)
    BY <2>1 DEF OnceIn
  <2>3. ASSUME NEW l PROVE Mentions(s, f, l) <=> s[1].label = l
    BY <2>1 DEF Mentions
  <2> QED BY <2>2, <2>3
<1>3. ASSUME Len(s) = 0 PROVE NoneIn(s, f) /\ OnceIn(s, f) /\ \A l : ~Mentions(s, f, l)
  <2>1. 1 .. Len(s) = {}
    BY <1>3
  <2> QED BY <2>1 DEF NoneIn, OnceIn, Mentions
<1> QED BY <1>1, <1>2, <1>3

\* A run counts one status, and its reason if it was handed off, one number of decisions and
\* one duration.
LEMMA UpdatesOnce ==
  ASSUME NEW f \in Finishes
  PROVE  /\ \A family \in Once : OnceIn(Updates(f), family)
         /\ \A l : Mentions(Updates(f), "tickets_total", l) <=> l = f.status
         /\ \A l : Mentions(Updates(f), "handoffs_total", l) <=> f.reason # None /\ l = f.reason
         /\ \E l : Mentions(Updates(f), "iterations_per_ticket", l)
         /\ \E l : Mentions(Updates(f), "pipeline_duration_seconds", l)
<1> DEFINE blank == ""
           Words == STRING \union {blank, f.status, f.reason}
           S == [family : ToSet(Families), label : Words, cell : 0 .. Overflow]
           a == <<Inc("tickets_total", f.status)>>
           b == IF f.reason = None THEN <<>> ELSE <<Inc("handoffs_total", f.reason)>>
           c == <<Observe("iterations_per_ticket", blank, CellOf(f.decisions))>>
           d == [n \in 1 .. Len(f.tools) |-> Inc("tool_calls_total", f.tools[n])]
           e == [n \in 1 .. Len(f.violations) |-> Inc("grounding_violations_total", f.violations[n])]
           g == <<Observe("pipeline_duration_seconds", f.status, CellOf(f.span))>>
<1>1. Updates(f) = a \o b \o c \o d \o e \o g
  BY DEF Updates
<1>2. f.tools \in Seq(STRING) /\ f.violations \in Seq(STRING)
  BY FinishesAssumption
<1>w. f.status \in Words /\ f.reason \in Words /\ blank \in Words /\ STRING \subseteq Words
  OBVIOUS
<1> HIDE DEF Words, blank
<1>3. /\ \A family \in ToSet(Families), l \in Words : Inc(family, l) \in S
      /\ \A v : \A family \in ToSet(Families), l \in Words : Observe(family, l, CellOf(v)) \in S
  <2>1. 0 \in 0 .. Overflow /\ \A v : CellOf(v) \in 0 .. Overflow
    BY CellsAre DEF Cells
  <2> QED BY <2>1 DEF Inc, Observe
<1>n. {"tickets_total", "handoffs_total", "tool_calls_total", "grounding_violations_total",
       "iterations_per_ticket", "pipeline_duration_seconds"} \subseteq ToSet(Families)
  BY FamilyNames DEF Counters
<1>f. /\ \A family, l : Inc(family, l).family = family /\ Inc(family, l).label = l
      /\ \A family, l, k : /\ Observe(family, l, k).family = family
                           /\ Observe(family, l, k).label = l
  BY DEF Inc, Observe
<1> HIDE DEF S
<1>s. \A x \in S : /\ <<x>> \in Seq(S) /\ Len(<<x>>) = 1 /\ <<x>>[1] = x
                   /\ \A n \in 1 .. Len(<<x>>) : <<x>>[n] = x
  OBVIOUS
<1>4. /\ a \in Seq(S) /\ Len(a) = 1 /\ a[1].label = f.status
      /\ \A n \in 1 .. Len(a) : a[n].family = "tickets_total"
  <2>1. Inc("tickets_total", f.status) \in S
    BY <1>3, <1>n, <1>w
  <2> QED BY <1>f, <1>s, <2>1
<1>5. /\ b \in Seq(S) /\ Len(b) = IF f.reason = None THEN 0 ELSE 1
      /\ f.reason # None => b[1].label = f.reason
      /\ \A n \in 1 .. Len(b) : b[n].family = "handoffs_total"
  <2>1. CASE f.reason = None
    <3>1. b = <<>>
      BY <2>1
    <3>2. <<>> \in Seq(S) /\ Len(<<>>) = 0 /\ 1 .. 0 = {}
      OBVIOUS
    <3> QED BY <2>1, <3>1, <3>2
  <2>2. CASE f.reason # None
    <3>1. Inc("handoffs_total", f.reason) \in S
      BY <1>3, <1>n, <1>w
    <3>2. b = <<Inc("handoffs_total", f.reason)>>
      BY <2>2
    <3> QED BY <1>f, <1>s, <2>2, <3>1, <3>2
  <2> QED BY <2>1, <2>2
<1>6. /\ c \in Seq(S) /\ Len(c) = 1 /\ c[1].label = blank
      /\ \A n \in 1 .. Len(c) : c[n].family = "iterations_per_ticket"
  <2>1. Observe("iterations_per_ticket", blank, CellOf(f.decisions)) \in S
    BY <1>3, <1>n, <1>w
  <2> QED BY <1>f, <1>s, <2>1
<1>7. /\ g \in Seq(S) /\ Len(g) = 1 /\ g[1].label = f.status
      /\ \A n \in 1 .. Len(g) : g[n].family = "pipeline_duration_seconds"
  <2>1. Observe("pipeline_duration_seconds", f.status, CellOf(f.span)) \in S
    BY <1>3, <1>n, <1>w
  <2> QED BY <1>f, <1>s, <2>1
<1>t. ASSUME NEW family \in ToSet(Families), NEW words \in Seq(STRING)
      PROVE  LET q == [n \in 1 .. Len(words) |-> Inc(family, words[n])] IN
             q \in Seq(S) /\ \A n \in 1 .. Len(q) : q[n].family = family
  <2> DEFINE q == [n \in 1 .. Len(words) |-> Inc(family, words[n])]
  <2>1. ASSUME NEW n \in 1 .. Len(words) PROVE Inc(family, words[n]) \in S
    <3>1. words[n] \in STRING
      OBVIOUS
    <3>2. words[n] \in Words
      BY <3>1, <1>w
    <3> QED BY <3>2, <1>3
  <2>2. Len(words) \in Nat
    OBVIOUS
  <2>3. q \in Seq(S) /\ Len(q) = Len(words)
    BY <2>1, <2>2
  <2>4. \A n \in 1 .. Len(words) : q[n].family = family
    BY <1>f
  <2> QED BY <2>3, <2>4
<1>8. d \in Seq(S) /\ \A n \in 1 .. Len(d) : d[n].family = "tool_calls_total"
  <2>1. "tool_calls_total" \in ToSet(Families)
    BY <1>n
  <2> QED BY <1>2, <1>t, <2>1
<1>9. e \in Seq(S) /\ \A n \in 1 .. Len(e) : e[n].family = "grounding_violations_total"
  <2>1. "grounding_violations_total" \in ToSet(Families)
    BY <1>n
  <2> QED BY <1>2, <1>t, <2>1
<1> HIDE DEF a, b, c, d, e, g
<1> DEFINE ab == a \o b
           abc == ab \o c
           abcd == abc \o d
           abcde == abcd \o e
<1>10. ab \in Seq(S) /\ abc \in Seq(S) /\ abcd \in Seq(S) /\ abcde \in Seq(S)
  BY <1>4, <1>5, <1>6, <1>8, <1>9, ConcatIndex
<1>11. Updates(f) = abcde \o g
  BY <1>1
<1> HIDE DEF ab, abc, abcd, abcde
<1>12. \A family, l :
         Mentions(Updates(f), family, l) <=>
           \/ Mentions(a, family, l) \/ Mentions(b, family, l) \/ Mentions(c, family, l)
           \/ Mentions(d, family, l) \/ Mentions(e, family, l) \/ Mentions(g, family, l)
  <2>1. \A family, l : Mentions(ab, family, l) <=> Mentions(a, family, l) \/ Mentions(b, family, l)
    BY <1>4, <1>5, ConcatMentions DEF ab
  <2>2. \A family, l : Mentions(abc, family, l) <=> Mentions(ab, family, l) \/ Mentions(c, family, l)
    BY <1>6, <1>10, ConcatMentions DEF abc
  <2>3. \A family, l : Mentions(abcd, family, l) <=> Mentions(abc, family, l) \/ Mentions(d, family, l)
    BY <1>8, <1>10, ConcatMentions DEF abcd
  <2>4. \A family, l : Mentions(abcde, family, l) <=> Mentions(abcd, family, l) \/ Mentions(e, family, l)
    BY <1>9, <1>10, ConcatMentions DEF abcde
  <2>5. \A family, l :
          Mentions(Updates(f), family, l) <=> Mentions(abcde, family, l) \/ Mentions(g, family, l)
    BY <1>7, <1>10, <1>11, ConcatMentions
  <2> QED BY <2>1, <2>2, <2>3, <2>4, <2>5
<1>13. /\ \A family : family # "tickets_total" => NoneIn(a, family) /\ \A l : ~Mentions(a, family, l)
       /\ \A family : family # "handoffs_total" => NoneIn(b, family) /\ \A l : ~Mentions(b, family, l)
       /\ \A family : family # "iterations_per_ticket" =>
            NoneIn(c, family) /\ \A l : ~Mentions(c, family, l)
       /\ \A family : family # "tool_calls_total" => NoneIn(d, family) /\ \A l : ~Mentions(d, family, l)
       /\ \A family : family # "grounding_violations_total" =>
            NoneIn(e, family) /\ \A l : ~Mentions(e, family, l)
       /\ \A family : family # "pipeline_duration_seconds" =>
            NoneIn(g, family) /\ \A l : ~Mentions(g, family, l)
  <2>1. ASSUME NEW s, NEW own, \A n \in 1 .. Len(s) : s[n].family = own
        PROVE  \A family : family # own => NoneIn(s, family) /\ \A l : ~Mentions(s, family, l)
    BY <2>1, OneFamily
  <2>2. \A family : family # "tickets_total" => NoneIn(a, family) /\ \A l : ~Mentions(a, family, l)
    BY <1>4, <2>1
  <2>3. \A family : family # "handoffs_total" => NoneIn(b, family) /\ \A l : ~Mentions(b, family, l)
    BY <1>5, <2>1
  <2>4. \A family : family # "iterations_per_ticket" =>
          NoneIn(c, family) /\ \A l : ~Mentions(c, family, l)
    BY <1>6, <2>1
  <2>5. \A family : family # "tool_calls_total" => NoneIn(d, family) /\ \A l : ~Mentions(d, family, l)
    BY <1>8, <2>1
  <2>6. \A family : family # "grounding_violations_total" =>
          NoneIn(e, family) /\ \A l : ~Mentions(e, family, l)
    BY <1>9, <2>1
  <2>7. \A family : family # "pipeline_duration_seconds" =>
          NoneIn(g, family) /\ \A l : ~Mentions(g, family, l)
    BY <1>7, <2>1
  <2> QED BY <2>2, <2>3, <2>4, <2>5, <2>6, <2>7
<1>14. /\ \A l : Mentions(a, "tickets_total", l) <=> l = f.status
       /\ \A l : Mentions(b, "handoffs_total", l) <=> f.reason # None /\ l = f.reason
       /\ \A l : Mentions(c, "iterations_per_ticket", l) <=> l = blank
       /\ \A l : Mentions(g, "pipeline_duration_seconds", l) <=> l = f.status
  <2>1. /\ \A l : Mentions(a, "tickets_total", l) <=> a[1].label = l
        /\ \A l : Mentions(c, "iterations_per_ticket", l) <=> c[1].label = l
        /\ \A l : Mentions(g, "pipeline_duration_seconds", l) <=> g[1].label = l
    BY <1>4, <1>6, <1>7, OneFamily
  <2>2. f.reason = None => \A l : ~Mentions(b, "handoffs_total", l)
    BY <1>5, OneFamily
  <2>3. f.reason # None => \A l : Mentions(b, "handoffs_total", l) <=> b[1].label = l
    BY <1>5, OneFamily
  <2> QED BY <1>4, <1>5, <1>6, <1>7, <2>1, <2>2, <2>3
<1>15. ASSUME NEW family \in Once PROVE OnceIn(Updates(f), family)
  <2>1. family # "tool_calls_total" /\ family # "grounding_violations_total"
    BY DEF Once
  <2>2. /\ OnceIn(a, family) /\ OnceIn(b, family) /\ OnceIn(c, family) /\ OnceIn(d, family)
        /\ OnceIn(e, family) /\ OnceIn(g, family)
    <3>1. OnceIn(a, family)
      BY <1>4, OneFamily
    <3>2. OnceIn(b, family)
      BY <1>5, OneFamily
    <3>3. OnceIn(c, family)
      BY <1>6, OneFamily
    <3>4. OnceIn(d, family)
      BY <1>8, <2>1, OneFamily
    <3>5. OnceIn(e, family)
      BY <1>9, <2>1, OneFamily
    <3>6. OnceIn(g, family)
      BY <1>7, OneFamily
    <3> QED BY <3>1, <3>2, <3>3, <3>4, <3>5, <3>6
  <2>3. NoneIn(d, family) /\ NoneIn(e, family)
    BY <1>13, <2>1
  <2>4. /\ OnceIn(ab, family)
        /\ family # "tickets_total" /\ family # "handoffs_total" => NoneIn(ab, family)
    <3>1. NoneIn(a, family) \/ NoneIn(b, family)
      BY <1>13
    <3> QED BY <1>4, <1>5, <1>13, <2>2, <3>1, ConcatMentions DEF ab
  <2>5. /\ OnceIn(abc, family)
        /\ family = "pipeline_duration_seconds" => NoneIn(abc, family)
    <3>1. NoneIn(ab, family) \/ NoneIn(c, family)
      BY <1>13, <2>4
    <3>2. OnceIn(abc, family)
      BY <1>6, <1>10, <2>2, <2>4, <3>1, ConcatMentions DEF abc
    <3>3. family = "pipeline_duration_seconds" => NoneIn(ab, family) /\ NoneIn(c, family)
      BY <1>13, <2>4
    <3> QED BY <1>6, <1>10, <3>2, <3>3, ConcatMentions DEF abc
  <2>6. /\ OnceIn(abcd, family)
        /\ family = "pipeline_duration_seconds" => NoneIn(abcd, family)
    BY <1>8, <1>10, <2>2, <2>3, <2>5, ConcatMentions DEF abcd
  <2>7. /\ OnceIn(abcde, family)
        /\ family = "pipeline_duration_seconds" => NoneIn(abcde, family)
    BY <1>9, <1>10, <2>2, <2>3, <2>6, ConcatMentions DEF abcde
  <2>8. NoneIn(abcde, family) \/ NoneIn(g, family)
    BY <1>13, <2>7
  <2> QED BY <1>7, <1>10, <1>11, <2>2, <2>7, <2>8, ConcatMentions
<1>16. /\ \A l : Mentions(Updates(f), "tickets_total", l) <=> l = f.status
       /\ \A l : Mentions(Updates(f), "handoffs_total", l) <=> f.reason # None /\ l = f.reason
       /\ Mentions(Updates(f), "iterations_per_ticket", blank)
       /\ Mentions(Updates(f), "pipeline_duration_seconds", f.status)
  <2>1. ASSUME NEW l PROVE Mentions(Updates(f), "tickets_total", l) <=> l = f.status
    BY <1>12, <1>13, <1>14
  <2>2. ASSUME NEW l
        PROVE  Mentions(Updates(f), "handoffs_total", l) <=> f.reason # None /\ l = f.reason
    BY <1>12, <1>13, <1>14
  <2>3. Mentions(c, "iterations_per_ticket", blank) /\ Mentions(g, "pipeline_duration_seconds", f.status)
    BY <1>14
  <2> QED BY <1>12, <2>1, <2>2, <2>3
<1> QED BY <1>15, <1>16

-----------------------------------------------------------------------------
\* What the finished runs have, and have made, of a family.

LEMMA FinishedHas ==
  ASSUME RegistryInv, NEW r \in Finished
  PROVE  /\ r \in Runs /\ finished[r] \in Finishes /\ All(r) = Updates(finished[r])
         /\ All(r) \in Seq(UpdateSet) /\ Len(All(r)) \in Nat
         /\ \A n \in 1 .. Len(All(r)) : All(r)[n] \in UpdateSet /\ All(r)[n].cell \in AnyCell
         /\ \A f \in Once : OnceIn(All(r), f)
         /\ Made(r) \in Nat /\ Ahead(r) \in Nat
         /\ Made(r) <= Ahead(r) /\ Ahead(r) <= Len(All(r))
         /\ todo[r] = <<>> => Made(r) = Len(All(r)) /\ Ahead(r) = Len(All(r))
<1>1. /\ r \in Runs /\ finished[r] \in Finishes /\ finished[r] # None
      /\ todo[r] \in Seq(UpdateSet)
  BY DEF RegistryInv, Finished
<1>2. All(r) = Updates(finished[r]) /\ All(r) \in Seq(UpdateSet) /\ Len(All(r)) \in Nat
  BY <1>1, UpdatesType DEF All
<1>3. \A n \in 1 .. Len(All(r)) : All(r)[n] \in UpdateSet /\ All(r)[n].cell \in AnyCell
  <2>1. \A n \in 1 .. Len(All(r)) : All(r)[n] \in UpdateSet
    BY <1>2
  <2> QED BY <2>1, UpdateFields DEF AnyCell
<1>4. \A f \in Once : OnceIn(All(r), f)
  BY <1>1, <1>2, UpdatesOnce
<1>5. Made(r) \in Nat /\ Made(r) <= Len(All(r)) /\ (todo[r] = <<>> => Made(r) = Len(All(r)))
  <2>1. Len(todo[r]) \in Nat /\ (todo[r] = <<>> => Len(todo[r]) = 0)
    BY <1>1
  <2>2. Len(todo[r]) <= Len(All(r)) /\ Made(r) = Len(All(r)) - Len(todo[r])
    BY <1>1 DEF RegistryInv, WorkFits, Made
  <2> DEFINE k == Len(todo[r])
             n == Len(All(r))
  <2>3. k \in Nat /\ n \in Nat /\ k <= n /\ Made(r) = n - k /\ (todo[r] = <<>> => k = 0)
    BY <1>2, <2>1, <2>2
  <2> HIDE DEF k, n
  <2>4. Made(r) \in Nat /\ Made(r) <= n /\ (todo[r] = <<>> => Made(r) = n)
    BY <2>3
  <2> QED BY <2>4 DEF n
<1>6. stage[r] = "count" => todo[r] # <<>> /\ Made(r) + 1 <= Len(All(r))
  <2>1. stage[r] = "count" => todo[r] # <<>>
    BY <1>1 DEF RegistryInv, LocksFit, Holds
  <2> QED BY <1>1, <2>1, NextUpdate
<1>7. /\ Ahead(r) \in Nat /\ Made(r) <= Ahead(r) /\ Ahead(r) <= Len(All(r))
      /\ todo[r] = <<>> => Ahead(r) = Len(All(r))
  BY <1>5, <1>6 DEF Ahead
<1> QED BY <1>1, <1>2, <1>3, <1>4, <1>5, <1>7

LEMMA HavingIsFinite ==
  ASSUME RegistryInv, NEW R \in SUBSET Finished
  PROVE  \A f, l, cells :
           /\ Having(R, f, l, cells) \subseteq R
           /\ IsFiniteSet(Having(R, f, l, cells)) /\ Cardinality(Having(R, f, l, cells)) \in Nat
<1>1. IsFiniteSet(R)
  BY FS_Subset DEF RegistryInv
<1>2. \A f, l, cells : Having(R, f, l, cells) \subseteq R
  BY DEF Having
<1> QED BY <1>1, <1>2, FS_Subset, FS_CardinalityType

LEMMA SettledIsFinished == Settled \subseteq Finished
  BY DEF Settled

\* The runs that have completed a label: all that are settled, and no more than are finished.
LEMMA CompletedWithin ==
  ASSUME RegistryInv, \A r \in Settled : todo[r] = <<>>, NEW f \in Once, NEW l
  PROVE  Within(Completed(f, l), f, l, AnyCell)
<1> DEFINE low == Having(Settled, f, l, AnyCell)
           high == Having(Finished, f, l, AnyCell)
           g == Dones(f, l)
           A == [r \in Finished |-> IF r \in low THEN {r} ELSE {}]
           B == [r \in Finished |-> IF r \in high THEN {r} ELSE {}]
<1>1. IsFiniteSet(Finished) /\ low \subseteq Finished /\ high \subseteq Finished
  BY SettledIsFinished DEF RegistryInv, Having
<1>2. /\ DOMAIN g = Finished /\ \A r \in Finished : g[r] \in Nat
      /\ \A r \in Finished : g[r] = Cardinality(DoneOf(r, f, l))
  BY DonesType DEF Dones
<1>3. /\ \A x : IsFiniteSet({x}) /\ Cardinality({x}) = 1
      /\ IsFiniteSet({}) /\ Cardinality({}) = 0
  BY FS_Singleton, FS_EmptySet
<1>4. \A r \in Finished :
        /\ A[r] = IF r \in low THEN {r} ELSE {}
        /\ B[r] = IF r \in high THEN {r} ELSE {}
  OBVIOUS
<1>5. Covered(A, Finished) = low /\ Covered(B, Finished) = high
  BY <1>1 DEF Covered
<1>6. ASSUME NEW r \in Finished
      PROVE  DoneOf(r, f, l) =
               { n \in 1 .. Made(r) : All(r)[n].family = f /\ All(r)[n].label = l }
  BY DonesAreFinite, FinishedHas DEF DoneOf
<1>7. ASSUME NEW r \in low PROVE g[r] >= 1
  <2>1. r \in Settled /\ r \in Finished
    BY SettledIsFinished DEF Having
  <2>2. PICK n \in 1 .. Len(All(r)) : All(r)[n].family = f /\ All(r)[n].label = l
    BY DEF Having
  <2>3. Made(r) = Len(All(r))
    BY <2>1, FinishedHas
  <2>4. n \in DoneOf(r, f, l)
    BY <1>6, <2>1, <2>2, <2>3
  <2>5. IsFiniteSet(DoneOf(r, f, l)) /\ Cardinality(DoneOf(r, f, l)) \in Nat
    BY <2>1, DonesAreFinite
  <2>6. Cardinality(DoneOf(r, f, l)) # 0
    BY <2>4, <2>5, FS_EmptySet
  <2> QED BY <1>2, <2>1, <2>5, <2>6
<1>8. ASSUME NEW r \in Finished PROVE g[r] = 0 \/ (g[r] = 1 /\ r \in high)
  <2>1. CASE DoneOf(r, f, l) = {}
    BY <1>2, <1>3, <2>1
  <2>2. CASE DoneOf(r, f, l) # {}
    <3>1. PICK n \in DoneOf(r, f, l) : TRUE
      BY <2>2
    <3>2. n \in 1 .. Made(r) /\ All(r)[n].family = f /\ All(r)[n].label = l
      BY <1>6, <3>1
    <3>3. \A m \in 1 .. Made(r) : m \in 1 .. Len(All(r))
      BY FinishedHas
    <3>4. \A m \in DoneOf(r, f, l) : m = n
      <4>1. OnceIn(All(r), f)
        BY FinishedHas
      <4> QED BY <1>6, <3>2, <3>3, <4>1 DEF OnceIn
    <3>5. DoneOf(r, f, l) = {n}
      BY <3>1, <3>4
    <3>6. r \in high
      <4>1. n \in 1 .. Len(All(r)) /\ All(r)[n].cell \in AnyCell
        BY <3>2, <3>3, FinishedHas
      <4> QED BY <3>2, <4>1 DEF Having
    <3> QED BY <1>2, <1>3, <3>5, <3>6
  <2> QED BY <2>1, <2>2
<1>9. \A r \in Finished : IsFiniteSet(A[r]) /\ Cardinality(A[r]) <= g[r]
  <2> SUFFICES ASSUME NEW r \in Finished PROVE IsFiniteSet(A[r]) /\ Cardinality(A[r]) <= g[r]
    OBVIOUS
  <2> HIDE DEF A, low, g
  <2>1. CASE r \in low
    <3>1. A[r] = {r}
      BY <1>4, <2>1
    <3>2. IsFiniteSet(A[r]) /\ Cardinality(A[r]) = 1
      BY <1>3, <3>1
    <3> QED BY <1>2, <1>3, <1>7, <2>1, <3>2
  <2>2. CASE r \notin low
    <3>1. A[r] = {}
      BY <1>4, <2>2
    <3>2. IsFiniteSet(A[r]) /\ Cardinality(A[r]) = 0
      BY <1>3, <3>1
    <3> QED BY <1>2, <1>2, <1>3, <1>7, <2>2, <3>2
  <2> QED BY <2>1, <2>2
<1>10. \A r \in Finished : IsFiniteSet(B[r]) /\ g[r] <= Cardinality(B[r])
  <2> SUFFICES ASSUME NEW r \in Finished PROVE IsFiniteSet(B[r]) /\ g[r] <= Cardinality(B[r])
    OBVIOUS
  <2> HIDE DEF B, high, g
  <2>1. CASE r \in high
    <3>1. B[r] = {r}
      BY <1>4, <2>1
    <3>2. IsFiniteSet(B[r]) /\ Cardinality(B[r]) = 1
      BY <1>3, <3>1
    <3> QED BY <1>3, <1>8, <2>1, <3>2
  <2>2. CASE r \notin high
    <3>1. B[r] = {}
      BY <1>4, <2>2
    <3>2. IsFiniteSet(B[r]) /\ Cardinality(B[r]) = 0
      BY <1>3, <3>1
    <3> QED BY <1>2, <1>3, <1>8, <2>2, <3>2
  <2> QED BY <2>1, <2>2
<1>11. \A r, q \in Finished : r # q => B[r] \intersect B[q] = {}
  BY <1>4
<1> HIDE DEF A, B, g
<1>12. Cardinality(low) <= SumFunctionOnSet(g, Finished)
  BY <1>1, <1>2, <1>5, <1>9, SumCovers
<1>13. SumFunctionOnSet(g, Finished) <= Cardinality(high)
  BY <1>1, <1>2, <1>5, <1>10, <1>11, SumIsCovered
<1>14. Completed(f, l) = SumFunctionOnSet(g, Finished) /\ Completed(f, l) \in Nat
  BY <1>2, CompletedIs, SumOfDomain, DonesType DEF g
<1> QED BY <1>12, <1>13, <1>14 DEF Within

\* The runs that have reached a cell, likewise.
LEMMA CellWithin ==
  ASSUME RegistryInv, CellsFit, \A r \in Settled : todo[r] = <<>>,
         NEW f \in Histograms, NEW l \in Seen(f), NEW c \in Cells
  PROVE  Within(values[f][l].cells[c], f, l, {c})
<1> DEFINE low == Having(Settled, f, l, {c})
           high == Having(Finished, f, l, {c})
           mid == Celled(f, l, c)
<1>1. l \in Labels
  BY FamilyNames DEF RegistryInv, CountsFit
<1>2. values[f][l].cells[c] = Cardinality(mid)
  BY <1>1 DEF CellsFit
<1>3. low \subseteq mid
  <2> SUFFICES ASSUME NEW r \in low PROVE r \in mid
    OBVIOUS
  <2>1. r \in Settled /\ r \in Finished
    BY SettledIsFinished DEF Having
  <2>2. PICK n \in 1 .. Len(All(r)) : All(r)[n].family = f /\ All(r)[n].label = l /\ All(r)[n].cell = c
    BY DEF Having
  <2>3. Ahead(r) = Len(All(r))
    BY <2>1, FinishedHas
  <2> QED BY <2>1, <2>2, <2>3 DEF Celled
<1>4. mid \subseteq high
  <2> SUFFICES ASSUME NEW r \in mid PROVE r \in high
    OBVIOUS
  <2>1. r \in Finished
    BY DEF Celled
  <2>2. PICK n \in 1 .. Ahead(r) : All(r)[n].family = f /\ All(r)[n].label = l /\ All(r)[n].cell = c
    BY DEF Celled
  <2>3. n \in 1 .. Len(All(r))
    BY <2>1, FinishedHas
  <2> QED BY <2>1, <2>2, <2>3 DEF Having
<1>5. IsFiniteSet(high)
  BY HavingIsFinite
<1> HIDE DEF low, mid, high
<1>6. IsFiniteSet(mid) /\ Cardinality(mid) \in Nat
  BY <1>4, <1>5, FS_Subset, FS_CardinalityType
<1>7. Cardinality(low) <= Cardinality(mid) /\ Cardinality(mid) <= Cardinality(high)
  BY <1>3, <1>4, <1>5, <1>6, FS_Subset
<1> QED BY <1>2, <1>6, <1>7 DEF Within, low, high

-----------------------------------------------------------------------------
\* The steps of record_run as the cells see them.

\* What the three steps of observe do to the values.
LEMMA ObserveSeriesEffect ==
  ASSUME RegistryInv, NEW r \in Runs, ObserveSeries(r)
  PROVE  \E u \in ToSet(todo[r]) :
           /\ Update(r, u, "lock", "cell") /\ u.cell > 0
           /\ lock[u.family] = None /\ lock' = [lock EXCEPT ![u.family] = r]
           /\ todo' = todo /\ old' = old
           /\ DOMAIN values' = ToSet(Families)
           /\ \A g \in ToSet(Families) \ {u.family} : values'[g] = values[g]
           /\ Seen(u.family)' = Seen(u.family) \union {u.label}
           /\ \A l \in Seen(u.family) : values'[u.family][l] = values[u.family][l]
           /\ u.label \notin Seen(u.family) => values'[u.family][u.label] = NewSeries
<1>1. PICK u \in ToSet(todo[r]) :
        /\ Update(r, u, "lock", "cell") /\ u.cell > 0
        /\ lock[u.family] = None /\ lock' = [lock EXCEPT ![u.family] = r] /\ todo' = todo
        /\ values' = IF u.label \in Seen(u.family) THEN values
                     ELSE [values EXCEPT ![u.family] = With(@, u.label, NewSeries)]
        /\ old' = old
  BY DEF ObserveSeries, Acquire
<1> DEFINE f == u.family
<1>2. DOMAIN values = ToSet(Families) /\ f \in ToSet(Families)
  BY <1>1, UpdateFacts DEF RegistryInv, ValuesFit
<1>3. CASE u.label \in Seen(f)
  BY <1>1, <1>2, <1>3 DEF Seen
<1>4. CASE u.label \notin Seen(f)
  <2> DEFINE new == With(values[f], u.label, NewSeries)
  <2>1. /\ DOMAIN new = Seen(f) \union {u.label}
        /\ \A l \in DOMAIN new : new[l] = IF l = u.label THEN NewSeries ELSE values[f][l]
    BY DEF With, Seen
  <2> HIDE DEF new
  <2>2. values' = [values EXCEPT ![f] = new]
    BY <1>1, <1>4 DEF new
  <2> QED BY <1>1, <1>2, <1>4, <2>1, <2>2 DEF Seen
<1> QED BY <1>3, <1>4

LEMMA ObserveCellEffect ==
  ASSUME RegistryInv, NEW r \in Runs, ObserveCell(r)
  PROVE  \E u \in ToSet(todo[r]) :
           /\ Update(r, u, "cell", "count")
           /\ lock' = lock /\ todo' = todo /\ old' = old
           /\ DOMAIN values' = ToSet(Families)
           /\ \A g \in ToSet(Families) \ {u.family} : values'[g] = values[g]
           /\ Seen(u.family)' = Seen(u.family)
           /\ \A l \in Seen(u.family) \ {u.label} : values'[u.family][l] = values[u.family][l]
           /\ values'[u.family][u.label] \in [cells : [Cells -> Nat], count : Nat]
           /\ values'[u.family][u.label].cells =
                [values[u.family][u.label].cells EXCEPT ![u.cell] = @ + 1]
           /\ values'[u.family][u.label].count = values[u.family][u.label].count
<1>1. PICK u \in ToSet(todo[r]) :
        /\ Update(r, u, "cell", "count")
        /\ values' = [values EXCEPT ![u.family][u.label].cells[u.cell] = @ + 1]
        /\ lock' = lock /\ todo' = todo /\ old' = old
  BY DEF ObserveCell
<1> DEFINE f == u.family
           l == u.label
           series == values[f][l]
           cells == [series.cells EXCEPT ![u.cell] = @ + 1]
           new == [series EXCEPT !.cells = cells]
<1>2. DOMAIN values = ToSet(Families)
  BY DEF RegistryInv, ValuesFit
<1>3. /\ f \in Histograms /\ f \in ToSet(Families) /\ u.cell \in Cells /\ l \in Seen(f)
      /\ FamilyFits(f)
  BY <1>1, UpdateFacts
<1>4. series \in [cells : [Cells -> Nat], count : Nat]
  BY <1>3 DEF FamilyFits
<1>5. values' = [values EXCEPT ![f] = [values[f] EXCEPT ![l] = new]]
  BY <1>1
<1>6. new \in [cells : [Cells -> Nat], count : Nat] /\ new.cells = cells /\ new.count = series.count
  BY <1>3, <1>4, CounterGrowsType
<1> HIDE DEF new, cells
<1>7. /\ DOMAIN values' = ToSet(Families)
      /\ \A g \in ToSet(Families) \ {f} : values'[g] = values[g]
      /\ Seen(f)' = Seen(f)
      /\ values'[f][l] = new
      /\ \A m \in Seen(f) \ {l} : values'[f][m] = values[f][m]
  BY <1>2, <1>3, <1>5, SeriesField DEF Seen
<1> QED BY <1>1, <1>6, <1>7 DEF cells

LEMMA ObserveCountEffect ==
  ASSUME RegistryInv, NEW r \in Runs, ObserveCount(r)
  PROVE  \E u \in ToSet(todo[r]) :
           /\ Update(r, u, "count", "lock")
           /\ lock' = [lock EXCEPT ![u.family] = None] /\ todo' = [todo EXCEPT ![r] = Tail(@)]
           /\ old' = old
           /\ DOMAIN values' = ToSet(Families)
           /\ \A g \in ToSet(Families) \ {u.family} : values'[g] = values[g]
           /\ Seen(u.family)' = Seen(u.family)
           /\ \A l \in Seen(u.family) \ {u.label} : values'[u.family][l] = values[u.family][l]
           /\ values'[u.family][u.label] \in [cells : [Cells -> Nat], count : Nat]
           /\ values'[u.family][u.label].cells = values[u.family][u.label].cells
           /\ values'[u.family][u.label].count = values[u.family][u.label].count + 1
<1>1. PICK u \in ToSet(todo[r]) :
        /\ Update(r, u, "count", "lock")
        /\ lock' = [lock EXCEPT ![u.family] = None] /\ todo' = [todo EXCEPT ![r] = Tail(@)]
        /\ values' = [values EXCEPT ![u.family][u.label].count = @ + 1]
        /\ old' = old
  BY DEF ObserveCount, Release
<1> DEFINE f == u.family
           l == u.label
           series == values[f][l]
           new == [series EXCEPT !.count = @ + 1]
<1>2. DOMAIN values = ToSet(Families)
  BY DEF RegistryInv, ValuesFit
<1>3. f \in Histograms /\ f \in ToSet(Families) /\ l \in Seen(f) /\ FamilyFits(f)
  BY <1>1, UpdateFacts
<1>4. series \in [cells : [Cells -> Nat], count : Nat]
  BY <1>3 DEF FamilyFits
<1>5. values' = [values EXCEPT ![f] = [values[f] EXCEPT ![l] = new]]
  BY <1>1
<1>6. /\ new \in [cells : [Cells -> Nat], count : Nat]
      /\ new.cells = series.cells /\ new.count = series.count + 1
  BY <1>4
<1> HIDE DEF new
<1>7. /\ DOMAIN values' = ToSet(Families)
      /\ \A g \in ToSet(Families) \ {f} : values'[g] = values[g]
      /\ Seen(f)' = Seen(f)
      /\ values'[f][l] = new
      /\ \A m \in Seen(f) \ {l} : values'[f][m] = values[f][m]
  BY <1>2, <1>3, <1>5, SeriesField DEF Seen
<1> QED BY <1>1, <1>6, <1>7

\* The stages of an update, of a counter and of a histogram.
Stages(u, from, to) ==
  \/ from = "lock" /\ to \in {"write", "cell"}
  \/ from = "write" /\ to = "lock" /\ u.cell = 0
  \/ from = "cell" /\ to = "count"
  \/ from = "count" /\ to = "lock"

\* The last stage takes the update off the list.
Advances(r, to) == todo' = IF to = "lock" THEN [todo EXCEPT ![r] = Tail(@)] ELSE todo

LEMMA CelledMoves ==
  ASSUME RegistryInv, NEW r \in Runs, NEW u \in ToSet(todo[r]), NEW from, NEW to,
         Update(r, u, from, to), Stages(u, from, to),
         Advances(r, to),
         NEW f \in Histograms, NEW l, NEW c \in Cells
  PROVE  IF to = "count" /\ f = u.family /\ l = u.label /\ c = u.cell
         THEN r \notin Celled(f, l, c) /\ Celled(f, l, c)' = Celled(f, l, c) \union {r}
         ELSE Celled(f, l, c)' = Celled(f, l, c)
<1> DEFINE Reached(q, n) == All(q)[n].family = f /\ All(q)[n].label = l /\ All(q)[n].cell = c
<1>1. /\ todo[r] # <<>> /\ u = Head(todo[r]) /\ finished' = finished
      /\ stage[r] = from /\ stage' = [stage EXCEPT ![r] = to]
      /\ u.cell = 0 => u.family \notin Histograms
  BY UpdateFacts
<1>2. /\ stage \in [Runs -> {"lock", "write", "cell", "count"}]
      /\ todo \in [Runs -> Seq(UpdateSet)]
  BY DEF RegistryInv
<1>3. /\ Finished' = Finished /\ \A q : All(q)' = All(q)
      /\ stage'[r] = to
      /\ todo'[r] = IF to = "lock" THEN Tail(todo[r]) ELSE todo[r]
      /\ \A q \in Runs \ {r} : stage'[q] = stage[q] /\ todo'[q] = todo[q]
  <2>1. Finished' = Finished /\ \A q : All(q)' = All(q)
    BY <1>1 DEF Finished, All
  <2>2. CASE to = "lock"
    BY <1>1, <1>2, <2>1, <2>2 DEF Advances
  <2>3. CASE to # "lock"
    BY <1>1, <1>2, <2>1, <2>3 DEF Advances
  <2> QED BY <2>2, <2>3
<1>4. r \in Finished
  BY <1>1, NextUpdate, RunsAssumption DEF Finished
<1>5. /\ Made(r) \in Nat /\ All(r)[Made(r) + 1] = u /\ Made(r) + 1 <= Len(All(r))
      /\ Made(r)' = IF to = "lock" THEN Made(r) + 1 ELSE Made(r)
  <2>1. /\ u = All(r)[Made(r) + 1] /\ Made(r) \in Nat /\ Made(r) + 1 <= Len(All(r))
        /\ Len(All(r)) \in Nat /\ Len(todo[r]) \in Nat
        /\ Len(Tail(todo[r])) = Len(todo[r]) - 1
    BY <1>1, NextUpdate
  <2>2. Made(r) = Len(All(r)) - Len(todo[r]) /\ Made(r)' = Len(All(r)) - Len(todo'[r])
    BY <1>3 DEF Made
  <2>3. CASE to = "lock"
    <3> DEFINE n == Len(All(r))
               k == Len(todo[r])
    <3>1. Len(todo'[r]) = k - 1
      BY <1>3, <2>1, <2>3
    <3>2. n \in Nat /\ k \in Nat /\ Made(r) = n - k /\ Made(r)' = n - (k - 1)
      BY <2>1, <2>2, <3>1
    <3> HIDE DEF n, k
    <3>3. Made(r)' = Made(r) + 1
      BY <3>2
    <3> QED BY <2>1, <2>3, <3>3
  <2>4. CASE to # "lock"
    BY <1>3, <2>1, <2>2, <2>4
  <2> QED BY <2>1, <2>3, <2>4
<1>6. ASSUME NEW q \in Finished \ {r} PROVE Ahead(q)' = Ahead(q)
  <2>1. q \in Runs \ {r}
    BY DEF Finished
  <2>2. Made(q)' = Made(q)
    BY <1>3, <2>1 DEF Made
  <2> QED BY <1>3, <2>1, <2>2 DEF Ahead
<1>7. /\ Celled(f, l, c) = { q \in Finished : \E n \in 1 .. Ahead(q) : Reached(q, n) }
      /\ Celled(f, l, c)' = { q \in Finished : \E n \in 1 .. Ahead(q)' : Reached(q, n) }
  BY <1>3 DEF Celled
<1>8. Reached(r, Made(r) + 1) <=> f = u.family /\ l = u.label /\ c = u.cell
  BY <1>5
<1>9. CASE to = "count"
  <2>1. Ahead(r) = Made(r) /\ Ahead(r)' = Made(r) + 1
    BY <1>1, <1>3, <1>5, <1>9 DEF Ahead, Stages
  <2>2. 1 .. Made(r) + 1 = (1 .. Made(r)) \union {Made(r) + 1}
    BY <1>5
  <2>3. CASE f = u.family /\ l = u.label /\ c = u.cell
    <3>1. \A n \in 1 .. Made(r) : ~Reached(r, n)
      <4>1. OnceIn(All(r), f)
        <5>1. f \in Once
          BY FamilyNames DEF Once
        <5> QED BY <1>4, <5>1, FinishedHas
      <4>2. /\ Made(r) + 1 \in 1 .. Len(All(r)) /\ Made(r) + 1 \notin 1 .. Made(r)
            /\ \A n \in 1 .. Made(r) : n \in 1 .. Len(All(r))
        BY <1>4, <1>5, FinishedHas
      <4> QED BY <1>8, <2>3, <4>1, <4>2 DEF OnceIn
    <3>2. r \notin Celled(f, l, c)
      BY <1>7, <2>1, <3>1
    <3>3. Celled(f, l, c)' = Celled(f, l, c) \union {r}
      <4> HIDE DEF Reached
      <4>1. \E n \in 1 .. Ahead(r)' : Reached(r, n)
        BY <1>8, <2>1, <2>2, <2>3
      <4> QED BY <1>4, <1>6, <1>7, <4>1
    <3> QED BY <1>9, <2>3, <3>2, <3>3
  <2>4. CASE ~(f = u.family /\ l = u.label /\ c = u.cell)
    <3> HIDE DEF Reached
    <3>1. (\E n \in 1 .. Ahead(r)' : Reached(r, n)) <=> (\E n \in 1 .. Ahead(r) : Reached(r, n))
      BY <1>8, <2>1, <2>2, <2>4
    <3>2. Celled(f, l, c)' = Celled(f, l, c)
      BY <1>6, <1>7, <3>1
    <3> QED BY <2>4, <3>2
  <2> QED BY <2>3, <2>4
<1>10. CASE to # "count"
  <2>1. (\E n \in 1 .. Ahead(r)' : Reached(r, n)) <=> (\E n \in 1 .. Ahead(r) : Reached(r, n))
    <3>1. CASE from = "write"
      <4>1. Ahead(r) = Made(r) /\ Ahead(r)' = Made(r) + 1 /\ ~Reached(r, Made(r) + 1)
        BY <1>1, <1>3, <1>5, <1>8, <1>10, <3>1 DEF Ahead, Stages
      <4>2. 1 .. Made(r) + 1 = (1 .. Made(r)) \union {Made(r) + 1}
        BY <1>5
      <4> HIDE DEF Reached
      <4> QED BY <4>1, <4>2
    <3>2. CASE from # "write"
      <4>1. Ahead(r)' = Ahead(r)
        BY <1>1, <1>3, <1>5, <1>10, <3>2 DEF Ahead, Stages
      <4> QED BY <4>1
    <3> QED BY <3>1, <3>2
  <2> HIDE DEF Reached
  <2>2. Celled(f, l, c)' = Celled(f, l, c)
    BY <1>6, <1>7, <2>1
  <2> QED BY <1>10, <2>2
<1> QED BY <1>9, <1>10

LEMMA CellsFitQuietly ==
  ASSUME CellsFit, \A f \in Histograms : values'[f] = values[f],
         \A f \in Histograms, l \in Labels, c \in Cells : Celled(f, l, c)' = Celled(f, l, c)
  PROVE  CellsFit'
BY DEF CellsFit, Seen

LEMMA CountKeepsCells ==
  ASSUME RegistryInv, CellsFit, NEW r \in Runs, Count(r) PROVE CellsFit'
<1>1. CASE RecordRun(r)
  <2>1. PICK done \in Finishes :
          /\ finished[r] = None /\ finished' = [finished EXCEPT ![r] = done]
          /\ todo' = [todo EXCEPT ![r] = Updates(done)]
          /\ values' = values /\ stage' = stage
    BY <1>1 DEF RecordRun
  <2>2. /\ r \notin Finished /\ Finished' = Finished \union {r} /\ All(r)' = todo'[r]
        /\ \A q \in Runs \ {r} : todo'[q] = todo[q] /\ All(q)' = All(q)
        /\ todo[r] \in Seq(UpdateSet) /\ todo'[r] = Updates(done)
    BY <2>1, RunsAssumption DEF RegistryInv, Finished, All
  <2>3. stage[r] = "lock"
    <3>1. Len(todo[r]) <= 0
      BY <2>1 DEF RegistryInv, WorkFits, All
    <3>2. todo[r] = <<>>
      BY <2>2, <3>1
    <3> QED BY <3>2 DEF RegistryInv, LocksFit, Holds
  <2>4. Ahead(r)' = 0
    <3>1. Len(Updates(done)) \in Nat
      BY UpdatesType
    <3>2. Made(r)' = 0
      BY <2>2, <3>1 DEF Made
    <3> QED BY <2>1, <2>3, <3>2 DEF Ahead
  <2>5. \A q \in Finished : Ahead(q)' = Ahead(q) /\ All(q)' = All(q)
    <3> SUFFICES ASSUME NEW q \in Finished PROVE Ahead(q)' = Ahead(q) /\ All(q)' = All(q)
      OBVIOUS
    <3>1. q \in Runs \ {r}
      BY <2>2 DEF Finished
    <3>2. Made(q)' = Made(q) /\ All(q)' = All(q)
      BY <2>2, <3>1 DEF Made
    <3> QED BY <2>1, <3>2 DEF Ahead
  <2>6. \A f, l, c : Celled(f, l, c)' = Celled(f, l, c)
    <3> SUFFICES ASSUME NEW f, NEW l, NEW c PROVE Celled(f, l, c)' = Celled(f, l, c)
      OBVIOUS
    <3> DEFINE Reached(q, n) == All(q)[n].family = f /\ All(q)[n].label = l /\ All(q)[n].cell = c
    <3>1. 1 .. Ahead(r)' = {}
      BY <2>4
    <3>2. Celled(f, l, c)' =
            { q \in Finished \union {r} : \E n \in 1 .. Ahead(q)' : Reached(q, n)' }
      BY <2>2 DEF Celled
    <3>3. \A q \in Finished : \A n : Reached(q, n)' <=> Reached(q, n)
      BY <2>5
    <3>4. Celled(f, l, c) = { q \in Finished : \E n \in 1 .. Ahead(q) : Reached(q, n) }
      BY DEF Celled
    <3> HIDE DEF Reached
    <3> QED BY <2>2, <2>5, <3>1, <3>2, <3>3, <3>4
  <2> QED BY <2>1, <2>6, CellsFitQuietly
<1>2. ASSUME NEW u \in ToSet(todo[r]), NEW from, NEW to,
             Update(r, u, from, to), Stages(u, from, to), to # "count",
             Advances(r, to),
             \A f \in Histograms : values'[f] = values[f]
      PROVE  CellsFit'
  <2>1. ASSUME NEW f \in Histograms, NEW l \in Labels, NEW c \in Cells
        PROVE  Celled(f, l, c)' = Celled(f, l, c)
    <3>1. IF to = "count" /\ f = u.family /\ l = u.label /\ c = u.cell
          THEN r \notin Celled(f, l, c) /\ Celled(f, l, c)' = Celled(f, l, c) \union {r}
          ELSE Celled(f, l, c)' = Celled(f, l, c)
      BY <1>2, CelledMoves
    <3> QED BY <1>2, <3>1
  <2> QED BY <1>2, <2>1, CellsFitQuietly
<1>3. CASE IncRead(r)
  <2>1. PICK u \in ToSet(todo[r]) :
          Update(r, u, "lock", "write") /\ todo' = todo /\ values' = values
    BY <1>3 DEF IncRead, Acquire
  <2>2. Stages(u, "lock", "write") /\ Advances(r, "write")
    BY <2>1 DEF Stages, Advances
  <2> QED BY <1>2, <2>1, <2>2
<1>4. CASE IncWrite(r)
  <2>1. PICK u \in ToSet(todo[r]) :
          /\ Update(r, u, "write", "lock") /\ todo' = [todo EXCEPT ![r] = Tail(@)]
          /\ values' = [values EXCEPT ![u.family] = With(@, u.label, old[r] + 1)]
    BY <1>4 DEF IncWrite, Release
  <2>2. u.cell = 0 /\ u.family \notin Histograms
    BY <2>1, UpdateFacts
  <2>3. Stages(u, "write", "lock") /\ Advances(r, "lock")
    BY <2>1, <2>2 DEF Stages, Advances
  <2>4. \A f \in Histograms : values'[f] = values[f]
    BY <2>1, <2>2, FamilyNames DEF RegistryInv, ValuesFit
  <2> QED BY <1>2, <2>1, <2>3, <2>4
<1>5. CASE ObserveSeries(r)
  <2>1. PICK u \in ToSet(todo[r]) :
          /\ Update(r, u, "lock", "cell") /\ todo' = todo
          /\ \A g \in ToSet(Families) \ {u.family} : values'[g] = values[g]
          /\ Seen(u.family)' = Seen(u.family) \union {u.label}
          /\ \A l \in Seen(u.family) : values'[u.family][l] = values[u.family][l]
          /\ u.label \notin Seen(u.family) => values'[u.family][u.label] = NewSeries
    BY <1>5, ObserveSeriesEffect
  <2>2. Stages(u, "lock", "cell") /\ Advances(r, "cell")
    BY <2>1 DEF Stages, Advances
  <2>3. \A f \in Histograms, l \in Labels, c \in Cells : Celled(f, l, c)' = Celled(f, l, c)
    BY <2>1, <2>2, CelledMoves
  <2>4. ASSUME NEW f \in Histograms, NEW l \in Labels, NEW c \in Cells
        PROVE  IF l \in Seen(f)' THEN values'[f][l].cells[c] = Cardinality(Celled(f, l, c)')
               ELSE Celled(f, l, c)' = {}
    <3>1. CASE f # u.family
      <4>1. values'[f] = values[f]
        BY <2>1, <3>1, FamilyNames
      <4> QED BY <2>3, <4>1 DEF CellsFit, Seen
    <3>2. CASE f = u.family /\ l \in Seen(f)
      BY <2>1, <2>3, <3>2 DEF CellsFit
    <3>3. CASE f = u.family /\ l \notin Seen(f) /\ l = u.label
      <4>1. values'[f][l].cells[c] = 0 /\ l \in Seen(f)'
        BY <2>1, <3>3 DEF NewSeries
      <4>2. Celled(f, l, c)' = {}
        BY <2>3, <3>3 DEF CellsFit
      <4> QED BY <4>1, <4>2, FS_EmptySet
    <3>4. CASE f = u.family /\ l \notin Seen(f) /\ l # u.label
      <4>1. l \notin Seen(f)' /\ Celled(f, l, c)' = {}
        BY <2>1, <2>3, <3>4 DEF CellsFit
      <4> QED BY <4>1
    <3> QED BY <3>1, <3>2, <3>3, <3>4
  <2> QED BY <2>4 DEF CellsFit
<1>6. CASE ObserveCell(r)
  <2>1. PICK u \in ToSet(todo[r]) :
          /\ Update(r, u, "cell", "count") /\ todo' = todo
          /\ \A g \in ToSet(Families) \ {u.family} : values'[g] = values[g]
          /\ Seen(u.family)' = Seen(u.family)
          /\ \A l \in Seen(u.family) \ {u.label} : values'[u.family][l] = values[u.family][l]
          /\ values'[u.family][u.label].cells =
               [values[u.family][u.label].cells EXCEPT ![u.cell] = @ + 1]
    BY <1>6, ObserveCellEffect
  <2>2. Stages(u, "cell", "count") /\ Advances(r, "count")
    BY <2>1 DEF Stages, Advances
  <2>3. \A f \in Histograms, l \in Labels, c \in Cells :
          IF f = u.family /\ l = u.label /\ c = u.cell
          THEN r \notin Celled(f, l, c) /\ Celled(f, l, c)' = Celled(f, l, c) \union {r}
          ELSE Celled(f, l, c)' = Celled(f, l, c)
    BY <2>1, <2>2, CelledMoves
  <2>4. /\ u.family \in Histograms /\ u.label \in Seen(u.family) /\ u.cell \in Cells
        /\ values[u.family][u.label].cells \in [Cells -> Nat]
    BY <2>1, UpdateFacts DEF FamilyFits
  <2>5. ASSUME NEW f \in Histograms, NEW l \in Labels, NEW c \in Cells
        PROVE  IF l \in Seen(f)' THEN values'[f][l].cells[c] = Cardinality(Celled(f, l, c)')
               ELSE Celled(f, l, c)' = {}
    <3>1. CASE f # u.family
      <4>1. values'[f] = values[f] /\ Celled(f, l, c)' = Celled(f, l, c)
        BY <2>1, <2>3, <3>1, FamilyNames
      <4> QED BY <4>1 DEF CellsFit, Seen
    <3>2. CASE f = u.family /\ l # u.label
      <4>1. Celled(f, l, c)' = Celled(f, l, c) /\ Seen(f)' = Seen(f)
        BY <2>1, <2>3, <3>2
      <4> QED BY <2>1, <3>2, <4>1 DEF CellsFit
    <3>3. CASE f = u.family /\ l = u.label /\ c # u.cell
      <4>1. Celled(f, l, c)' = Celled(f, l, c) /\ values'[f][l].cells[c] = values[f][l].cells[c]
        BY <2>1, <2>3, <2>4, <3>3
      <4> QED BY <2>1, <2>4, <3>3, <4>1 DEF CellsFit
    <3>4. CASE f = u.family /\ l = u.label /\ c = u.cell
      <4>1. values'[f][l].cells[c] = values[f][l].cells[c] + 1 /\ l \in Seen(f)'
        BY <2>1, <2>4, <3>4
      <4>2. values[f][l].cells[c] = Cardinality(Celled(f, l, c))
        BY <2>4, <3>4 DEF CellsFit
      <4>3. r \notin Celled(f, l, c) /\ Celled(f, l, c)' = Celled(f, l, c) \union {r}
        BY <2>3, <3>4
      <4>4. IsFiniteSet(Celled(f, l, c))
        <5>1. Celled(f, l, c) \subseteq Finished
          BY DEF Celled
        <5> QED BY <5>1, FS_Subset DEF RegistryInv
      <4>5. Cardinality(Celled(f, l, c) \union {r}) = Cardinality(Celled(f, l, c)) + 1
        BY <4>3, <4>4, FS_AddElement
      <4> QED BY <4>1, <4>2, <4>3, <4>5
    <3> QED BY <3>1, <3>2, <3>3, <3>4
  <2> QED BY <2>5 DEF CellsFit
<1>7. CASE ObserveCount(r)
  <2>1. PICK u \in ToSet(todo[r]) :
          /\ Update(r, u, "count", "lock") /\ todo' = [todo EXCEPT ![r] = Tail(@)]
          /\ \A g \in ToSet(Families) \ {u.family} : values'[g] = values[g]
          /\ Seen(u.family)' = Seen(u.family)
          /\ \A l \in Seen(u.family) \ {u.label} : values'[u.family][l] = values[u.family][l]
          /\ values'[u.family][u.label].cells = values[u.family][u.label].cells
    BY <1>7, ObserveCountEffect
  <2>2. Stages(u, "count", "lock") /\ Advances(r, "lock")
    BY <2>1 DEF Stages, Advances
  <2>3. ASSUME NEW f \in Histograms, NEW l \in Labels, NEW c \in Cells
        PROVE  Celled(f, l, c)' = Celled(f, l, c)
    <3>1. IF "lock" = "count" /\ f = u.family /\ l = u.label /\ c = u.cell
          THEN r \notin Celled(f, l, c) /\ Celled(f, l, c)' = Celled(f, l, c) \union {r}
          ELSE Celled(f, l, c)' = Celled(f, l, c)
      BY <2>1, <2>2, CelledMoves
    <3> QED BY <3>1
  <2>4. ASSUME NEW f \in Histograms, NEW l \in Labels, NEW c \in Cells
        PROVE  IF l \in Seen(f)' THEN values'[f][l].cells[c] = Cardinality(Celled(f, l, c)')
               ELSE Celled(f, l, c)' = {}
    <3>1. CASE f # u.family
      <4>1. values'[f] = values[f]
        BY <2>1, <3>1, FamilyNames
      <4> QED BY <2>3, <4>1 DEF CellsFit, Seen
    <3>2. CASE f = u.family /\ l # u.label
      BY <2>1, <2>3, <3>2 DEF CellsFit
    <3>3. CASE f = u.family /\ l = u.label
      BY <2>1, <2>3, <3>3 DEF CellsFit
    <3> QED BY <3>1, <3>2, <3>3
  <2> QED BY <2>4 DEF CellsFit
<1> QED BY <1>1, <1>3, <1>4, <1>5, <1>6, <1>7 DEF Count

LEMMA AlwaysCellsFit == Spec => []CellsFit
<1>1. Init => CellsFit
  <2> SUFFICES ASSUME Init PROVE CellsFit
    OBVIOUS
  <2>1. \A f \in Histograms : Seen(f) = {}
    BY FamilyNames DEF Init, Seen
  <2>2. \A f, l, c : Celled(f, l, c) = {}
    BY DEF Init, Celled, Finished
  <2> QED BY <2>1, <2>2 DEF CellsFit
<1>2. RegistryInv /\ CellsFit /\ [Next]_vars => CellsFit'
  <2> SUFFICES ASSUME RegistryInv, CellsFit, [Next]_vars PROVE CellsFit'
    OBVIOUS
  <2>1. ASSUME UNCHANGED registry PROVE CellsFit'
    <3>1. /\ values' = values /\ finished' = finished /\ todo' = todo /\ stage' = stage
      BY <2>1 DEF registry
    <3>2. \A f, l, c : Celled(f, l, c)' = Celled(f, l, c)
      BY <3>1 DEF Celled, Finished, Ahead, Made, All
    <3> QED BY <3>1, <3>2, CellsFitQuietly
  <2>2. ASSUME NEW r \in Runs, Count(r) PROVE CellsFit'
    BY <2>2, CountKeepsCells
  <2>3. CASE Render
    BY <2>1, <2>3, RenderLeavesRegistry
  <2>4. CASE UNCHANGED vars
    BY <2>1, <2>4 DEF vars, registry
  <2> QED BY <2>2, <2>3, <2>4 DEF Next
<1> QED BY <1>1, <1>2, AlwaysRegistryInv, PTL DEF Spec

-----------------------------------------------------------------------------
\* What a step leaves to the scrape.

\* Nothing that was settled or seen is lost, and what was finished stays what it was.
Keeps ==
  /\ Finished \subseteq Finished' /\ Settled' = Settled
  /\ \A q \in Finished : All(q)' = All(q)
  /\ \A q \in Settled : todo'[q] = todo[q]
  /\ scrape'.beside \subseteq Finished'
  /\ \A f \in ToSet(Families) : Seen(f) \subseteq Seen(f)'

LEMMA KeepsWithin ==
  ASSUME RegistryInv, RegistryInv', Keeps
  PROVE  /\ \A v, f, l, cells : Within(v, f, l, cells) => Within(v, f, l, cells)'
         /\ \A f : Wanted(f)' = Wanted(f)
<1>1. \A f, l, cells : Having(Settled, f, l, cells)' = Having(Settled, f, l, cells)
  BY SettledIsFinished DEF Keeps, Having
<1>2. \A f, l, cells : Having(Finished, f, l, cells) \subseteq Having(Finished, f, l, cells)'
  BY DEF Keeps, Having
<1>3. IsFiniteSet(Finished') /\ IsFiniteSet(Finished)
  BY DEF RegistryInv
<1>4. ASSUME NEW v, NEW f, NEW l, NEW cells, Within(v, f, l, cells) PROVE Within(v, f, l, cells)'
  <2> DEFINE low == Cardinality(Having(Settled, f, l, cells))
             before == Having(Finished, f, l, cells)
             after == Having(Finished, f, l, cells)'
  <2>1. v \in Nat /\ low <= v /\ v <= Cardinality(before)
    BY <1>4 DEF Within
  <2>2. after \subseteq Finished' /\ before \subseteq after
    BY <1>2 DEF Having
  <2>3. IsFiniteSet(after) /\ IsFiniteSet(before)
    BY <1>3, <2>2, FS_Subset
  <2>4. /\ Cardinality(before) <= Cardinality(after)
        /\ Cardinality(before) \in Nat /\ Cardinality(after) \in Nat
    BY <2>2, <2>3, FS_Subset, FS_CardinalityType
  <2>5. low' = low
    BY <1>1
  <2> HIDE DEF low, before, after
  <2>6. v \in Nat /\ low' <= v /\ v <= Cardinality(after)
    BY <2>1, <2>4, <2>5
  <2> QED BY <2>6 DEF Within, low, before, after
<1>5. \A f : Wanted(f)' = Wanted(f)
  BY <1>1 DEF Wanted
<1> QED BY <1>4, <1>5

LEMMA CountKeeps ==
  ASSUME RegistryInv, RegistryInv', ScrapeFits, scrape.at \in 1 .. Len(Families),
         scrape.beside \subseteq Finished, \A q \in Settled : todo[q] = <<>>,
         NEW r \in Runs, Count(r)
  PROVE  /\ Keeps /\ page' = page
         /\ scrape'.at = scrape.at /\ scrape'.shown = scrape.shown /\ scrape'.copied = scrape.copied
         /\ scrape'.cell = scrape.cell /\ scrape'.sum = scrape.sum /\ scrape'.lines = scrape.lines
<1>1. CASE RecordRun(r)
  <2>1. PICK done \in Finishes :
          /\ finished[r] = None /\ finished' = [finished EXCEPT ![r] = done]
          /\ todo' = [todo EXCEPT ![r] = Updates(done)]
          /\ values' = values /\ page' = page
    BY <1>1 DEF RecordRun
  <2>2. /\ r \notin Finished /\ Finished' = Finished \union {r}
        /\ \A q \in Runs \ {r} : todo'[q] = todo[q] /\ All(q)' = All(q)
    BY <2>1, RunsAssumption DEF RegistryInv, Finished, All
  <2>3. scrape' = [scrape EXCEPT !.beside = @ \union {r}]
    BY <1>1, FamilyNames DEF RecordRun
  <2>4. /\ scrape'.beside = scrape.beside \union {r}
        /\ scrape'.at = scrape.at /\ scrape'.shown = scrape.shown /\ scrape'.copied = scrape.copied
        /\ scrape'.cell = scrape.cell /\ scrape'.sum = scrape.sum /\ scrape'.lines = scrape.lines
    BY <2>3 DEF ScrapeFits
  <2>5. \A q \in Finished : q \in Runs \ {r}
    BY <2>2 DEF Finished
  <2>6. Settled' = Settled
    BY <2>2, <2>4 DEF Settled
  <2>7. \A q \in Settled : todo'[q] = todo[q]
    BY <2>2, <2>5, SettledIsFinished
  <2>8. \A f \in ToSet(Families) : Seen(f) \subseteq Seen(f)'
    BY <2>1 DEF Seen
  <2>9. Keeps
    BY <2>2, <2>4, <2>5, <2>6, <2>7, <2>8 DEF Keeps
  <2> QED BY <2>1, <2>4, <2>9
<1>2. ASSUME NEW u \in ToSet(todo[r]), NEW from, NEW to, Update(r, u, from, to), Advances(r, to),
             \A f \in ToSet(Families) : Seen(f) \subseteq Seen(f)'
      PROVE  /\ Keeps /\ page' = page /\ scrape' = scrape
  <2>1. todo[r] # <<>> /\ finished' = finished /\ scrape' = scrape /\ page' = page
    BY <1>2, UpdateFacts DEF Update, scraper
  <2>2. Finished' = Finished /\ \A q : All(q)' = All(q)
    BY <2>1 DEF Finished, All
  <2>3. Settled' = Settled
    BY <2>1, <2>2 DEF Settled
  <2>4. ASSUME NEW q \in Settled PROVE todo'[q] = todo[q]
    <3>1. q # r /\ q \in Runs
      BY <2>1 DEF Settled, Finished
    <3> QED BY <1>2, <3>1 DEF Advances, RegistryInv
  <2> QED BY <1>2, <2>1, <2>2, <2>3, <2>4 DEF Keeps
<1>3. CASE IncRead(r)
  <2>1. PICK u \in ToSet(todo[r]) :
          Update(r, u, "lock", "write") /\ todo' = todo /\ values' = values
    BY <1>3 DEF IncRead, Acquire
  <2>2. Advances(r, "write") /\ \A f \in ToSet(Families) : Seen(f) \subseteq Seen(f)'
    BY <2>1 DEF Advances, Seen
  <2> QED BY <1>2, <2>1, <2>2
<1>4. CASE IncWrite(r)
  <2>1. PICK u \in ToSet(todo[r]) :
          /\ Update(r, u, "write", "lock") /\ todo' = [todo EXCEPT ![r] = Tail(@)]
          /\ values' = [values EXCEPT ![u.family] = With(@, u.label, old[r] + 1)]
    BY <1>4 DEF IncWrite, Release
  <2>2. Advances(r, "lock")
    BY <2>1 DEF Advances
  <2>3. ASSUME NEW f \in ToSet(Families) PROVE Seen(f) \subseteq Seen(f)'
    <3> DEFINE new == With(values[f], u.label, old[r] + 1)
    <3>1. DOMAIN new = Seen(f) \union {u.label}
      BY DEF With, Seen
    <3> HIDE DEF new
    <3>2. f = u.family => values'[f] = new
      BY <2>1 DEF RegistryInv, ValuesFit, new
    <3>3. f # u.family => values'[f] = values[f]
      BY <2>1 DEF RegistryInv, ValuesFit
    <3> QED BY <3>1, <3>2, <3>3 DEF Seen
  <2> QED BY <1>2, <2>1, <2>2, <2>3
<1>5. CASE ObserveSeries(r)
  <2>1. PICK u \in ToSet(todo[r]) :
          /\ Update(r, u, "lock", "cell") /\ todo' = todo
          /\ \A g \in ToSet(Families) \ {u.family} : values'[g] = values[g]
          /\ Seen(u.family)' = Seen(u.family) \union {u.label}
    BY <1>5, ObserveSeriesEffect
  <2>2. Advances(r, "cell") /\ \A f \in ToSet(Families) : Seen(f) \subseteq Seen(f)'
    BY <2>1 DEF Advances, Seen
  <2> QED BY <1>2, <2>1, <2>2
<1>6. CASE ObserveCell(r)
  <2>1. PICK u \in ToSet(todo[r]) :
          /\ Update(r, u, "cell", "count") /\ todo' = todo
          /\ \A g \in ToSet(Families) \ {u.family} : values'[g] = values[g]
          /\ Seen(u.family)' = Seen(u.family)
    BY <1>6, ObserveCellEffect
  <2>2. Advances(r, "count") /\ \A f \in ToSet(Families) : Seen(f) \subseteq Seen(f)'
    BY <2>1 DEF Advances, Seen
  <2> QED BY <1>2, <2>1, <2>2
<1>7. CASE ObserveCount(r)
  <2>1. PICK u \in ToSet(todo[r]) :
          /\ Update(r, u, "count", "lock") /\ todo' = [todo EXCEPT ![r] = Tail(@)]
          /\ \A g \in ToSet(Families) \ {u.family} : values'[g] = values[g]
          /\ Seen(u.family)' = Seen(u.family)
    BY <1>7, ObserveCountEffect
  <2>2. Advances(r, "lock") /\ \A f \in ToSet(Families) : Seen(f) \subseteq Seen(f)'
    BY <2>1 DEF Advances, Seen
  <2> QED BY <1>2, <2>1, <2>2
<1> QED BY <1>1, <1>3, <1>4, <1>5, <1>6, <1>7 DEF Count

\* A render changes nothing but the scrape.
LEMMA RenderKeeps ==
  ASSUME RegistryInv, Render, scrape'.beside = scrape.beside, scrape.beside \subseteq Finished
  PROVE  Keeps /\ RegistryInv'
<1>1. UNCHANGED registry
  BY RenderLeavesRegistry
<1>2. values' = values /\ finished' = finished /\ todo' = todo
  BY <1>1 DEF registry
<1>3. Finished' = Finished /\ (\A q : All(q)' = All(q)) /\ \A f : Seen(f)' = Seen(f)
  BY <1>2 DEF Finished, All, Seen
<1>4. Keeps
  BY <1>2, <1>3 DEF Keeps, Settled
<1> QED BY <1>1, <1>4, QuietKeepsRegistry

-----------------------------------------------------------------------------
\* What the scrape reads.

LEMMA ReadsWithin ==
  ASSUME RegistryInv, CellsFit, \A r \in Settled : todo[r] = <<>>
  PROVE  /\ \A f \in Once \intersect Counters : \A l \in Seen(f) : Within(values[f][l], f, l, AnyCell)
         /\ \A f \in Histograms : \A l \in Seen(f) : Within(values[f][l].count, f, l, AnyCell)
         /\ \A f \in Once : Wanted(f) \subseteq Seen(f)
<1>1. /\ \A f \in Once : f \in ToSet(Families) /\ (f \in Counters \/ f \in Histograms)
      /\ Histograms \subseteq Once
  BY FamilyNames DEF Once, Counters
<1>2. \A f \in ToSet(Families) : Seen(f) \subseteq Labels /\ FamilyFits(f)
  BY FamiliesFit DEF FamilyFits
<1>3. ASSUME NEW f \in Once \intersect Counters, NEW l \in Seen(f)
      PROVE  Within(values[f][l], f, l, AnyCell)
  <2>1. values[f][l] = Completed(f, l)
    BY <1>1, <1>2 DEF FamilyFits, CounterFits, Get
  <2> QED BY <2>1, CompletedWithin
<1>4. ASSUME NEW f \in Histograms, NEW l \in Seen(f)
      PROVE  Within(values[f][l].count, f, l, AnyCell)
  <2>1. values[f][l].count = Completed(f, l)
    BY <1>1, <1>2 DEF FamilyFits, SeriesFits
  <2> QED BY <1>1, <2>1, CompletedWithin
<1>5. ASSUME NEW f \in Once, NEW l \in Wanted(f) PROVE l \in Seen(f)
  <2>1. l \in Labels /\ Having(Settled, f, l, AnyCell) # {}
    BY DEF Wanted
  <2>2. /\ IsFiniteSet(Having(Settled, f, l, AnyCell))
        /\ Cardinality(Having(Settled, f, l, AnyCell)) \in Nat
    BY HavingIsFinite, SettledIsFinished
  <2>3. Cardinality(Having(Settled, f, l, AnyCell)) # 0
    BY <2>1, <2>2, FS_EmptySet
  <2>4. Completed(f, l) # 0
    BY <2>2, <2>3, CompletedWithin DEF Within
  <2>5. f \in Counters => CounterFits(f, l)
    BY <1>1, <1>2, <2>1 DEF FamilyFits
  <2>6. f \in Histograms => SeriesFits(f, l)
    BY <1>1, <1>2, <2>1 DEF FamilyFits
  <2> QED BY <1>1, <2>4, <2>5, <2>6 DEF CounterFits, SeriesFits, Get
<1> QED BY <1>3, <1>4, <1>5

\* The cumulative count of a series, cell by cell.
LEMMA NoCellsYet ==
  ASSUME NEW f, NEW l
  PROVE  Within(0, f, l, {})
<1>1. \A R : Having(R, f, l, {}) = {}
  BY DEF Having
<1> QED BY <1>1, FS_EmptySet DEF Within

LEMMA OneCellMore ==
  ASSUME RegistryInv, NEW f \in Once, NEW l, NEW c \in Nat, c > 0,
         NEW v, Within(v, f, l, 1 .. c - 1), NEW w, Within(w, f, l, {c})
  PROVE  Within(v + w, f, l, 1 .. c)
<1>1. ASSUME NEW R \in SUBSET Finished
      PROVE  Cardinality(Having(R, f, l, 1 .. c)) =
               Cardinality(Having(R, f, l, 1 .. c - 1)) + Cardinality(Having(R, f, l, {c}))
  <2> DEFINE A == Having(R, f, l, 1 .. c - 1)
             B == Having(R, f, l, {c})
  <2>1. 1 .. c = (1 .. c - 1) \union {c} /\ c \notin 1 .. c - 1
    OBVIOUS
  <2>2. Having(R, f, l, 1 .. c) = A \union B
    BY <2>1 DEF Having
  <2>3. A \intersect B = {}
    <3> SUFFICES ASSUME NEW r \in R, r \in A, r \in B PROVE FALSE
      BY DEF Having
    <3>1. PICK m \in 1 .. Len(All(r)) : All(r)[m].family = f /\ All(r)[m].cell \in 1 .. c - 1
      BY DEF Having
    <3>2. PICK n \in 1 .. Len(All(r)) : All(r)[n].family = f /\ All(r)[n].cell = c
      BY DEF Having
    <3>3. OnceIn(All(r), f)
      BY FinishedHas
    <3>4. m = n
      BY <3>1, <3>2, <3>3 DEF OnceIn
    <3> QED BY <2>1, <3>1, <3>2, <3>4
  <2>4. IsFiniteSet(A) /\ IsFiniteSet(B)
    BY HavingIsFinite
  <2> HIDE DEF A, B
  <2>5. Cardinality(A \union B) = Cardinality(A) + Cardinality(B)
    <3>1. Cardinality(A \intersect B) = 0
      BY <2>3, FS_EmptySet
    <3>2. Cardinality(A) \in Nat /\ Cardinality(B) \in Nat
      BY <2>4, FS_CardinalityType
    <3>3. Cardinality(A \union B) = Cardinality(A) + Cardinality(B) - Cardinality(A \intersect B)
      BY <2>4, FS_Union
    <3> QED BY <3>1, <3>2, <3>3
  <2> QED BY <2>2, <2>5 DEF A, B
<1> DEFINE low(cells) == Cardinality(Having(Settled, f, l, cells))
           high(cells) == Cardinality(Having(Finished, f, l, cells))
<1>2. /\ low(1 .. c) = low(1 .. c - 1) + low({c})
      /\ high(1 .. c) = high(1 .. c - 1) + high({c})
  BY <1>1, SettledIsFinished
<1>3. \A cells : low(cells) \in Nat /\ high(cells) \in Nat
  BY HavingIsFinite, SettledIsFinished
<1>4. /\ v \in Nat /\ low(1 .. c - 1) <= v /\ v <= high(1 .. c - 1)
      /\ w \in Nat /\ low({c}) <= w /\ w <= high({c})
  BY DEF Within
<1> HIDE DEF low, high
<1>5. v + w \in Nat /\ low(1 .. c) <= v + w /\ v + w <= high(1 .. c)
  BY <1>2, <1>3, <1>4
<1> QED BY <1>5 DEF Within, low, high

\* Every observation is in some bucket or the overflow.
LEMMA AllCells ==
  ASSUME RegistryInv, NEW f \in Histograms, NEW l, NEW v, Within(v, f, l, 1 .. Overflow)
  PROVE  Within(v, f, l, AnyCell)
<1>1. ASSUME NEW R \in SUBSET Finished
      PROVE  Having(R, f, l, 1 .. Overflow) = Having(R, f, l, AnyCell)
  <2>1. ASSUME NEW r \in R, NEW n \in 1 .. Len(All(r)), All(r)[n].family = f
        PROVE  All(r)[n].cell \in AnyCell /\ All(r)[n].cell \in 1 .. Overflow
    <3>1. All(r)[n] \in UpdateSet /\ All(r)[n].cell \in AnyCell
      BY FinishedHas
    <3>2. All(r)[n].cell # 0
      BY <2>1, <3>1, FamilyNames DEF UpdateSet
    <3> QED BY <3>1, <3>2, CellsAre DEF AnyCell
  <2> QED BY <2>1 DEF Having
<1>2. /\ Having(Settled, f, l, 1 .. Overflow) = Having(Settled, f, l, AnyCell)
      /\ Having(Finished, f, l, 1 .. Overflow) = Having(Finished, f, l, AnyCell)
  BY <1>1, SettledIsFinished
<1> QED BY <1>2 DEF Within

-----------------------------------------------------------------------------
\* The lines so far.

\* The lines and what is covered of them, which a step within a family keeps.
LinesKept ==
  /\ scrape.beside \subseteq Finished
  /\ \A r \in Settled : todo[r] = <<>>
  /\ IsFiniteSet(DOMAIN scrape.lines)
  /\ DOMAIN scrape.lines \subseteq ToSet(Families) \X Labels
  /\ \A f \in Once, l \in Labels : <<f, l>> \in DOMAIN scrape.lines => LineFits(f, l)

LEMMA LinesKeptAlone ==
  ASSUME RegistryInv, RegistryInv', Keeps, LinesKept, scrape'.lines = scrape.lines
  PROVE  LinesKept'
<1>1. /\ scrape'.beside \subseteq Finished'
      /\ \A r \in Settled' : todo'[r] = <<>>
  BY DEF Keeps, LinesKept
<1>2. ASSUME NEW f \in Once, NEW l \in Labels, <<f, l>> \in DOMAIN scrape.lines
      PROVE  LineFits(f, l)'
  <2>1. LineFits(f, l)
    BY <1>2 DEF LinesKept
  <2> QED BY <2>1, KeepsWithin DEF LineFits
<1> QED BY <1>1, <1>2 DEF LinesKept

LEMMA LinesKeptWith ==
  ASSUME RegistryInv, RegistryInv', Keeps, LinesKept,
         NEW family \in ToSet(Families), NEW label \in Labels, NEW line,
         scrape'.lines = With(scrape.lines, <<family, label>>, line),
         family \in Once =>
           IF family \in Counters THEN Within(line, family, label, AnyCell)
           ELSE Within(line.inf, family, label, AnyCell) /\ Within(line.count, family, label, AnyCell)
  PROVE  /\ LinesKept'
         /\ DOMAIN scrape'.lines = DOMAIN scrape.lines \union {<<family, label>>}
<1> DEFINE k == <<family, label>>
<1>1. /\ DOMAIN scrape'.lines = DOMAIN scrape.lines \union {k}
      /\ \A m \in DOMAIN scrape'.lines :
           scrape'.lines[m] = IF m = k THEN line ELSE scrape.lines[m]
  BY DEF With
<1>2. /\ scrape'.beside \subseteq Finished'
      /\ \A r \in Settled' : todo'[r] = <<>>
  BY DEF Keeps, LinesKept
<1>3. /\ IsFiniteSet(DOMAIN scrape'.lines)
      /\ DOMAIN scrape'.lines \subseteq ToSet(Families) \X Labels
  BY <1>1, FS_AddElement DEF LinesKept
<1>4. ASSUME NEW f \in Once, NEW l \in Labels, <<f, l>> \in DOMAIN scrape'.lines
      PROVE  LineFits(f, l)'
  <2>1. CASE f = family /\ l = label
    <3>1. scrape'.lines[<<f, l>>] = line
      BY <1>1, <1>4, <2>1
    <3> QED BY <2>1, <3>1, KeepsWithin DEF LineFits
  <2>2. CASE ~(f = family /\ l = label)
    <3>1. <<f, l>> # k
      BY <2>2
    <3>2. <<f, l>> \in DOMAIN scrape.lines /\ scrape'.lines[<<f, l>>] = scrape.lines[<<f, l>>]
      BY <1>1, <1>4, <3>1
    <3>3. LineFits(f, l)
      BY <3>2 DEF LinesKept
    <3> QED BY <3>2, <3>3, KeepsWithin DEF LineFits
  <2> QED BY <2>1, <2>2
<1> QED BY <1>1, <1>2, <1>3, <1>4 DEF LinesKept

\* The families that are done are covered, and so is what is shown of the one at hand.
Covers ==
  /\ \A n \in 1 .. scrape.at - 1 : Families[n] \in Once =>
       \A l \in Wanted(Families[n]) : <<Families[n], l>> \in DOMAIN scrape.lines
  /\ \A l \in scrape.shown : <<Family, l>> \in DOMAIN scrape.lines

LEMMA LinesFitIs == LinesFit <=> LinesKept /\ Covers /\ (Family \in Histograms => SeriesShown)
  BY DEF LinesFit, LinesKept, Covers

LEMMA FamilyIs ==
  ASSUME scrape.at \in 1 .. Len(Families)
  PROVE  Family \in ToSet(Families) /\ (Family \in Histograms => Family \in Once /\ Family \notin Counters)
<1>1. Family \in ToSet(Families)
  BY DEF Family, ToSet, Families
<1> QED BY <1>1, FamilyNames DEF Once

\* A step that shows no more leaves the lines covered.
LEMMA SeriesKept ==
  ASSUME RegistryInv, RegistryInv', Keeps, SeriesShown, scrape.at \in 1 .. Len(Families),
         scrape'.at = scrape.at, scrape'.shown = scrape.shown, scrape'.copied = scrape.copied,
         scrape'.cell = scrape.cell, scrape'.sum = scrape.sum
  PROVE  SeriesShown'
<1>1. PICK f, l : f = Family /\ l = Current
  OBVIOUS
<1>2. Family' = f /\ Current' = l /\ f \in ToSet(Families)
  BY <1>1, FamilyIs DEF Family, Current
<1>3. Seen(f) \subseteq Seen(f)' /\ Wanted(f)' = Wanted(f)
  BY <1>2, KeepsWithin DEF Keeps
<1>4. \A v, cells : Within(v, f, l, cells) => Within(v, f, l, cells)'
  BY KeepsWithin
<1>5. /\ scrape.cell = 0 => scrape.shown = {}
      /\ scrape.cell <= 1 => scrape.sum = 0
      /\ scrape.cell > 0 =>
           /\ scrape.shown \subseteq scrape.copied /\ scrape.copied \subseteq Seen(f)
           /\ Wanted(f) \subseteq scrape.copied
           /\ scrape.cell > 1 => scrape.copied # scrape.shown
           /\ scrape.copied # scrape.shown => Within(scrape.sum, f, l, 1 .. scrape.cell - 1)
  BY <1>1 DEF SeriesShown
<1>6. ASSUME scrape.cell > 0
      PROVE  /\ scrape.copied \subseteq Seen(f)' /\ Wanted(f)' \subseteq scrape.copied
             /\ scrape.copied # scrape.shown => Within(scrape.sum, f, l, 1 .. scrape.cell - 1)'
  <2>1. PICK v, cells : v = scrape.sum /\ cells = 1 .. scrape.cell - 1
    OBVIOUS
  <2>2. scrape'.sum = v /\ 1 .. scrape'.cell - 1 = cells
    BY <2>1
  <2>3. scrape.copied # scrape.shown => Within(v, f, l, cells)'
    BY <1>4, <1>5, <1>6, <2>1
  <2> QED BY <1>3, <1>5, <1>6, <2>2, <2>3
<1> QED BY <1>2, <1>5, <1>6 DEF SeriesShown

LEMMA CoversKept ==
  ASSUME RegistryInv, RegistryInv', Keeps, Covers, scrape.at \in 1 .. Len(Families),
         scrape'.at = scrape.at, DOMAIN scrape.lines \subseteq DOMAIN scrape'.lines,
         \A l \in scrape'.shown : <<Family, l>> \in DOMAIN scrape'.lines
  PROVE  Covers'
<1>1. Family' = Family
  BY DEF Family
<1>2. ASSUME NEW n \in 1 .. scrape.at - 1, Families[n] \in Once, NEW l \in Wanted(Families[n])'
      PROVE  <<Families[n], l>> \in DOMAIN scrape'.lines
  <2>1. Wanted(Families[n])' = Wanted(Families[n])
    BY KeepsWithin
  <2> QED BY <1>2, <2>1 DEF Covers
<1> QED BY <1>1, <1>2 DEF Covers

LEMMA CountKeepsLines ==
  ASSUME RegistryInv, RegistryInv', ScrapeFits, LinesInv, NEW r \in Runs, Count(r)
  PROVE  LinesInv'
<1>1. CASE scrape.at \in 1 .. Len(Families)
  <2>1. LinesKept /\ Covers /\ (Family \in Histograms => SeriesShown)
    BY <1>1, LinesFitIs DEF LinesInv
  <2>2. /\ Keeps
        /\ scrape'.at = scrape.at /\ scrape'.shown = scrape.shown /\ scrape'.copied = scrape.copied
        /\ scrape'.cell = scrape.cell /\ scrape'.sum = scrape.sum /\ scrape'.lines = scrape.lines
    BY <1>1, <2>1, CountKeeps DEF LinesKept
  <2>3. LinesKept' /\ Covers'
    BY <1>1, <2>1, <2>2, LinesKeptAlone, CoversKept DEF Covers
  <2>4. Family' \in Histograms => SeriesShown'
    BY <1>1, <2>1, <2>2, SeriesKept DEF Family
  <2>5. LinesFit'
    BY <2>3, <2>4, LinesFitIs DEF LinesFit, LinesKept, Covers
  <2> QED BY <2>5 DEF LinesInv
<1>2. CASE scrape.at \notin 1 .. Len(Families)
  <2>1. scrape'.at = scrape.at
    BY DEF Count, RecordRun, IncRead, IncWrite, ObserveSeries, ObserveCell, ObserveCount,
           Update, scraper, ScrapeFits
  <2> QED BY <1>2, <2>1 DEF LinesInv
<1> QED BY <1>1, <1>2

\* What a step of the render leaves of the lines, up to the series it is in.
LEMMA ShowCountKeepsLines ==
  ASSUME RegistryInv, CellsFit, ScrapeFits, LinesInv, ShowCount
  PROVE  LinesInv'
<1>1. /\ scrape.at \in 1 .. Len(Families) /\ Family \in Counters
      /\ \E label \in Seen(Family) \ scrape.shown :
           scrape' = [scrape EXCEPT
             !.lines = With(@, <<Family, label>>, values[Family][label]),
             !.shown = @ \union {label},
             !.size = Cardinality(Seen(Family))]
  BY DEF ShowCount, Rendering
<1>2. PICK f : f = Family
  OBVIOUS
<1>3. PICK label \in Seen(f) :
        scrape' = [scrape EXCEPT
          !.lines = With(@, <<f, label>>, values[f][label]),
          !.shown = @ \union {label},
          !.size = Cardinality(Seen(f))]
  BY <1>1, <1>2
<1>4. /\ scrape'.lines = With(scrape.lines, <<f, label>>, values[f][label])
      /\ scrape'.shown = scrape.shown \union {label} /\ scrape'.at = scrape.at
      /\ scrape'.beside = scrape.beside
  BY <1>3 DEF ScrapeFits
<1>5. LinesKept /\ Covers /\ f \in ToSet(Families) /\ f \in Counters /\ f \notin Histograms
  BY <1>1, <1>2, LinesFitIs, FamilyIs, FamilyNames DEF LinesInv
<1>6. Keeps /\ RegistryInv'
  BY <1>4, <1>5, RenderKeeps DEF LinesKept, Render
<1>7. label \in Labels
  BY <1>3, <1>5 DEF RegistryInv, CountsFit
<1>8. f \in Once => Within(values[f][label], f, label, AnyCell)
  BY <1>3, <1>5, ReadsWithin DEF LinesKept
<1>9. LinesKept' /\ DOMAIN scrape'.lines = DOMAIN scrape.lines \union {<<f, label>>}
  BY <1>4, <1>5, <1>6, <1>7, <1>8, LinesKeptWith
<1>10. Covers'
  <2>1. \A l \in scrape'.shown : <<Family, l>> \in DOMAIN scrape'.lines
    BY <1>2, <1>4, <1>5, <1>9 DEF Covers
  <2> QED BY <1>1, <1>4, <1>5, <1>6, <1>9, <2>1, CoversKept
<1>11. Family' \notin Histograms
  BY <1>2, <1>4, <1>5 DEF Family
<1> QED BY <1>9, <1>10, <1>11, LinesFitIs DEF LinesInv, LinesFit, LinesKept, Covers

\* A step of the render within a histogram that adds no line.
LEMMA SeriesStepKeepsLines ==
  ASSUME RegistryInv, LinesInv, Render, Rendering(Histograms), scrape'.at = scrape.at,
         scrape'.lines = scrape.lines, scrape'.shown = scrape.shown, scrape'.beside = scrape.beside,
         SeriesShown'
  PROVE  LinesInv'
<1>1. scrape.at \in 1 .. Len(Families) /\ LinesKept /\ Covers
  BY LinesFitIs DEF LinesInv, Rendering
<1>2. Keeps /\ RegistryInv'
  BY <1>1, RenderKeeps DEF LinesKept
<1>3. LinesKept' /\ Covers'
  BY <1>1, <1>2, LinesKeptAlone, CoversKept DEF Covers
<1> QED BY <1>3 DEF LinesInv, LinesFit, LinesKept, Covers

LEMMA CopySeriesKeepsLines ==
  ASSUME RegistryInv, CellsFit, ScrapeFits, LinesInv, CopySeries
  PROVE  LinesInv'
<1>1. /\ scrape.at \in 1 .. Len(Families) /\ Family \in Histograms /\ scrape.cell = 0
      /\ Rendering(Histograms)
      /\ scrape' = [scrape EXCEPT !.copied = Seen(Family), !.cell = 1]
  BY DEF CopySeries, Rendering
<1>2. /\ scrape'.at = scrape.at /\ scrape'.lines = scrape.lines /\ scrape'.shown = scrape.shown
      /\ scrape'.beside = scrape.beside /\ scrape'.sum = scrape.sum
      /\ scrape'.copied = Seen(Family) /\ scrape'.cell = 1
  BY <1>1 DEF ScrapeFits
<1>3. LinesKept /\ SeriesShown /\ scrape.shown = {} /\ scrape.sum = 0
  BY <1>1, LinesFitIs DEF LinesInv, SeriesShown
<1>4. PICK f : f = Family
  OBVIOUS
<1>5. Family' = f /\ f \in Once /\ f \in ToSet(Families)
  BY <1>1, <1>2, <1>4, FamilyIs DEF Family
<1>6. Keeps /\ RegistryInv'
  BY <1>2, <1>3, RenderKeeps DEF LinesKept, Render
<1>7. Wanted(f)' = Wanted(f) /\ Wanted(f) \subseteq Seen(f) /\ Seen(f) \subseteq Seen(f)'
  BY <1>3, <1>5, <1>6, KeepsWithin, ReadsWithin DEF LinesKept, Keeps
<1>8. SeriesShown'
  <2>1. PICK l : l = Current'
    OBVIOUS
  <2>2. Within(0, f, l, {})'
    <3>1. Within(0, f, l, {})
      BY NoCellsYet
    <3> QED BY <1>6, <3>1, KeepsWithin
  <2>3. 1 .. scrape'.cell - 1 = {} /\ scrape'.sum = 0
    BY <1>2, <1>3
  <2>4. Within(scrape.sum, f, l, 1 .. scrape.cell - 1)'
    <3>1. PICK v, cells : v = 0 /\ cells = {}
      OBVIOUS
    <3>2. scrape'.sum = v /\ 1 .. scrape'.cell - 1 = cells
      BY <2>3, <3>1
    <3>3. Within(v, f, l, cells)'
      BY <2>2, <3>1
    <3> QED BY <3>2, <3>3
  <2> QED BY <1>2, <1>3, <1>4, <1>5, <1>7, <2>1, <2>4 DEF SeriesShown
<1> QED BY <1>1, <1>2, <1>8, SeriesStepKeepsLines DEF Render

LEMMA CurrentIs ==
  ASSUME scrape.shown \subseteq scrape.copied, scrape.copied # scrape.shown
  PROVE  Current \in scrape.copied
<1>1. \E label \in scrape.copied : label \notin scrape.shown
  OBVIOUS
<1> QED BY <1>1 DEF Current

LEMMA ShowCellKeepsLines ==
  ASSUME RegistryInv, CellsFit, ScrapeFits, LinesInv, ShowCell
  PROVE  LinesInv'
<1>1. /\ scrape.at \in 1 .. Len(Families) /\ Family \in Histograms
      /\ scrape.copied # scrape.shown /\ scrape.cell \in Cells
      /\ Rendering(Histograms)
      /\ scrape' = [scrape EXCEPT
           !.sum = @ + values[Family][Current].cells[scrape.cell], !.cell = @ + 1]
  BY DEF ShowCell, Rendering
<1>2. PICK f, l, c : f = Family /\ l = Current /\ c = scrape.cell
  OBVIOUS
<1>3. /\ scrape'.at = scrape.at /\ scrape'.lines = scrape.lines /\ scrape'.shown = scrape.shown
      /\ scrape'.beside = scrape.beside /\ scrape'.copied = scrape.copied
      /\ scrape'.sum = scrape.sum + values[f][l].cells[c] /\ scrape'.cell = c + 1
  BY <1>1, <1>2 DEF ScrapeFits
<1>4. Family' = f /\ Current' = l /\ f \in Once /\ f \in Histograms /\ f \in ToSet(Families)
  BY <1>1, <1>2, <1>3, FamilyIs DEF Family, Current
<1>5. c \in Nat /\ c > 0 /\ c \in Cells
  BY <1>1, <1>2 DEF Cells
<1>6. LinesKept /\ SeriesShown
  BY <1>1, LinesFitIs DEF LinesInv
<1>7. /\ scrape.shown \subseteq scrape.copied /\ scrape.copied \subseteq Seen(f)
      /\ Wanted(f) \subseteq scrape.copied
      /\ Within(scrape.sum, f, l, 1 .. c - 1)
  BY <1>1, <1>2, <1>5, <1>6 DEF SeriesShown
<1>8. l \in Seen(f)
  BY <1>1, <1>2, <1>7, CurrentIs
<1>9. Within(values[f][l].cells[c], f, l, {c})
  BY <1>4, <1>5, <1>6, <1>8, CellWithin DEF LinesKept
<1>10. Within(scrape'.sum, f, l, 1 .. c)
  BY <1>3, <1>4, <1>5, <1>7, <1>9, OneCellMore
<1>11. Keeps /\ RegistryInv'
  BY <1>3, <1>6, RenderKeeps DEF LinesKept, Render
<1>12. Wanted(f)' = Wanted(f) /\ Seen(f) \subseteq Seen(f)'
  BY <1>4, <1>11, KeepsWithin DEF Keeps
<1>13. SeriesShown'
  <2>1. PICK v : v = scrape'.sum
    OBVIOUS
  <2>2. Within(v, f, l, 1 .. c)'
    BY <1>10, <1>11, <2>1, KeepsWithin
  <2>3. PICK cells : cells = 1 .. c
    OBVIOUS
  <2>4. 1 .. scrape'.cell - 1 = cells /\ scrape'.cell > 1
    BY <1>3, <1>5, <2>3
  <2>5. Within(scrape.sum, f, l, 1 .. scrape.cell - 1)'
    BY <2>1, <2>2, <2>3, <2>4
  <2>6. scrape'.cell # 0 /\ ~(scrape'.cell <= 1)
    BY <1>3, <1>5
  <2>7. scrape'.copied \subseteq Seen(f)' /\ Wanted(f)' \subseteq scrape'.copied
    BY <1>3, <1>7, <1>12
  <2>8. scrape'.shown \subseteq scrape'.copied /\ scrape'.copied # scrape'.shown
    BY <1>1, <1>3, <1>7
  <2> QED BY <1>4, <2>5, <2>6, <2>7, <2>8 DEF SeriesShown
<1> QED BY <1>1, <1>3, <1>13, SeriesStepKeepsLines DEF Render

LEMMA ShowSeriesCountKeepsLines ==
  ASSUME RegistryInv, CellsFit, ScrapeFits, LinesInv, ShowSeriesCount
  PROVE  LinesInv'
<1>1. /\ scrape.at \in 1 .. Len(Families) /\ Family \in Histograms
      /\ scrape.cell = Overflow + 1
      /\ scrape' = [scrape EXCEPT
           !.lines = With(@, <<Family, Current>>,
                          [inf |-> scrape.sum, count |-> values[Family][Current].count]),
           !.shown = @ \union {Current}, !.cell = 1, !.sum = 0]
  BY DEF ShowSeriesCount, Rendering
<1>2. PICK f, l : f = Family /\ l = Current
  OBVIOUS
<1> DEFINE line == [inf |-> scrape.sum, count |-> values[f][l].count]
<1>3. /\ scrape'.lines = With(scrape.lines, <<f, l>>, line)
      /\ scrape'.shown = scrape.shown \union {l} /\ scrape'.at = scrape.at
      /\ scrape'.beside = scrape.beside /\ scrape'.copied = scrape.copied
      /\ scrape'.cell = 1 /\ scrape'.sum = 0
  BY <1>1, <1>2 DEF ScrapeFits
<1>4. /\ Family' = f /\ f \in Once /\ f \in Histograms /\ f \in ToSet(Families)
      /\ f \notin Counters
  BY <1>1, <1>2, <1>3, FamilyIs DEF Family
<1>5. LinesKept /\ Covers /\ SeriesShown
  BY <1>1, LinesFitIs DEF LinesInv
<1>6. Overflow \in Nat /\ Overflow > 0 /\ Overflow + 1 > 1 /\ Overflow + 1 - 1 = Overflow
  BY CellsAre
<1>7. /\ scrape.shown \subseteq scrape.copied /\ scrape.copied \subseteq Seen(f)
      /\ scrape.copied # scrape.shown
      /\ Wanted(f) \subseteq scrape.copied
      /\ Within(scrape.sum, f, l, 1 .. Overflow)
  BY <1>1, <1>2, <1>5, <1>6 DEF SeriesShown
<1>8. l \in scrape.copied /\ l \in Seen(f) /\ l \in Labels
  <2>1. l \in scrape.copied
    BY <1>2, <1>7, CurrentIs
  <2> QED BY <1>4, <1>7, <2>1 DEF RegistryInv, CountsFit
<1>9. Within(line.inf, f, l, AnyCell) /\ Within(line.count, f, l, AnyCell)
  <2>1. Within(scrape.sum, f, l, AnyCell)
    BY <1>4, <1>7, AllCells
  <2>2. Within(values[f][l].count, f, l, AnyCell)
    BY <1>4, <1>5, <1>8, ReadsWithin DEF LinesKept
  <2> QED BY <2>1, <2>2
<1>10. Keeps /\ RegistryInv'
  BY <1>3, <1>5, RenderKeeps DEF LinesKept, Render
<1> HIDE DEF line
<1>11. LinesKept' /\ DOMAIN scrape'.lines = DOMAIN scrape.lines \union {<<f, l>>}
  BY <1>3, <1>4, <1>5, <1>8, <1>9, <1>10, LinesKeptWith
<1>12. Covers'
  <2>1. \A m \in scrape'.shown : <<Family, m>> \in DOMAIN scrape'.lines
    BY <1>2, <1>3, <1>5, <1>11 DEF Covers
  <2> QED BY <1>1, <1>3, <1>5, <1>10, <1>11, <2>1, CoversKept
<1>13. SeriesShown'
  <2>1. Wanted(f)' = Wanted(f) /\ Seen(f) \subseteq Seen(f)'
    BY <1>4, <1>10, KeepsWithin DEF Keeps
  <2>2. PICK m : m = Current'
    OBVIOUS
  <2>3. Within(0, f, m, {})'
    <3>1. Within(0, f, m, {})
      BY NoCellsYet
    <3> QED BY <1>10, <3>1, KeepsWithin
  <2>4. 1 .. scrape'.cell - 1 = {} /\ scrape'.sum = 0
    BY <1>3
  <2>5. Within(scrape.sum, f, m, 1 .. scrape.cell - 1)'
    <3>1. PICK v, cells : v = 0 /\ cells = {}
      OBVIOUS
    <3>2. scrape'.sum = v /\ 1 .. scrape'.cell - 1 = cells
      BY <2>4, <3>1
    <3>3. Within(v, f, m, cells)'
      BY <2>3, <3>1
    <3> QED BY <3>2, <3>3
  <2> QED BY <1>3, <1>4, <1>7, <1>8, <2>1, <2>2, <2>5 DEF SeriesShown
<1> QED BY <1>11, <1>12, <1>13 DEF LinesInv, LinesFit, LinesKept, Covers

\* A family that is shown is covered.
LEMMA ShownIsCovered ==
  ASSUME RegistryInv, CellsFit, LinesFit, scrape.at \in 1 .. Len(Families), FamilyIsShown
  PROVE  \A n \in 1 .. scrape.at : Families[n] \in Once =>
           \A l \in Wanted(Families[n]) : <<Families[n], l>> \in DOMAIN scrape.lines
<1>1. LinesKept /\ Covers /\ (Family \in Histograms => SeriesShown)
  BY LinesFitIs
<1>2. ASSUME Family \in Once, NEW l \in Wanted(Family) PROVE <<Family, l>> \in DOMAIN scrape.lines
  <2>1. CASE Family \in Counters
    <3>1. Seen(Family) \subseteq scrape.shown
      BY <2>1, FamilyNames DEF FamilyIsShown
    <3>2. l \in Seen(Family)
      BY <1>1, <1>2, ReadsWithin DEF LinesKept
    <3> QED BY <1>1, <3>1, <3>2 DEF Covers
  <2>2. CASE Family \notin Counters
    <3>1. Family \in Histograms /\ scrape.cell = 1 /\ scrape.copied = scrape.shown
      BY <2>2 DEF FamilyIsShown
    <3>2. l \in scrape.shown
      BY <1>1, <1>2, <3>1 DEF SeriesShown
    <3> QED BY <1>1, <3>2 DEF Covers
  <2> QED BY <2>1, <2>2
<1>3. ASSUME NEW n \in 1 .. scrape.at PROVE n = scrape.at \/ n \in 1 .. scrape.at - 1
  OBVIOUS
<1> QED BY <1>1, <1>2, <1>3 DEF Covers, Family

LEMMA NextFamilyKeepsLines ==
  ASSUME RegistryInv, CellsFit, ScrapeFits, LinesInv, NextFamily
  PROVE  LinesInv'
<1>1. /\ scrape.at \in 1 .. Len(Families) /\ FamilyIsShown
      /\ scrape' = [NoScrape EXCEPT
           !.at = scrape.at + 1, !.lines = scrape.lines, !.beside = scrape.beside]
  BY DEF NextFamily, Rendering
<1>2. /\ scrape'.at = scrape.at + 1 /\ scrape'.lines = scrape.lines
      /\ scrape'.beside = scrape.beside /\ scrape'.shown = {} /\ scrape'.cell = 0 /\ scrape'.sum = 0
  BY <1>1 DEF NoScrape
<1>3. LinesKept
  BY <1>1, LinesFitIs DEF LinesInv
<1>4. Keeps /\ RegistryInv'
  BY <1>2, <1>3, RenderKeeps DEF LinesKept, Render
<1>5. LinesKept'
  BY <1>2, <1>3, <1>4, LinesKeptAlone
<1>6. Covers'
  <2>1. \A n \in 1 .. scrape.at : Families[n] \in Once =>
          \A l \in Wanted(Families[n]) : <<Families[n], l>> \in DOMAIN scrape.lines
    BY <1>1, ShownIsCovered DEF LinesInv
  <2>2. \A n : Wanted(Families[n])' = Wanted(Families[n])
    BY <1>4, KeepsWithin
  <2>3. scrape'.at - 1 = scrape.at
    BY <1>1, <1>2
  <2> QED BY <1>2, <2>1, <2>2, <2>3 DEF Covers
<1>7. SeriesShown'
  BY <1>2 DEF SeriesShown
<1> QED BY <1>5, <1>6, <1>7 DEF LinesInv, LinesFit, LinesKept, Covers

LEMMA BeginScrapeKeepsLines ==
  ASSUME RegistryInv, BeginScrape
  PROVE  LinesInv'
<1>1. /\ scrape' = [NoScrape EXCEPT !.at = 1, !.beside = Counting]
      /\ todo' = todo /\ finished' = finished
  BY DEF BeginScrape, registry
<1>2. /\ scrape'.at = 1 /\ scrape'.lines = <<>> /\ scrape'.beside = Counting
      /\ scrape'.shown = {} /\ scrape'.cell = 0 /\ scrape'.sum = 0
  BY <1>1 DEF NoScrape
<1>3. Counting \subseteq Finished
  BY NextUpdate, RunsAssumption DEF Counting, Finished
<1>4. Finished' = Finished
  BY <1>1 DEF Finished
<1>5. \A r \in Settled' : todo'[r] = <<>>
  BY <1>1, <1>2, <1>4 DEF Settled, Counting, Finished
<1>6. DOMAIN scrape'.lines = {}
  BY <1>2
<1>7. LinesKept'
  BY <1>2, <1>3, <1>4, <1>5, <1>6, FS_EmptySet DEF LinesKept
<1>8. Covers'
  BY <1>2 DEF Covers
<1>9. SeriesShown'
  BY <1>2 DEF SeriesShown
<1> QED BY <1>7, <1>8, <1>9 DEF LinesInv, LinesFit, LinesKept, Covers

LEMMA AlwaysLinesInv == Spec => []LinesInv
<1>1. Init => LinesInv
  BY FamilyNames DEF Init, NoScrape, LinesInv
<1>2. RegistryInv /\ RegistryInv' /\ CellsFit /\ ScrapeFits /\ LinesInv /\ [Next]_vars => LinesInv'
  <2> SUFFICES ASSUME RegistryInv, RegistryInv', CellsFit, ScrapeFits, LinesInv, [Next]_vars
               PROVE  LinesInv'
    OBVIOUS
  <2>1. ASSUME NEW r \in Runs, Count(r) PROVE LinesInv'
    BY <2>1, CountKeepsLines
  <2>2. ASSUME scrape'.at \in {0, Len(Families) + 1} PROVE LinesInv'
    BY <2>2, FamilyNames DEF LinesInv
  <2>3. CASE ScrapeRaises \/ Answer \/ AnswerError
    BY <2>2, <2>3 DEF ScrapeRaises, Answer, AnswerError, NoScrape
  <2>4. CASE UNCHANGED vars
    <3>1. /\ values' = values /\ finished' = finished /\ todo' = todo /\ scrape' = scrape
      BY <2>4 DEF vars
    <3>2. Keeps \/ scrape.at \notin 1 .. Len(Families)
      BY <3>1 DEF Keeps, LinesInv, LinesFit, Finished, Settled, All, Seen
    <3>3. CASE scrape.at \in 1 .. Len(Families)
      <4>1. LinesKept /\ Covers /\ (Family \in Histograms => SeriesShown)
        BY <3>3, LinesFitIs DEF LinesInv
      <4>2. LinesKept' /\ Covers'
        BY <3>1, <3>2, <3>3, <4>1, LinesKeptAlone, CoversKept DEF Covers
      <4>3. Family' \in Histograms => SeriesShown'
        BY <3>1, <3>2, <3>3, <4>1, SeriesKept DEF Family
      <4> QED BY <4>2, <4>3 DEF LinesInv, LinesFit, LinesKept, Covers
    <3>4. CASE scrape.at \notin 1 .. Len(Families)
      BY <3>1, <3>4 DEF LinesInv
    <3> QED BY <3>3, <3>4
  <2> QED BY <2>1, <2>3, <2>4, BeginScrapeKeepsLines, ShowCountKeepsLines, CopySeriesKeepsLines,
             ShowCellKeepsLines, ShowSeriesCountKeepsLines, NextFamilyKeepsLines DEF Next, Render
<1> QED BY <1>1, <1>2, AlwaysRegistryInv, AlwaysCellsFit, AlwaysScrapeFits, PTL DEF Spec

-----------------------------------------------------------------------------
\* What a page adds up to.

\* The runs of R that count f.
HavingAny(R, f) == UNION { Having(R, f, l, AnyCell) : l \in Labels }

LEMMA HavingIsMentioning ==
  ASSUME RegistryInv, NEW R \in SUBSET Finished
  PROVE  /\ \A f, l : \A r \in Finished :
              r \in Having(R, f, l, AnyCell) <=> r \in R /\ Mentions(All(r), f, l)
         /\ \A f : \A r \in Finished :
              r \in HavingAny(R, f) <=> r \in R /\ \E l : Mentions(All(r), f, l)
         /\ \A f : HavingAny(R, f) \subseteq R
         /\ \A f, l : Having(R, f, l, AnyCell) # {} => l \in Labels
<1>1. ASSUME NEW f, NEW l, NEW r \in Finished
      PROVE  r \in Having(R, f, l, AnyCell) <=> r \in R /\ Mentions(All(r), f, l)
  <2>1. \A n \in 1 .. Len(All(r)) : All(r)[n].cell \in AnyCell
    BY FinishedHas
  <2> QED BY <2>1 DEF Having, Mentions
<1>2. ASSUME NEW f, NEW l, NEW r \in Finished, Mentions(All(r), f, l) PROVE l \in Labels
  <2>1. PICK n \in 1 .. Len(All(r)) : All(r)[n].label = l
    BY <1>2 DEF Mentions
  <2>2. All(r)[n] \in UpdateSet
    BY FinishedHas
  <2> QED BY <2>1, <2>2, UpdateFields
<1>3. ASSUME NEW f, NEW r \in Finished
      PROVE  r \in HavingAny(R, f) <=> r \in R /\ \E l : Mentions(All(r), f, l)
  BY <1>1, <1>2 DEF HavingAny
<1>4. \A f : HavingAny(R, f) \subseteq R
  BY HavingIsFinite DEF HavingAny
<1>5. ASSUME NEW f, NEW l, Having(R, f, l, AnyCell) # {} PROVE l \in Labels
  <2>1. PICK r : r \in Having(R, f, l, AnyCell)
    BY <1>5
  <2>2. r \in R
    BY <2>1 DEF Having
  <2> QED BY <1>1, <1>2, <2>1, <2>2
<1> QED BY <1>1, <1>3, <1>4, <1>5

\* Every run counts a status, a number of decisions and a duration; those that hand off, and
\* no other, count a reason.
LEMMA AllHave ==
  ASSUME RegistryInv, NEW R \in SUBSET Finished
  PROVE  /\ HavingAny(R, "tickets_total") = R
         /\ HavingAny(R, "iterations_per_ticket") = R
         /\ HavingAny(R, "pipeline_duration_seconds") = R
         /\ HavingAny(R, "handoffs_total") = Having(R, "tickets_total", "handed_off", AnyCell)
<1>1. ASSUME NEW r \in Finished
      PROVE  /\ \E l : Mentions(All(r), "tickets_total", l)
             /\ \E l : Mentions(All(r), "iterations_per_ticket", l)
             /\ \E l : Mentions(All(r), "pipeline_duration_seconds", l)
             /\ (\E l : Mentions(All(r), "handoffs_total", l))
                  <=> Mentions(All(r), "tickets_total", "handed_off")
  <2>1. PICK f \in Finishes : f = finished[r] /\ All(r) = Updates(f)
    BY FinishedHas
  <2>2. f.status = "handed_off" <=> f.reason # None
    BY FinishesAssumption
  <2>3. /\ \A l : Mentions(All(r), "tickets_total", l) <=> l = f.status
        /\ \A l : Mentions(All(r), "handoffs_total", l) <=> f.reason # None /\ l = f.reason
        /\ \E l : Mentions(All(r), "iterations_per_ticket", l)
        /\ \E l : Mentions(All(r), "pipeline_duration_seconds", l)
    BY <2>1, UpdatesOnce
  <2> QED BY <2>2, <2>3
<1>2. ASSUME NEW f, \A r \in Finished : \E l : Mentions(All(r), f, l)
      PROVE  HavingAny(R, f) = R
  <2> DEFINE A == HavingAny(R, f)
  <2>1. A \subseteq R
    BY HavingIsMentioning
  <2>2. \A r \in R : r \in A
    BY <1>2, HavingIsMentioning
  <2> HIDE DEF A
  <2>3. A = R
    BY <2>1, <2>2
  <2> QED BY <2>3 DEF A
<1>3. /\ HavingAny(R, "tickets_total") = R
      /\ HavingAny(R, "iterations_per_ticket") = R
      /\ HavingAny(R, "pipeline_duration_seconds") = R
  BY <1>1, <1>2
<1>4. HavingAny(R, "handoffs_total") = Having(R, "tickets_total", "handed_off", AnyCell)
  <2> DEFINE A == HavingAny(R, "handoffs_total")
             B == Having(R, "tickets_total", "handed_off", AnyCell)
  <2>1. A \subseteq R /\ B \subseteq R
    BY HavingIsMentioning, HavingIsFinite
  <2>2. ASSUME NEW r \in R PROVE r \in A <=> r \in B
    BY <1>1, HavingIsMentioning
  <2> HIDE DEF A, B
  <2>3. A = B
    BY <2>1, <2>2
  <2> QED BY <2>3 DEF A, B
<1> QED BY <1>3, <1>4

\* The lines of a family.
LinesOf(f) == { k \in DOMAIN scrape.lines : k[1] = f }

\* What the lines of a family add up to, when none is missing: at least the runs that were
\* done, at most all.
LEMMA TotalWithin ==
  ASSUME RegistryInv, LinesKept, NEW f \in Once,
         \A l \in Wanted(f) : <<f, l>> \in DOMAIN scrape.lines,
         NEW h, \A l \in Labels : <<f, l>> \in DOMAIN scrape.lines => Within(h[<<f, l>>], f, l, AnyCell)
  PROVE  /\ SumFunctionOnSet(h, LinesOf(f)) \in Nat
         /\ Cardinality(HavingAny(Settled, f)) <= SumFunctionOnSet(h, LinesOf(f))
         /\ SumFunctionOnSet(h, LinesOf(f)) <= Cardinality(HavingAny(Finished, f))
<1> DEFINE D == LinesOf(f)
           A == [k \in D |-> Having(Settled, f, k[2], AnyCell)]
           B == [k \in D |-> Having(Finished, f, k[2], AnyCell)]
<1>1. IsFiniteSet(D)
  BY FS_Subset DEF LinesKept, LinesOf
<1>2. ASSUME NEW k \in D PROVE k[2] \in Labels /\ k = <<f, k[2]>> /\ k \in DOMAIN scrape.lines
  BY DEF LinesKept, LinesOf
<1>3. ASSUME NEW k \in D PROVE Within(h[k], f, k[2], AnyCell)
  BY <1>2
<1>4. /\ \A k \in D : A[k] = Having(Settled, f, k[2], AnyCell)
      /\ \A k \in D : B[k] = Having(Finished, f, k[2], AnyCell)
  OBVIOUS
<1>5. \A k \in D : IsFiniteSet(A[k]) /\ IsFiniteSet(B[k])
  BY HavingIsFinite, SettledIsFinished
<1>6. ASSUME NEW j \in D, NEW k \in D, j # k PROVE B[j] \intersect B[k] = {}
  <2> SUFFICES ASSUME NEW r \in B[j], r \in B[k] PROVE FALSE
    OBVIOUS
  <2>1. r \in Finished
    BY <1>4 DEF Having
  <2>2. Mentions(All(r), f, j[2]) /\ Mentions(All(r), f, k[2])
    BY <1>4, <2>1, HavingIsMentioning
  <2>3. OnceIn(All(r), f)
    BY <2>1, FinishedHas
  <2>4. j[2] = k[2]
    BY <2>2, <2>3 DEF Mentions, OnceIn
  <2> QED BY <1>2, <1>6, <2>4
<1>7. HavingAny(Settled, f) \subseteq Covered(A, D)
  <2> SUFFICES ASSUME NEW r \in HavingAny(Settled, f) PROVE r \in Covered(A, D)
    OBVIOUS
  <2>1. PICK l \in Labels : r \in Having(Settled, f, l, AnyCell)
    BY DEF HavingAny
  <2>2. <<f, l>> \in D
    BY <2>1 DEF Wanted, LinesOf
  <2>3. r \in A[<<f, l>>]
    BY <1>4, <2>1, <2>2
  <2> QED BY <2>2, <2>3 DEF Covered
<1>8. Covered(B, D) \subseteq HavingAny(Finished, f)
  BY <1>2, <1>4 DEF Covered, HavingAny
<1>9. IsFiniteSet(HavingAny(Finished, f))
  <2>1. HavingAny(Finished, f) \subseteq Finished /\ IsFiniteSet(Finished)
    BY HavingIsMentioning DEF RegistryInv
  <2> QED BY <2>1, FS_Subset
<1>10. /\ \A k \in D : h[k] \in Nat
       /\ \A k \in D : Cardinality(A[k]) <= h[k]
       /\ \A k \in D : h[k] <= Cardinality(B[k])
  BY <1>3, <1>4 DEF Within
<1> HIDE DEF A, B, D
<1> DEFINE total == SumFunctionOnSet(h, D)
<1>11. total \in Nat
  BY <1>1, <1>10, SumWithout
<1>12. IsFiniteSet(Covered(A, D)) /\ Cardinality(Covered(A, D)) <= total
  BY <1>1, <1>5, <1>10, SumCovers
<1>13. IsFiniteSet(Covered(B, D)) /\ total <= Cardinality(Covered(B, D))
  BY <1>1, <1>5, <1>6, <1>10, SumIsCovered
<1>14. Cardinality(HavingAny(Settled, f)) <= Cardinality(Covered(A, D))
  BY <1>7, <1>12, FS_Subset
<1>15. Cardinality(Covered(B, D)) <= Cardinality(HavingAny(Finished, f))
  BY <1>8, <1>9, FS_Subset
<1>16. IsFiniteSet(HavingAny(Settled, f))
  BY <1>7, <1>12, FS_Subset
<1>17. /\ Cardinality(HavingAny(Settled, f)) \in Nat /\ Cardinality(HavingAny(Finished, f)) \in Nat
       /\ Cardinality(Covered(A, D)) \in Nat /\ Cardinality(Covered(B, D)) \in Nat
  BY <1>9, <1>12, <1>13, <1>16, FS_CardinalityType
<1> HIDE DEF total
<1>18. /\ Cardinality(HavingAny(Settled, f)) <= total
       /\ total <= Cardinality(HavingAny(Finished, f))
  BY <1>11, <1>12, <1>13, <1>14, <1>15, <1>17
<1> QED BY <1>11, <1>18 DEF total, D

\* Two numbers that are between the runs of one kind that were done and all of that kind.
LEMMA BetweenAgree ==
  ASSUME NEW low, NEW high, NEW beside, IsFiniteSet(high), IsFiniteSet(beside),
         low \subseteq high, high \subseteq low \union beside,
         NEW m \in Nat, Cardinality(low) <= m, m <= Cardinality(high),
         NEW n \in Nat, Cardinality(low) <= n, n <= Cardinality(high)
  PROVE  Apart(m, n) <= Cardinality(beside)
<1>1. IsFiniteSet(low) /\ IsFiniteSet(low \union beside) /\ IsFiniteSet(low \intersect beside)
  BY FS_Subset, FS_Union
<1> DEFINE a == Cardinality(low)
           b == Cardinality(high)
           c == Cardinality(beside)
           d == Cardinality(low \union beside)
           e == Cardinality(low \intersect beside)
<1>2. a \in Nat /\ b \in Nat /\ c \in Nat /\ d \in Nat /\ e \in Nat
  BY <1>1, FS_CardinalityType
<1>3. b <= d
  BY <1>1, FS_Subset
<1>4. d = a + c - e
  BY <1>1, FS_Union
<1>5. a <= m /\ m <= b /\ a <= n /\ n <= b
  OBVIOUS
<1> HIDE DEF a, b, c, d, e
<1>6. Apart(m, n) <= c
  BY <1>2, <1>3, <1>4, <1>5 DEF Apart
<1> QED BY <1>6 DEF c

\* A page that is answered.
LEMMA AnsweredPageDrifts ==
  ASSUME RegistryInv, CellsFit, LinesInv, Answer
  PROVE  ScrapesDriftByTheCounting'
<1>1. /\ scrape.at = 6 /\ Len(Families) = 6 /\ FamilyIsShown
      /\ page' = [lines |-> scrape.lines, beside |-> scrape.beside]
  BY FamilyNames DEF Answer
<1>2. LinesFit /\ LinesKept
  BY <1>1, LinesFitIs DEF LinesInv
<1>3. ASSUME NEW f \in Once, NEW l \in Wanted(f) PROVE <<f, l>> \in DOMAIN scrape.lines
  <2>1. PICK n \in 1 .. 6 : Families[n] = f
    BY FamilyNames DEF Once, Families
  <2> QED BY <1>1, <1>2, <1>3, <2>1, ShownIsCovered
<1>4. scrape.beside \subseteq Finished /\ IsFiniteSet(Finished) /\ IsFiniteSet(scrape.beside)
  BY <1>2, FS_Subset DEF LinesKept, RegistryInv
<1>5. Settled \subseteq Finished /\ Finished \subseteq Settled \union scrape.beside
  BY DEF Settled
<1> DEFINE Agree(m, n) == Apart(m, n) <= Cardinality(scrape.beside)
           counts == [k \in DOMAIN scrape.lines |-> scrape.lines[k].count]
           Total(f) == SumFunctionOnSet(scrape.lines, LinesOf(f))
           TotalCount(f) == SumFunctionOnSet(counts, LinesOf(f))
           Shown(f, l) == IF <<f, l>> \in DOMAIN scrape.lines THEN scrape.lines[<<f, l>>] ELSE 0
<1>6. /\ "tickets_total" \in Once /\ "handoffs_total" \in Once
      /\ "iterations_per_ticket" \in Once /\ "pipeline_duration_seconds" \in Once
      /\ "tickets_total" \in Counters /\ "handoffs_total" \in Counters
      /\ "iterations_per_ticket" \notin Counters /\ "pipeline_duration_seconds" \notin Counters
  BY DEF Once, Counters
<1>7. ASSUME NEW f \in Once \intersect Counters
      PROVE  /\ Total(f) \in Nat /\ Cardinality(HavingAny(Settled, f)) <= Total(f)
             /\ Total(f) <= Cardinality(HavingAny(Finished, f))
  <2>1. \A l \in Labels : <<f, l>> \in DOMAIN scrape.lines =>
          Within(scrape.lines[<<f, l>>], f, l, AnyCell)
    BY <1>2 DEF LinesKept, LineFits
  <2> QED BY <1>2, <1>3, <2>1, TotalWithin
<1>8. ASSUME NEW f \in Once \ Counters
      PROVE  /\ TotalCount(f) \in Nat /\ Cardinality(HavingAny(Settled, f)) <= TotalCount(f)
             /\ TotalCount(f) <= Cardinality(HavingAny(Finished, f))
  <2>1. \A l \in Labels : <<f, l>> \in DOMAIN scrape.lines => Within(counts[<<f, l>>], f, l, AnyCell)
    BY <1>2 DEF LinesKept, LineFits
  <2> HIDE DEF counts
  <2> QED BY <1>2, <1>3, <2>1, TotalWithin
<1> HIDE DEF counts, Total, TotalCount, Agree
<1>9. Agree(Total("tickets_total"), TotalCount("iterations_per_ticket"))
  <2>1. /\ HavingAny(Settled, "tickets_total") = Settled
        /\ HavingAny(Finished, "tickets_total") = Finished
        /\ HavingAny(Settled, "iterations_per_ticket") = Settled
        /\ HavingAny(Finished, "iterations_per_ticket") = Finished
    BY <1>5, AllHave
  <2>2. /\ Total("tickets_total") \in Nat /\ Cardinality(Settled) <= Total("tickets_total")
        /\ Total("tickets_total") <= Cardinality(Finished)
    BY <1>6, <1>7, <2>1
  <2>3. /\ TotalCount("iterations_per_ticket") \in Nat
        /\ Cardinality(Settled) <= TotalCount("iterations_per_ticket")
        /\ TotalCount("iterations_per_ticket") <= Cardinality(Finished)
    BY <1>6, <1>8, <2>1
  <2> QED BY <1>4, <1>5, <2>2, <2>3, BetweenAgree DEF Agree
<1>10. Agree(Total("tickets_total"), TotalCount("pipeline_duration_seconds"))
  <2>1. /\ HavingAny(Settled, "tickets_total") = Settled
        /\ HavingAny(Finished, "tickets_total") = Finished
        /\ HavingAny(Settled, "pipeline_duration_seconds") = Settled
        /\ HavingAny(Finished, "pipeline_duration_seconds") = Finished
    BY <1>5, AllHave
  <2>2. /\ Total("tickets_total") \in Nat /\ Cardinality(Settled) <= Total("tickets_total")
        /\ Total("tickets_total") <= Cardinality(Finished)
    BY <1>6, <1>7, <2>1
  <2>3. /\ TotalCount("pipeline_duration_seconds") \in Nat
        /\ Cardinality(Settled) <= TotalCount("pipeline_duration_seconds")
        /\ TotalCount("pipeline_duration_seconds") <= Cardinality(Finished)
    BY <1>6, <1>8, <2>1
  <2> QED BY <1>4, <1>5, <2>2, <2>3, BetweenAgree DEF Agree
<1>11. ASSUME NEW f, NEW l
       PROVE  /\ Having(Settled, f, l, AnyCell) \subseteq Having(Finished, f, l, AnyCell)
              /\ Having(Finished, f, l, AnyCell) \subseteq
                   Having(Settled, f, l, AnyCell) \union scrape.beside
              /\ IsFiniteSet(Having(Finished, f, l, AnyCell))
  <2>1. IsFiniteSet(Having(Finished, f, l, AnyCell))
    BY HavingIsFinite
  <2> QED BY <1>5, <2>1 DEF Having
<1>12. ASSUME NEW f, NEW l, NEW m, NEW n, Within(m, f, l, AnyCell), Within(n, f, l, AnyCell)
       PROVE  Agree(m, n)
  BY <1>4, <1>11, <1>12, BetweenAgree DEF Within, Agree
<1>13. Agree(Shown("tickets_total", "handed_off"), Total("handoffs_total"))
  <2>1. /\ HavingAny(Settled, "handoffs_total") =
             Having(Settled, "tickets_total", "handed_off", AnyCell)
        /\ HavingAny(Finished, "handoffs_total") =
             Having(Finished, "tickets_total", "handed_off", AnyCell)
    BY <1>5, AllHave
  <2>2. Within(Total("handoffs_total"), "tickets_total", "handed_off", AnyCell)
    BY <1>6, <1>7, <2>1 DEF Within
  <2>3. Within(Shown("tickets_total", "handed_off"), "tickets_total", "handed_off", AnyCell)
    <3>1. CASE <<"tickets_total", "handed_off">> \in DOMAIN scrape.lines
      <4>1. "handed_off" \in Labels
        BY <1>2, <3>1 DEF LinesKept
      <4>2. LineFits("tickets_total", "handed_off")
        BY <1>2, <1>6, <3>1, <4>1 DEF LinesKept
      <4> QED BY <1>6, <3>1, <4>2 DEF LineFits
    <3>2. CASE <<"tickets_total", "handed_off">> \notin DOMAIN scrape.lines
      <4>1. Having(Settled, "tickets_total", "handed_off", AnyCell) = {}
        <5> SUFFICES ASSUME NEW r \in Having(Settled, "tickets_total", "handed_off", AnyCell)
                     PROVE  FALSE
          OBVIOUS
        <5>1. "handed_off" \in Labels
          BY <1>5, HavingIsMentioning
        <5>2. "handed_off" \in Wanted("tickets_total")
          BY <5>1 DEF Wanted
        <5> QED BY <1>3, <1>6, <3>2, <5>2
      <4>2. Cardinality(Having(Finished, "tickets_total", "handed_off", AnyCell)) \in Nat
        BY HavingIsFinite
      <4>3. Shown("tickets_total", "handed_off") = 0
        BY <3>2
      <4> QED BY <4>1, <4>2, <4>3, FS_EmptySet DEF Within
    <3> QED BY <3>1, <3>2
  <2> QED BY <1>12, <2>2, <2>3
<1>14. ASSUME NEW f \in Histograms, NEW k \in LinesOf(f)
       PROVE  Agree(scrape.lines[k].inf, scrape.lines[k].count)
  <2>1. PICK l \in Labels : k = <<f, l>> /\ k \in DOMAIN scrape.lines
    BY <1>2 DEF LinesKept, LinesOf
  <2>2. f \in Once /\ f \notin Counters
    BY FamilyNames DEF Once
  <2>3. LineFits(f, l)
    BY <1>2, <2>1, <2>2 DEF LinesKept
  <2> QED BY <1>12, <2>1, <2>2, <2>3 DEF LineFits
<1>15. page'.lines = scrape.lines /\ page'.beside = scrape.beside
  BY <1>1
<1>16. \A f : Samples(f)' = LinesOf(f)
  BY <1>15 DEF Samples, LinesOf
<1>17. /\ \A f : Shows(f)' = Total(f)
       /\ \A f : ShowsCount(f)' = TotalCount(f)
       /\ \A f, l : Sample(f, l)' = Shown(f, l)
  BY <1>15, <1>16 DEF Shows, ShowsCount, Sample, Total, TotalCount, counts
<1> HIDE DEF Shown
<1> QED BY <1>9, <1>10, <1>13, <1>14, <1>15, <1>16, <1>17 DEF ScrapesDriftByTheCounting, Agree

\* Before the first scrape ends, the page is empty.
LEMMA EmptyPageDrifts ==
  ASSUME page = [lines |-> <<>>, beside |-> {}]
  PROVE  ScrapesDriftByTheCounting
<1>1. page.lines = <<>> /\ page.beside = {} /\ DOMAIN page.lines = {}
  OBVIOUS
<1>2. Cardinality(page.beside) = 0
  BY <1>1, FS_EmptySet
<1>3. \A f : Samples(f) = {}
  BY <1>1 DEF Samples
<1>4. /\ \A f : Shows(f) = 0 /\ ShowsCount(f) = 0
      /\ \A f, l : Sample(f, l) = 0
  BY <1>1, <1>3, SumOfNone DEF Shows, ShowsCount, Sample
<1>5. Apart(0, 0) = 0
  BY DEF Apart
<1> QED BY <1>2, <1>3, <1>4, <1>5 DEF ScrapesDriftByTheCounting

LEMMA PageIsKept ==
  ASSUME ScrapesDriftByTheCounting, page' = page
  PROVE  ScrapesDriftByTheCounting'
<1>1. /\ \A f : Samples(f)' = Samples(f)
      /\ \A f : Shows(f)' = Shows(f) /\ ShowsCount(f)' = ShowsCount(f)
      /\ \A f, l : Sample(f, l)' = Sample(f, l)
  BY DEF Samples, Shows, ShowsCount, Sample
<1> QED BY <1>1 DEF ScrapesDriftByTheCounting

\* For every number of runs, of outcomes and of scrapes: whatever the runs count while a
\* scrape reads, no two totals of the page it answers with, and no two counts of a series,
\* are further apart than the runs that were counting beside it.
THEOREM ScrapesAlwaysDriftByTheCounting == Spec => []ScrapesDriftByTheCounting
<1>1. Init => ScrapesDriftByTheCounting
  BY EmptyPageDrifts DEF Init
<1>2. RegistryInv /\ CellsFit /\ LinesInv /\ ScrapesDriftByTheCounting /\ [Next]_vars
        => ScrapesDriftByTheCounting'
  <2> SUFFICES ASSUME RegistryInv, CellsFit, LinesInv, ScrapesDriftByTheCounting, [Next]_vars
               PROVE  ScrapesDriftByTheCounting'
    OBVIOUS
  <2>1. ASSUME NEW r \in Runs, Count(r) PROVE page' = page
    BY <2>1 DEF Count, RecordRun, IncRead, IncWrite, ObserveSeries, ObserveCell, ObserveCount,
                Update, scraper
  <2>2. CASE \/ BeginScrape \/ ShowCount \/ ScrapeRaises \/ CopySeries \/ ShowCell
             \/ ShowSeriesCount \/ NextFamily \/ AnswerError
    <3>1. page' = page
      BY <2>2 DEF BeginScrape, ShowCount, ScrapeRaises, CopySeries, ShowCell, ShowSeriesCount,
                  NextFamily, AnswerError
    <3> QED BY <3>1, PageIsKept
  <2>3. CASE UNCHANGED vars
    BY <2>3, PageIsKept DEF vars
  <2> QED BY <2>1, <2>2, <2>3, PageIsKept, AnsweredPageDrifts DEF Next, Render
<1> QED BY <1>1, <1>2, AlwaysRegistryInv, AlwaysCellsFit, AlwaysLinesInv, PTL DEF Spec
===============================================================================
