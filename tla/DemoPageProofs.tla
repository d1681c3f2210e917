---------------------------- MODULE DemoPageProofs ----------------------------
(***************************************************************************)
(* Proofs about the demo page, for any number of tabs, ids and failures.   *)
(*                                                                         *)
(* First what `forget` leaves of a list; then where the ids are that a     *)
(* list, a lookup or a button may hold, whatever the tabs do; then, for a  *)
(* browser with one tab, that its list is what it was given.               *)
(***************************************************************************)
EXTENDS DemoPageProperties, FoldLemmas

-----------------------------------------------------------------------------
\* Lists without repetitions.

Elements(l) == { l[n] : n \in 1 .. Len(l) }

NothingTwice(l) == \A m, n \in 1 .. Len(l) : l[m] = l[n] => m = n

LEMMA AppendedElements ==
  ASSUME NEW S, NEW l \in Seq(S), NEW x \in S
  PROVE  /\ Append(l, x) \in Seq(S)
         /\ Elements(Append(l, x)) = Elements(l) \union {x}
         /\ NothingTwice(l) /\ x \notin Elements(l) => NothingTwice(Append(l, x))
<1> DEFINE a == Append(l, x)
<1>1. /\ a \in Seq(S) /\ Len(l) \in Nat /\ Len(a) = Len(l) + 1 /\ a[Len(l) + 1] = x
      /\ \A n \in 1 .. Len(l) : a[n] = l[n]
  OBVIOUS
<1> HIDE DEF a
<1>2. 1 .. Len(a) = 1 .. Len(l) \union {Len(l) + 1}
  BY <1>1
<1>3. Elements(a) = Elements(l) \union {x}
  BY <1>1, <1>2 DEF Elements
<1>4. ASSUME NothingTwice(l), x \notin Elements(l) PROVE NothingTwice(a)
  <2> SUFFICES ASSUME NEW m \in 1 .. Len(a), NEW n \in 1 .. Len(a), a[m] = a[n] PROVE m = n
    BY DEF NothingTwice
  <2>1. \A k \in 1 .. Len(l) : a[k] # x
    BY <1>1, <1>4 DEF Elements
  <2> QED BY <1>1, <1>2, <1>4, <2>1 DEF NothingTwice
<1> QED BY <1>1, <1>3, <1>4 DEF a

LEMMA NoElements == Elements(<<>>) = {} /\ NothingTwice(<<>>) /\ \A S : <<>> \in Seq(S)
  BY DEF Elements, NothingTwice

-----------------------------------------------------------------------------
\* `forget` filters the list: a fold from its left.

LEMMA GreatestOfPrefix == ASSUME NEW k \in Nat \ {0} PROVE Max(1 .. k) = k
<1>1. k \in 1 .. k /\ \A y \in 1 .. k : k >= y
  OBVIOUS
<1>2. \A x \in 1 .. k : (\A y \in 1 .. k : x >= y) => x = k
  BY <1>1
<1> QED BY <1>1, <1>2 DEF Max

LEMMA GreatestIsElement ==
  ASSUME NEW N \in Nat, NEW s \in SUBSET (1 .. N), s # {}
  PROVE  Max(s) \in s
<1> DEFINE T == { N - n : n \in s }
<1>0. \A n \in s : n \in Nat /\ N - n \in Nat
  OBVIOUS
<1>1. T \in SUBSET Nat /\ T # {} /\ \A n \in s : N - n \in T
  BY <1>0
<1> HIDE DEF T
<1>2. PICK least \in T : \A n \in T : least <= n
  BY <1>1, LeastElement
<1>3. PICK x \in s : least = N - x
  BY <1>2 DEF T
<1>4. ASSUME NEW y \in s PROVE x >= y
  <2>1. N - x <= N - y
    BY <1>1, <1>2, <1>3
  <2> QED BY <1>0, <2>1
<1> QED BY <1>3, <1>4 DEF Max

\* g[k] is what is left of the first k of the list.
Filters(g, l, i) ==
  /\ g[0] = <<>>
  /\ \A k \in 1 .. Len(l) : g[k] = IF l[k] = i THEN g[k - 1] ELSE Append(g[k - 1], l[k])
  /\ Without(l, i) = g[Len(l)]

LEMMA WithoutFilters ==
  ASSUME NEW S, NEW l \in Seq(S), NEW i
  PROVE  \E g : Filters(g, l, i)
<1> DEFINE N == Len(l)
           D == 1 .. N
           Step(h, s) == IF s = {} THEN <<>>
                         ELSE IF l[Max(s)] = i THEN h[s \ {Max(s)}]
                         ELSE Append(h[s \ {Max(s)}], l[Max(s)])
           Steps(h) == h = [s \in SUBSET D |-> Step(h, s)]
           iter == CHOOSE h : Steps(h)
<1>1. N \in Nat /\ D = DOMAIN l /\ IsFiniteSet(D) /\ \A n \in D : l[n] \in S
  BY FS_Interval
<1>2. \E h : Steps(h)
  <2> DEFINE c == [s \in SUBSET D |-> Max(s)]
             op == [p \in D \X Seq(S) |-> IF l[p[1]] = i THEN p[2] ELSE Append(p[2], l[p[1]])]
  <2>1. \A s \in SUBSET D : s # {} => Max(s) \in s
    BY <1>1, GreatestIsElement
  <2>2. \A s \in SUBSET D : c[s] = Max(s)
    OBVIOUS
  <2>3. op \in [D \X Seq(S) -> Seq(S)]
    BY <1>1
  <2>4. \A n \in D, q \in Seq(S) : op[<<n, q>>] = IF l[n] = i THEN q ELSE Append(q, l[n])
    OBVIOUS
  <2>5. IsChooser(c, D)
    BY <2>1, <2>2 DEF IsChooser
  <2>6. <<>> \in Seq(S)
    OBVIOUS
  <2> HIDE DEF c, op, D
  <2>7. PICK h \in [SUBSET D -> Seq(S)] : IsFold(h, D, <<>>, c, op)
    BY <1>1, <2>3, <2>5, <2>6, FoldExists
  <2>8. ASSUME NEW s \in SUBSET D PROVE h[s] = Step(h, s)
    <3>1. CASE s = {}
      BY <2>7, <3>1 DEF IsFold
    <3>2. CASE s # {}
      <4>1. Max(s) \in D /\ s \ {Max(s)} \in SUBSET D
        BY <2>1, <3>2
      <4>2. h[s \ {Max(s)}] \in Seq(S)
        BY <2>7, <4>1
      <4>3. h[s] = op[<<Max(s), h[s \ {Max(s)}]>>]
        BY <2>2, <2>7, <3>2 DEF IsFold
      <4> QED BY <2>4, <3>2, <4>1, <4>2, <4>3
    <3> QED BY <3>1, <3>2
  <2>9. h = [s \in SUBSET D |-> h[s]]
    BY <2>7
  <2> HIDE DEF Step
  <2>10. Steps(h)
    BY <2>8, <2>9
  <2> QED BY <2>10
<1>3. Steps(iter)
  <2> HIDE DEF Steps
  <2> QED BY <1>2
<1>4. Without(l, i) = iter[D]
  BY <1>1 DEF Without, FoldLeft, MapThenFoldSet
<1> HIDE DEF iter
<1>5. \A s \in SUBSET D : iter[s] = Step(iter, s)
  <2> HIDE DEF Step
  <2> QED BY <1>3
<1> DEFINE g == [k \in 0 .. N |-> iter[1 .. k]]
<1>6. g[0] = <<>>
  <2>1. 1 .. 0 = {} /\ {} \in SUBSET D /\ 0 \in 0 .. N
    BY <1>1
  <2> QED BY <1>5, <2>1
<1>7. ASSUME NEW k \in 1 .. N
      PROVE  g[k] = IF l[k] = i THEN g[k - 1] ELSE Append(g[k - 1], l[k])
  <2>1. /\ k \in Nat \ {0} /\ 1 .. k \in SUBSET D /\ 1 .. k # {} /\ (1 .. k) \ {k} = 1 .. k - 1
        /\ k \in 0 .. N /\ k - 1 \in 0 .. N
    BY <1>1
  <2>2. Max(1 .. k) = k
    BY <2>1, GreatestOfPrefix
  <2>3. iter[1 .. k] = IF l[k] = i THEN iter[1 .. k - 1] ELSE Append(iter[1 .. k - 1], l[k])
    BY <1>5, <2>1, <2>2
  <2> QED BY <2>1, <2>3
<1>8. Without(l, i) = g[N]
  BY <1>1, <1>4
<1> HIDE DEF g
<1> QED BY <1>6, <1>7, <1>8 DEF Filters

LEMMA WithoutLeavesTheRest ==
  ASSUME NEW S, NEW l \in Seq(S), NEW i
  PROVE  /\ Without(l, i) \in Seq(S)
         /\ Elements(Without(l, i)) = Elements(l) \ {i}
         /\ NothingTwice(l) => NothingTwice(Without(l, i))
<1>1. PICK g : Filters(g, l, i)
  BY WithoutFilters
<1> DEFINE Before(k) == { l[n] : n \in 1 .. k }
           Left(k) == /\ g[k] \in Seq(S)
                      /\ Elements(g[k]) = Before(k) \ {i}
                      /\ NothingTwice(l) => NothingTwice(g[k])
           Good == { k \in Nat : k <= Len(l) => Left(k) }
<1>2. Left(0)
  BY <1>1, NoElements DEF Filters
<1>3. ASSUME NEW k \in Nat, k + 1 <= Len(l), Left(k) PROVE Left(k + 1)
  <2>1. k + 1 \in 1 .. Len(l) /\ (k + 1) - 1 = k /\ l[k + 1] \in S
    BY <1>3
  <2>2. g[k + 1] = IF l[k + 1] = i THEN g[k] ELSE Append(g[k], l[k + 1])
    BY <1>1, <2>1 DEF Filters
  <2>3. Before(k + 1) = Before(k) \union {l[k + 1]}
    <3>1. 1 .. k + 1 = 1 .. k \union {k + 1}
      OBVIOUS
    <3> QED BY <3>1
  <2>4. NothingTwice(l) => l[k + 1] \notin Before(k)
    <3>1. \A n \in 1 .. k : n \in 1 .. Len(l) /\ n # k + 1
      BY <2>1
    <3> QED BY <2>1, <3>1 DEF NothingTwice
  <2> HIDE DEF Before
  <2>5. CASE l[k + 1] = i
    BY <1>3, <2>2, <2>3, <2>5
  <2>6. CASE l[k + 1] # i
    <3>1. g[k + 1] = Append(g[k], l[k + 1])
      BY <2>2, <2>6
    <3>2. /\ g[k + 1] \in Seq(S)
          /\ Elements(g[k + 1]) = Elements(g[k]) \union {l[k + 1]}
          /\ NothingTwice(g[k]) /\ l[k + 1] \notin Elements(g[k]) => NothingTwice(g[k + 1])
      BY <1>3, <2>1, <3>1, AppendedElements
    <3> QED BY <1>3, <2>3, <2>4, <2>6, <3>2
  <2> QED BY <2>5, <2>6
<1>4. Nat \subseteq Good
  <2> HIDE DEF Left
  <2>1. Len(l) \in Nat
    OBVIOUS
  <2>2. 0 \in Good /\ \A k \in Nat : k \in Good => k + 1 \in Good
    BY <1>2, <1>3, <2>1
  <2> HIDE DEF Good
  <2> QED BY <2>2, Induction
<1>5. Left(Len(l)) /\ Before(Len(l)) = Elements(l)
  <2>1. Len(l) \in Nat /\ Len(l) <= Len(l)
    OBVIOUS
  <2>2. Len(l) \in Good
    BY <1>4, <2>1
  <2> HIDE DEF Left
  <2>3. Left(Len(l))
    BY <2>1, <2>2
  <2> QED BY <2>3 DEF Elements
<1> HIDE DEF Before, Good
<1> QED BY <1>1, <1>5 DEF Filters

-----------------------------------------------------------------------------
\* Types, for any number of tabs.

\* A button that has an id to remember, a lookup that was answered, has one.
IdsFit ==
  /\ \A t \in Tabs, b \in Buttons : post[t][b].at = "created" => post[t][b].id \in Ids
  /\ \A t \in Tabs, n \in Turns : lookup[t][n].answer # None => lookup[t][n].id \in Ids

Posts == [at : {"idle", "asking", "created", "waiting"}, id : Ids \union {None},
          left : 0 .. Scenarios]
Reads == [at : {"none", "reading", "answered", "timer"}, attempt : 0 .. PollLimit,
          answer : Outcomes \union {None}]
Lookups == [id : Ids \union {None}, answer : Outcomes \union {None}]

ButtonsFit(p) ==
  /\ p \in [Tabs -> [Buttons -> Posts]]
  /\ \A t \in Tabs, b \in Buttons : p[t][b].at = "created" => p[t][b].id \in Ids

LookupsFit(l) ==
  /\ l \in [Tabs -> [Turns -> Lookups]]
  /\ \A t \in Tabs, n \in Turns : l[t][n].answer # None => l[t][n].id \in Ids

ReadsFit(c) == c \in [Tabs -> [Origins \X Ids -> Reads]]

ListsFit(h, s) == h \in [Tabs -> Seq(Ids)] /\ s \in Seq(Ids)

ShownFits(s) == s \in [Tabs -> [Ids -> Seen \union {None}]]

RestFits ==
  /\ status \in [Ids -> Seen \union {"unused", "gone"}]
  /\ page \in [Tabs -> {"loading", "ready", "broken"}]
  /\ given \in SUBSET Ids
  /\ failed \in SUBSET Ids
  /\ trouble \in 0 .. MaxTrouble

Parts == /\ ButtonsFit(post) /\ LookupsFit(lookup) /\ ReadsFit(chain)
         /\ ListsFit(held, stored) /\ ShownFits(shown) /\ RestFits

LEMMA PartsAreTypes == Parts <=> TypeOK /\ IdsFit
  BY DEF Parts, TypeOK, IdsFit, ButtonsFit, LookupsFit, ReadsFit, ListsFit, ShownFits, RestFits,
         Posts, Reads, Lookups

LEMMA InitFits == ASSUME Init PROVE Parts
<1> USE PageAssumption
<1>1. /\ Idle \in Posts /\ Idle.at # "created" /\ NoRead \in Reads
      /\ NoLookup \in Lookups /\ NoLookup.answer = None
  BY DEF Idle, NoRead, NoLookup, Posts, Reads, Lookups
<1>2. ButtonsFit(post)
  BY <1>1 DEF Init, ButtonsFit
<1>3. LookupsFit(lookup)
  BY <1>1 DEF Init, LookupsFit, NoLookups
<1>4. ReadsFit(chain)
  BY <1>1 DEF Init, ReadsFit, Quiet
<1>5. ListsFit(held, stored) /\ ShownFits(shown)
  BY DEF Init, ListsFit, ShownFits, Fresh
<1>6. RestFits
  BY DEF Init, RestFits, Seen
<1> QED BY <1>2, <1>3, <1>4, <1>5, <1>6 DEF Parts

\* What each part may be given.

LEMMA ListSaved ==
  ASSUME ListsFit(held, stored), NEW t \in Tabs, NEW list \in Seq(Ids), Saves(t, list)
  PROVE  /\ ListsFit(held', stored')
         /\ held' = [u \in Tabs |-> IF u = t THEN list ELSE held[u]] /\ stored' = list
  BY DEF ListsFit, Saves

LEMMA StatusShown ==
  ASSUME ShownFits(shown), NEW t \in Tabs, NEW i \in Ids, NEW s \in Seen \union {None},
         Shows(t, i, s)
  PROVE  ShownFits(shown')
  BY DEF ShownFits, Shows

LEMMA ReadFollows ==
  ASSUME ReadsFit(chain), NEW t \in Tabs, NEW c \in Origins, NEW i \in Ids, NEW read \in Reads,
         Follows(t, c, i, read)
  PROVE  ReadsFit(chain')
  BY DEF ReadsFit, Follows

LEMMA TroubleCounts == ASSUME RestFits, Trouble PROVE trouble' \in 0 .. MaxTrouble
  BY PageAssumption DEF RestFits, Trouble

LEMMA ButtonReleased ==
  ASSUME ButtonsFit(post), NEW t \in Tabs, NEW c \in Origins, NEW i \in Ids, NEW ok \in BOOLEAN,
         ReleasesButton(t, c, i, ok)
  PROVE  /\ ButtonsFit(post')
         /\ \A u \in Tabs, b \in Buttons :
              post'[u][b].at = "created" => post'[u][b] = post[u][b]
<1> DEFINE New(b) ==
             LET p == post[t][b] IN
             IF ~(c = "send" /\ chain[t][<<c, i>>].attempt = 0 /\ p.at = "waiting" /\ p.id = i) THEN p
             ELSE IF ok /\ p.left > 0 THEN [at |-> "asking", id |-> None, left |-> p.left - 1]
             ELSE Idle
<1>1. post' = [post EXCEPT ![t] = [b \in Buttons |-> New(b)]]
  BY DEF ReleasesButton
<1>2. ASSUME NEW b \in Buttons
      PROVE  New(b) \in Posts /\ (New(b).at = "created" => New(b) = post[t][b])
  <2>1. post[t][b] \in Posts /\ post[t][b].left \in 0 .. Scenarios
    BY DEF ButtonsFit, Posts
  <2>2. Idle \in Posts /\ Idle.at # "created"
    BY PageAssumption DEF Idle, Posts
  <2>3. ASSUME post[t][b].left > 0
        PROVE  [at |-> "asking", id |-> None, left |-> post[t][b].left - 1] \in Posts
    BY <2>1, <2>3, PageAssumption DEF Posts
  <2> QED BY <2>1, <2>2, <2>3
<1> HIDE DEF New
<1>3. /\ post' \in [Tabs -> [Buttons -> Posts]]
      /\ \A u \in Tabs, b \in Buttons : post'[u][b] = IF u = t THEN New(b) ELSE post[u][b]
  BY <1>1, <1>2 DEF ButtonsFit
<1> QED BY <1>2, <1>3 DEF ButtonsFit

\* One button changes.
ButtonBecomes(t, b, p) == post' = [post EXCEPT ![t][b] = p]

LEMMA ButtonChanged ==
  ASSUME ButtonsFit(post), NEW t \in Tabs, NEW b \in Buttons, NEW p \in Posts,
         p.at = "created" => p.id \in Ids,
         ButtonBecomes(t, b, p)
  PROVE  /\ ButtonsFit(post')
         /\ \A u \in Tabs, d \in Buttons :
              post'[u][d] = IF u = t /\ d = b THEN p ELSE post[u][d]
<1>1. /\ post' \in [Tabs -> [Buttons -> Posts]]
      /\ \A u \in Tabs, d \in Buttons :
           post'[u][d] = IF u = t /\ d = b THEN p ELSE post[u][d]
  BY DEF ButtonsFit, ButtonBecomes
<1> QED BY <1>1 DEF ButtonsFit

LEMMA ReadValues ==
  ASSUME ReadsFit(chain), NEW t \in Tabs, NEW c \in Origins, NEW i \in Ids
  PROVE  /\ chain[t][<<c, i>>] \in Reads
         /\ NoRead \in Reads
         /\ \A k \in 0 .. PollLimit : Reading(k) \in Reads /\ In(k) \in Reads
         /\ \A a \in Outcomes : [chain[t][<<c, i>>] EXCEPT !.at = "answered", !.answer = a] \in Reads
         /\ Again(chain[t][<<c, i>>], PollLimit) \in Reads
<1>1. chain[t][<<c, i>>] \in Reads
  BY DEF ReadsFit
<1>2. NoRead \in Reads /\ \A k \in 0 .. PollLimit : Reading(k) \in Reads /\ In(k) \in Reads
  BY PageAssumption DEF NoRead, Reading, In, Reads
<1>3. \A a \in Outcomes : [chain[t][<<c, i>>] EXCEPT !.at = "answered", !.answer = a] \in Reads
  BY <1>1 DEF Reads
<1>4. Again(chain[t][<<c, i>>], PollLimit) \in Reads
  <2> DEFINE r == chain[t][<<c, i>>]
  <2>1. r.attempt \in 0 .. PollLimit
    BY <1>1 DEF Reads
  <2>2. r.attempt < PollLimit => r.attempt + 1 \in 0 .. PollLimit
    BY <2>1, PageAssumption
  <2> HIDE DEF r
  <2>3. Again(r, PollLimit) \in Reads
    BY <1>2, <2>2 DEF Again
  <2> QED BY <2>3 DEF r
<1> QED BY <1>1, <1>2, <1>3, <1>4

LEMMA ReadIsSeen == ASSUME RestFits, NEW i \in Ids PROVE ReadOf(i) \in Outcomes
  BY DEF RestFits, ReadOf, Outcomes, Seen

-----------------------------------------------------------------------------
\* Every step keeps the types.

LEMMA ServerFits ==
  ASSUME Parts, NEW i \in Ids, Finish(i) \/ Wipe(i)
  PROVE  Parts'
<1>1. UNCHANGED <<stored, held, shown, post, chain, lookup, page, given, failed>>
  BY DEF Finish, Wipe, tabs
<1>2. trouble' \in 0 .. MaxTrouble
  BY TroubleCounts DEF Finish, Wipe, Parts, RestFits
<1>3. status' \in [Ids -> Seen \union {"unused", "gone"}]
  BY DEF Finish, Wipe, Parts, RestFits, Seen
<1> QED BY <1>1, <1>2, <1>3 DEF Parts, RestFits

LEMMA AnswerFits ==
  ASSUME Parts, NEW t \in Tabs, NEW c \in Origins, NEW i \in Ids, Answer(t, c, i)
  PROVE  Parts'
<1>1. PICK a \in {ReadOf(i), "failed"} :
        /\ chain' = [chain EXCEPT ![t][<<c, i>>].at = "answered", ![t][<<c, i>>].answer = a]
        /\ IF a = "failed" THEN Trouble ELSE UNCHANGED trouble
  BY DEF Answer
<1>2. a \in Outcomes
  BY ReadIsSeen DEF Parts, Outcomes
<1> DEFINE read == [chain[t][<<c, i>>] EXCEPT !.at = "answered", !.answer = a]
<1>3. read \in Reads
  BY <1>2, ReadValues DEF Parts
<1>4. chain' = [chain EXCEPT ![t][<<c, i>>] = read]
  BY <1>1 DEF Parts, ReadsFit
<1> HIDE DEF read
<1>5. ReadsFit(chain')
  BY <1>3, <1>4, ReadFollows DEF Parts, Follows
<1>6. trouble' \in 0 .. MaxTrouble
  BY <1>1, TroubleCounts DEF Parts, RestFits
<1>7. UNCHANGED <<status, stored, held, shown, post, lookup, page, given, failed>>
  BY DEF Answer
<1> QED BY <1>5, <1>6, <1>7 DEF Parts, RestFits

\* One lookup changes.
LookupBecomes(t, n, l) == lookup' = [lookup EXCEPT ![t][n] = l]

LEMMA LookupChanged ==
  ASSUME LookupsFit(lookup), NEW t \in Tabs, NEW n \in Turns, NEW l \in Lookups,
         l.answer # None => l.id \in Ids,
         LookupBecomes(t, n, l)
  PROVE  /\ LookupsFit(lookup')
         /\ \A u \in Tabs, m \in Turns :
              lookup'[u][m] = IF u = t /\ m = n THEN l ELSE lookup[u][m]
<1>1. /\ lookup' \in [Tabs -> [Turns -> Lookups]]
      /\ \A u \in Tabs, m \in Turns :
           lookup'[u][m] = IF u = t /\ m = n THEN l ELSE lookup[u][m]
  BY DEF LookupsFit, LookupBecomes
<1> QED BY <1>1 DEF LookupsFit

\* Lookups go on or end.
NoLookupBegins ==
  \A t \in Tabs, n \in Turns : lookup'[t][n].id \in {lookup[t][n].id, None}

LEMMA AnswerLookupFits ==
  ASSUME Parts, NEW t \in Tabs, NEW n \in Turns, AnswerLookup(t, n)
  PROVE  Parts' /\ NoLookupBegins
<1>1. PICK a \in {ReadOf(lookup[t][n].id), "failed"} :
        /\ lookup' = [lookup EXCEPT ![t][n].answer = a]
        /\ IF a = "failed" THEN Trouble ELSE UNCHANGED trouble
  BY DEF AnswerLookup
<1>2. lookup[t][n] \in Lookups /\ lookup[t][n].id \in Ids
  BY DEF AnswerLookup, Parts, LookupsFit, Lookups
<1>3. a \in Outcomes
  BY <1>2, ReadIsSeen DEF Parts, Outcomes
<1> DEFINE l == [lookup[t][n] EXCEPT !.answer = a]
<1>4. l \in Lookups /\ l.id = lookup[t][n].id
  BY <1>2, <1>3 DEF Lookups
<1>5. LookupBecomes(t, n, l)
  BY <1>1 DEF Parts, LookupsFit, LookupBecomes
<1> HIDE DEF l
<1>6. /\ LookupsFit(lookup')
      /\ \A u \in Tabs, m \in Turns :
           lookup'[u][m] = IF u = t /\ m = n THEN l ELSE lookup[u][m]
  BY <1>2, <1>4, <1>5, LookupChanged DEF Parts
<1>7. trouble' \in 0 .. MaxTrouble
  BY <1>1, TroubleCounts DEF Parts, RestFits
<1>8. UNCHANGED <<status, stored, held, shown, post, chain, page, given, failed>>
  BY DEF AnswerLookup
<1>9. NoLookupBegins
  BY <1>4, <1>6 DEF NoLookupBegins
<1> QED BY <1>6, <1>7, <1>8, <1>9 DEF Parts, RestFits

\* An id is given out, and the answer comes, or it does not.
Gives(t, b, i) ==
  /\ status[i] = "unused"
  /\ status' = [status EXCEPT ![i] = "processing"]
  /\ \/ post'[t][b].at = "created" /\ post'[t][b].id = i
     \/ post'[t][b].at # "created"
  /\ \A u \in Tabs, d \in Buttons : u # t \/ d # b => post'[u][d] = post[u][d]

LEMMA CreateTicketFits ==
  ASSUME Parts, NEW t \in Tabs, NEW b \in Buttons, CreateTicket(t, b)
  PROVE  Parts' /\ \E i \in Ids : Gives(t, b, i)
<1>1. PICK i \in Ids :
        /\ status[i] = "unused"
        /\ status' = [status EXCEPT ![i] = "processing"]
        /\ \/ /\ post' = [post EXCEPT ![t][b].at = "created", ![t][b].id = i]
              /\ UNCHANGED trouble
           \/ /\ post' = [post EXCEPT ![t][b] = Idle]
              /\ Trouble
  BY DEF CreateTicket
<1>2. PICK p \in Posts : /\ post' = [post EXCEPT ![t][b] = p]
                         /\ p.at = "created" => p.id = i
  <2>1. Idle \in Posts /\ Idle.at # "created"
    BY PageAssumption DEF Idle, Posts
  <2> DEFINE p == [post[t][b] EXCEPT !.at = "created", !.id = i]
  <2>2. p \in Posts /\ p.id = i
    <3>1. post[t][b] \in Posts /\ i \in Ids
      BY <1>1 DEF Parts, ButtonsFit
    <3> QED BY <3>1 DEF Posts
  <2>3. [post EXCEPT ![t][b].at = "created", ![t][b].id = i] = [post EXCEPT ![t][b] = p]
    BY DEF Parts, ButtonsFit
  <2> QED BY <1>1, <2>1, <2>2, <2>3
<1>3. /\ ButtonsFit(post')
      /\ \A u \in Tabs, d \in Buttons : post'[u][d] = IF u = t /\ d = b THEN p ELSE post[u][d]
  <2>1. ButtonsFit(post) /\ (p.at = "created" => p.id \in Ids)
    BY <1>1, <1>2 DEF Parts
  <2>2. post' = [post EXCEPT ![t][b] = p]
    BY <1>2
  <2>3. /\ post' \in [Tabs -> [Buttons -> Posts]]
        /\ \A u \in Tabs, d \in Buttons : post'[u][d] = IF u = t /\ d = b THEN p ELSE post[u][d]
    BY <2>1, <2>2 DEF ButtonsFit
  <2> QED BY <2>1, <2>3 DEF ButtonsFit
<1>4. trouble' \in 0 .. MaxTrouble
  BY <1>1, TroubleCounts DEF Parts, RestFits
<1>5. status' \in [Ids -> Seen \union {"unused", "gone"}]
  BY <1>1 DEF Parts, RestFits, Seen
<1>6. UNCHANGED <<stored, held, shown, chain, lookup, page, given, failed>>
  BY DEF CreateTicket
<1>7. Gives(t, b, i)
  BY <1>1, <1>2, <1>3 DEF Gives
<1> QED BY <1>3, <1>4, <1>5, <1>6, <1>7 DEF Parts, RestFits

LEMMA ButtonPressedFits ==
  ASSUME Parts, NEW t \in Tabs,
         (\E b \in Buttons : CreateFails(t, b)) \/ Submit(t) \/ Seed(t)
  PROVE  /\ Parts'
         /\ \A u \in Tabs, d \in Buttons : post'[u][d].at = "created" => post'[u][d] = post[u][d]
<1>1. PICK b \in Buttons, p \in Posts : p.at # "created" /\ post' = [post EXCEPT ![t][b] = p]
  <2>1. CASE \E b \in Buttons : CreateFails(t, b)
    <3>1. Idle \in Posts /\ Idle.at # "created"
      BY PageAssumption DEF Idle, Posts
    <3> QED BY <2>1, <3>1 DEF CreateFails
  <2>2. CASE Submit(t)
    <3> DEFINE p == [post[t]["submit"] EXCEPT !.at = "asking"]
    <3>1. "submit" \in Buttons
      BY DEF Buttons
    <3>2. p \in Posts /\ p.at # "created"
      BY <3>1 DEF Parts, ButtonsFit, Posts
    <3>3. post' = [post EXCEPT ![t]["submit"] = p]
      BY <2>2, <3>1 DEF Submit, Parts, ButtonsFit
    <3> QED BY <3>1, <3>2, <3>3
  <2>3. CASE Seed(t)
    <3> DEFINE p == [at |-> "asking", id |-> None, left |-> Scenarios - 1]
    <3>1. "seed" \in Buttons /\ p.at # "created"
      BY DEF Buttons
    <3>2. p \in Posts
      BY PageAssumption DEF Posts
    <3>3. post' = [post EXCEPT ![t]["seed"] = p]
      BY <2>3 DEF Seed
    <3> HIDE DEF p
    <3> QED BY <3>1, <3>2, <3>3
  <2> QED BY <2>1, <2>2, <2>3
<1>2. /\ ButtonsFit(post')
      /\ \A u \in Tabs, d \in Buttons : post'[u][d] = IF u = t /\ d = b THEN p ELSE post[u][d]
  <2>1. ButtonsFit(post) /\ post' = [post EXCEPT ![t][b] = p]
    BY <1>1 DEF Parts
  <2>2. /\ post' \in [Tabs -> [Buttons -> Posts]]
        /\ \A u \in Tabs, d \in Buttons : post'[u][d] = IF u = t /\ d = b THEN p ELSE post[u][d]
    BY <2>1 DEF ButtonsFit
  <2> QED BY <1>1, <2>1, <2>2 DEF ButtonsFit
<1>3. trouble' \in 0 .. MaxTrouble
  BY TroubleCounts DEF Parts, RestFits, CreateFails, Submit, Seed
<1>4. UNCHANGED <<status, stored, held, shown, chain, lookup, page, given, failed>>
  BY DEF CreateFails, Submit, Seed
<1> QED BY <1>1, <1>2, <1>3, <1>4 DEF Parts, RestFits

LEMMA PollFits ==
  ASSUME Parts, NEW t \in Tabs, NEW c \in Origins, NEW i \in Ids, Poll(t, c, i)
  PROVE  /\ Parts'
         /\ \A u \in Tabs, d \in Buttons : post'[u][d].at = "created" => post'[u][d] = post[u][d]
<1> DEFINE r == chain[t][<<c, i>>]
<1>1. /\ r.answer \in Seen /\ Shows(t, i, r.answer)
      /\ Follows(t, c, i, Again(r, PollLimit))
      /\ ReleasesButton(t, c, i, TRUE)
      /\ UNCHANGED <<status, lookup, page, given, failed, trouble, held, stored>>
  BY DEF Poll, Polls
<1>2. Again(r, PollLimit) \in Reads
  BY ReadValues DEF Parts
<1> HIDE DEF r
<1>3. ReadsFit(chain')
  BY <1>1, <1>2, ReadFollows DEF Parts
<1>4. ShownFits(shown')
  BY <1>1, StatusShown DEF Parts
<1>5. /\ ButtonsFit(post')
      /\ \A u \in Tabs, d \in Buttons : post'[u][d].at = "created" => post'[u][d] = post[u][d]
  BY <1>1, ButtonReleased DEF Parts
<1> QED BY <1>1, <1>3, <1>4, <1>5 DEF Parts, RestFits

LEMMA TimeoutFits ==
  ASSUME Parts, NEW t \in Tabs, NEW c \in Origins, NEW i \in Ids, Timeout(t, c, i)
  PROVE  Parts'
<1>1. chain[t][<<c, i>>].attempt \in 0 .. PollLimit
  BY DEF Parts, ReadsFit, Reads
<1>2. Reading(chain[t][<<c, i>>].attempt) \in Reads
  BY <1>1, ReadValues DEF Parts
<1>3. ReadsFit(chain')
  BY <1>2, ReadFollows DEF Parts, Timeout
<1> QED BY <1>3 DEF Timeout, Parts, RestFits

LEMMA PollRaisesFits ==
  ASSUME Parts, NEW t \in Tabs, NEW c \in Origins, NEW i \in Ids, PollRaises(t, c, i)
  PROVE  /\ Parts'
         /\ \A u \in Tabs, d \in Buttons : post'[u][d].at = "created" => post'[u][d] = post[u][d]
<1>1. /\ (Forget(t, i) /\ Shows(t, i, None)) \/ UNCHANGED <<held, stored, shown>>
      /\ Follows(t, c, i, NoRead)
      /\ ReleasesButton(t, c, i, FALSE)
      /\ failed' = failed \union {i}
      /\ UNCHANGED <<status, lookup, page, given, trouble>>
  BY DEF PollRaises
<1>2. ReadsFit(chain')
  BY <1>1, ReadValues, ReadFollows DEF Parts
<1>3. /\ ButtonsFit(post')
      /\ \A u \in Tabs, d \in Buttons : post'[u][d].at = "created" => post'[u][d] = post[u][d]
  BY <1>1, ButtonReleased DEF Parts
<1>4. ListsFit(held', stored') /\ ShownFits(shown')
  <2>1. CASE Forget(t, i) /\ Shows(t, i, None)
    <3>1. Without(held[t], i) \in Seq(Ids)
      BY WithoutLeavesTheRest DEF Parts, ListsFit
    <3>2. ListsFit(held', stored')
      BY <2>1, <3>1, ListSaved DEF Forget, Parts
    <3> QED BY <2>1, <3>2, StatusShown DEF Parts
  <2>2. CASE UNCHANGED <<held, stored, shown>>
    BY <2>2 DEF Parts
  <2> QED BY <1>1, <2>1, <2>2
<1> QED BY <1>1, <1>2, <1>3, <1>4 DEF Parts, RestFits

LEMMA SendFits ==
  ASSUME Parts, NEW t \in Tabs, NEW b \in Buttons, Send(t, b)
  PROVE  /\ Parts'
         /\ post[t][b].id \in Ids
         /\ \A u \in Tabs, d \in Buttons :
              post'[u][d].at = "created" => post'[u][d] = post[u][d] /\ ~(u = t /\ d = b)
<1> DEFINE i == post[t][b].id
           p == [post[t][b] EXCEPT !.at = "waiting"]
<1>0. i \in Ids /\ held[t] \in Seq(Ids) /\ post \in [Tabs -> [Buttons -> Posts]]
  BY DEF Send, Parts, ButtonsFit, ListsFit
<1>1. /\ i \in Ids /\ held[t] \in Seq(Ids)
      /\ p \in Posts /\ p.at # "created"
      /\ ButtonBecomes(t, b, p)
  <2>1. post[t][b] \in Posts
    BY <1>0
  <2>2. p \in Posts /\ p.at # "created"
    BY <2>1 DEF Posts
  <2>3. ButtonBecomes(t, b, p)
    BY <1>0 DEF Send, ButtonBecomes
  <2> HIDE DEF p
  <2> QED BY <1>0, <2>2, <2>3
<1>2. /\ Remember(t, i) /\ Shows(t, i, "processing") /\ Follows(t, "send", i, Reading(0))
      /\ UNCHANGED <<status, lookup, page, failed, trouble>>
  BY DEF Send
<1> HIDE DEF i, p
<1>3. "send" \in Origins /\ 0 \in 0 .. PollLimit /\ "processing" \in Seen
  BY PageAssumption DEF Origins, Seen
<1>4. /\ ButtonsFit(post')
      /\ \A u \in Tabs, d \in Buttons : post'[u][d] = IF u = t /\ d = b THEN p ELSE post[u][d]
  BY <1>1, ButtonChanged DEF Parts
<1>5. Append(held[t], i) \in Seq(Ids)
  BY <1>1, AppendedElements
<1>6. ListsFit(held', stored') /\ given' \in SUBSET Ids
  BY <1>1, <1>2, <1>5, ListSaved DEF Remember, Parts, RestFits
<1>7. ShownFits(shown')
  BY <1>1, <1>2, <1>3, StatusShown DEF Parts
<1>8. ReadsFit(chain')
  BY <1>1, <1>2, <1>3, ReadValues, ReadFollows DEF Parts
<1> QED BY <1>1, <1>2, <1>4, <1>6, <1>7, <1>8 DEF Parts, RestFits, i

LEMMA LookupEnds ==
  ASSUME LookupsFit(lookup), NEW t \in Tabs, NEW n \in Turns,
         lookup' = [lookup EXCEPT ![t][n] = NoLookup]
  PROVE  LookupsFit(lookup') /\ NoLookupBegins
<1>1. NoLookup \in Lookups /\ NoLookup.answer = None /\ NoLookup.id = None
  BY DEF NoLookup, Lookups
<1>2. /\ lookup' \in [Tabs -> [Turns -> Lookups]]
      /\ \A u \in Tabs, m \in Turns :
           lookup'[u][m] = IF u = t /\ m = n THEN NoLookup ELSE lookup[u][m]
  BY <1>1 DEF LookupsFit
<1> QED BY <1>1, <1>2 DEF LookupsFit, NoLookupBegins

LEMMA LookupFits ==
  ASSUME Parts, NEW t \in Tabs, NEW i \in Ids, Lookup(t, i)
  PROVE  Parts' /\ \A u \in Tabs, n \in Turns : lookup'[u][n].id \in {lookup[u][n].id, i}
<1> DEFINE k == trouble'
<1>1. k \in Turns /\ lookup[t][k] \in Lookups /\ (lookup[t][k].answer # None => lookup[t][k].id \in Ids)
  <2>1. k \in Turns
    BY PageAssumption DEF Lookup, Trouble, Turns, Parts, RestFits
  <2> HIDE DEF k
  <2> QED BY <2>1 DEF Parts, LookupsFit
<1> DEFINE l == [lookup[t][k] EXCEPT !.id = i]
<1>2. LookupBecomes(t, k, l)
  BY <1>1 DEF Lookup, Parts, LookupsFit, LookupBecomes
<1>3. trouble' \in 0 .. MaxTrouble
  BY TroubleCounts DEF Parts, Lookup
<1> HIDE DEF k
<1>4. l \in Lookups /\ l.id = i
  BY <1>1 DEF Lookups
<1> HIDE DEF l
<1>5. /\ LookupsFit(lookup')
      /\ \A u \in Tabs, m \in Turns :
           lookup'[u][m] = IF u = t /\ m = k THEN l ELSE lookup[u][m]
  BY <1>1, <1>2, <1>4, LookupChanged DEF Parts
<1> QED BY <1>3, <1>4, <1>5 DEF Lookup, Parts, RestFits

LEMMA OpenFits ==
  ASSUME Parts, NEW t \in Tabs, NEW n \in Turns, Open(t, n)
  PROVE  Parts' /\ lookup[t][n].id \in Ids /\ NoLookupBegins
<1> DEFINE i == lookup[t][n].id
           a == lookup[t][n].answer
<1>1. /\ a \in Seen /\ Shows(t, i, a)
      /\ UNCHANGED <<held, stored, given>> \/ Remember(t, i)
      /\ lookup' = [lookup EXCEPT ![t][n] = NoLookup]
      /\ UNCHANGED <<status, post, chain, page, failed, trouble>>
  BY DEF Open
<1>2. i \in Ids
  BY <1>1, PageAssumption DEF Parts, LookupsFit, Seen
<1> HIDE DEF i, a
<1>3. ShownFits(shown')
  BY <1>1, <1>2, StatusShown DEF Parts
<1>4. ListsFit(held', stored') /\ given' \in SUBSET Ids
  <2>1. CASE UNCHANGED <<held, stored, given>>
    BY <2>1 DEF Parts, RestFits
  <2>2. CASE Remember(t, i)
    <3>1. Append(held[t], i) \in Seq(Ids)
      BY <1>2, AppendedElements DEF Parts, ListsFit
    <3> QED BY <1>2, <2>2, <3>1, ListSaved DEF Remember, Parts, RestFits
  <2> QED BY <1>1, <2>1, <2>2
<1>5. LookupsFit(lookup') /\ NoLookupBegins
  BY <1>1, LookupEnds DEF Parts
<1> QED BY <1>1, <1>2, <1>3, <1>4, <1>5 DEF Parts, RestFits, i

LEMMA OpenRaisesFits ==
  ASSUME Parts, NEW t \in Tabs, NEW n \in Turns, OpenRaises(t, n)
  PROVE  Parts' /\ NoLookupBegins
<1>1. LookupsFit(lookup') /\ NoLookupBegins
  BY LookupEnds DEF Parts, OpenRaises
<1> QED BY <1>1 DEF OpenRaises, Parts, RestFits

LEMMA ForgetAllFits == ASSUME Parts, NEW t \in Tabs, ForgetAll(t) PROVE Parts'
<1>1. ListsFit(held', stored')
  BY NoElements, ListSaved DEF ForgetAll, Parts
<1>2. ShownFits(shown')
  BY DEF ForgetAll, Parts, ShownFits, Fresh
<1>3. trouble' \in 0 .. MaxTrouble
  BY TroubleCounts DEF Parts, ForgetAll
<1> QED BY <1>1, <1>2, <1>3 DEF ForgetAll, Parts, RestFits

LEMMA LoadFits == ASSUME Parts, NEW t \in Tabs, Load(t) \/ LoadFails(t) PROVE Parts'
<1>1. /\ UNCHANGED <<status, stored, held, shown, post, lookup, given, failed>>
      /\ page' \in [Tabs -> {"loading", "ready", "broken"}]
      /\ trouble' \in 0 .. MaxTrouble
  BY TroubleCounts DEF Load, LoadFails, Parts, RestFits
<1>2. ReadsFit(chain')
  <2>1. CASE Load(t)
    <3> DEFINE new == [ci \in Origins \X Ids |->
                         IF ci[1] = "start" /\ Holds(t, ci[2]) THEN Reading(0) ELSE chain[t][ci]]
    <3>1. chain' = [chain EXCEPT ![t] = new]
      BY <2>1 DEF Load
    <3>2. Reading(0) \in Reads
      BY PageAssumption DEF Reading, Reads
    <3>3. new \in [Origins \X Ids -> Reads]
      BY <3>2 DEF Parts, ReadsFit
    <3> HIDE DEF new
    <3> QED BY <3>1, <3>3 DEF Parts, ReadsFit
  <2>2. CASE LoadFails(t)
    BY <2>2 DEF LoadFails, Parts
  <2> QED BY <2>1, <2>2
<1> QED BY <1>1, <1>2 DEF Parts, RestFits

LEMMA ReloadFits ==
  ASSUME Parts, NEW t \in Tabs, Reload(t)
  PROVE  /\ Parts'
         /\ NoLookupBegins
         /\ \A u \in Tabs, d \in Buttons : post'[u][d].at = "created" => post'[u][d] = post[u][d]
<1>1. ListsFit(held', stored')
  BY DEF Reload, Parts, ListsFit
<1>2. ShownFits(shown')
  BY DEF Reload, Parts, ShownFits, Fresh
<1>3. trouble' \in 0 .. MaxTrouble
  BY TroubleCounts DEF Parts, Reload
<1>4. LookupsFit(lookup') /\ NoLookupBegins
  <2>1. NoLookup \in Lookups /\ NoLookup.answer = None /\ NoLookup.id = None
    BY DEF NoLookup, Lookups
  <2>2. /\ lookup' \in [Tabs -> [Turns -> Lookups]]
        /\ \A u \in Tabs, n \in Turns : lookup'[u][n] = IF u = t THEN NoLookup ELSE lookup[u][n]
    BY <2>1 DEF Reload, Parts, LookupsFit, NoLookups
  <2> QED BY <2>1, <2>2 DEF Parts, LookupsFit, NoLookupBegins
<1>5. NoRead \in Reads
  BY PageAssumption DEF NoRead, Reads
<1>6. ReadsFit(chain')
  <2>1. Quiet \in [Origins \X Ids -> Reads]
    BY <1>5 DEF Quiet
  <2> QED BY <2>1 DEF Reload, Parts, ReadsFit
<1>7. /\ ButtonsFit(post')
      /\ \A u \in Tabs, d \in Buttons : post'[u][d].at = "created" => post'[u][d] = post[u][d]
  <2>1. Idle \in Posts /\ Idle.at # "created"
    BY PageAssumption DEF Idle, Posts
  <2>2. \A u \in Tabs, d \in Buttons : post'[u][d] = IF u = t THEN Idle ELSE post[u][d]
    BY DEF Reload, Parts, ButtonsFit
  <2>3. post' \in [Tabs -> [Buttons -> Posts]]
    BY <2>1 DEF Reload, Parts, ButtonsFit
  <2> QED BY <2>1, <2>2, <2>3 DEF Parts, ButtonsFit
<1>8. page' \in [Tabs -> {"loading", "ready", "broken"}]
  BY DEF Reload, Parts, RestFits
<1> QED BY <1>1, <1>2, <1>3, <1>4, <1>6, <1>7, <1>8 DEF Reload, Parts, RestFits

LEMMA NextFits == ASSUME Parts, [Next]_vars PROVE Parts'
<1>1. CASE \E i \in Ids : Finish(i) \/ Wipe(i)
  BY <1>1, ServerFits
<1>2. CASE \E t \in Tabs : Answers(t)
  BY <1>2, AnswerFits, AnswerLookupFits, CreateTicketFits, ButtonPressedFits DEF Answers
<1>3. CASE \E t \in Tabs : Resumes(t)
  BY <1>3, PollFits, TimeoutFits, PollRaisesFits, SendFits, OpenFits, OpenRaisesFits,
     LoadFits DEF Resumes
<1>4. CASE \E t \in Tabs : User(t)
  BY <1>4, ButtonPressedFits, ForgetAllFits, ReloadFits, LookupFits DEF User
<1>5. CASE UNCHANGED vars
  BY <1>5 DEF vars, tabs, Parts, RestFits
<1> QED BY <1>1, <1>2, <1>3, <1>4, <1>5 DEF Next

LEMMA AlwaysFits == Spec => []Parts
BY InitFits, NextFits, PTL DEF Spec

\* Whatever the tabs do beside each other.
THEOREM TypeCorrect == Spec => []TypeOK
<1>1. Parts => TypeOK
  BY PartsAreTypes
<1> QED BY <1>1, AlwaysFits, PTL

-----------------------------------------------------------------------------
\* Where an id may be.  One that `send` is about to remember is new: it is in no list and in
\* no lookup, for nobody but that `send` has been told of it.

Lists(i) == i \in Elements(stored) \/ \E t \in Tabs : i \in Elements(held[t])

LooksUp(i) == \E t \in Tabs, n \in Turns : lookup[t][n].id = i

Remembers(t, b, i) == post[t][b].at = "created" /\ post[t][b].id = i

NoneTwice == NothingTwice(stored) /\ \A t \in Tabs : NothingTwice(held[t])

IdsInv ==
  /\ NoneTwice
  /\ \A i \in Ids : Lists(i) \/ LooksUp(i) => status[i] # "unused"
  /\ \A i \in Ids, t \in Tabs, b \in Buttons : Remembers(t, b, i) =>
       /\ status[i] # "unused" /\ ~Lists(i) /\ ~LooksUp(i)
       /\ \A u \in Tabs, d \in Buttons : Remembers(u, d, i) => u = t /\ d = b

-----------------------------------------------------------------------------
\* What a step may do with ids: seven moves, whatever else it does.

\* No ticket is unmade, no lookup begins, and no button gets an id.
Calm ==
  /\ \A i \in Ids : status'[i] = "unused" => status[i] = "unused"
  /\ NoLookupBegins
  /\ \A t \in Tabs, b \in Buttons : post'[t][b].at = "created" => post'[t][b] = post[t][b]

StaysPut == UNCHANGED <<held, stored, given>> /\ failed \subseteq failed'

GivesOut(t, b, i) == StaysPut /\ Gives(t, b, i) /\ UNCHANGED lookup

AsksFor(i) ==
  /\ StaysPut /\ Known(i) /\ UNCHANGED <<status, post>>
  /\ \A t \in Tabs, n \in Turns : lookup'[t][n].id \in {lookup[t][n].id, i}

Adds(t, i) ==
  /\ Remember(t, i) /\ UNCHANGED failed /\ Calm
  /\ \/ LooksUp(i) /\ ~Holds(t, i)
     \/ \E b \in Buttons : Remembers(t, b, i) /\ post'[t][b].at # "created"

Drops(t, i) == Forget(t, i) /\ UNCHANGED given /\ failed' = failed \union {i} /\ Calm

DropsAll(t) == Saves(t, <<>>) /\ given' = {} /\ UNCHANGED failed /\ Calm

ReadsAgain(t) == held' = [held EXCEPT ![t] = stored] /\ UNCHANGED <<stored, given, failed>> /\ Calm

Moves ==
  \/ StaysPut /\ Calm
  \/ \E t \in Tabs, b \in Buttons, i \in Ids : GivesOut(t, b, i)
  \/ \E i \in Ids : AsksFor(i)
  \/ \E t \in Tabs, i \in Ids : Adds(t, i) \/ Drops(t, i)
  \/ \E t \in Tabs : DropsAll(t) \/ ReadsAgain(t)

LEMMA ServerMoves == ASSUME Parts, NEW i \in Ids, Finish(i) \/ Wipe(i) PROVE Moves
<1>1. UNCHANGED <<held, stored, given, failed, lookup, post>>
  BY DEF Finish, Wipe, tabs
<1>2. \A j \in Ids : status'[j] = "unused" => status[j] = "unused"
  BY DEF Finish, Wipe, Parts, RestFits
<1> QED BY <1>1, <1>2 DEF Moves, StaysPut, Calm, NoLookupBegins

LEMMA AnswersMove == ASSUME Parts, NEW t \in Tabs, Answers(t) PROVE Moves
<1>1. CASE \E c \in Origins, i \in Ids : Answer(t, c, i)
  BY <1>1 DEF Answer, Moves, StaysPut, Calm, NoLookupBegins
<1>2. ASSUME NEW n \in Turns, AnswerLookup(t, n) PROVE Moves
  <2>1. NoLookupBegins
    BY <1>2, AnswerLookupFits
  <2> QED BY <1>2, <2>1 DEF AnswerLookup, Moves, StaysPut, Calm
<1>3. ASSUME NEW b \in Buttons, CreateTicket(t, b) PROVE Moves
  <2>1. PICK i \in Ids : Gives(t, b, i)
    BY <1>3, CreateTicketFits
  <2>2. GivesOut(t, b, i)
    BY <1>3, <2>1 DEF GivesOut, StaysPut, CreateTicket
  <2> QED BY <2>2 DEF Moves
<1>4. CASE \E b \in Buttons : CreateFails(t, b)
  <2>1. \A u \in Tabs, d \in Buttons : post'[u][d].at = "created" => post'[u][d] = post[u][d]
    BY <1>4, ButtonPressedFits
  <2> QED BY <1>4, <2>1 DEF CreateFails, Moves, StaysPut, Calm, NoLookupBegins
<1> QED BY <1>1, <1>2, <1>3, <1>4 DEF Answers

LEMMA PollRaisesMoves ==
  ASSUME Parts, NEW t \in Tabs, NEW c \in Origins, NEW i \in Ids, PollRaises(t, c, i)
  PROVE  Moves
<1>1. \A u \in Tabs, d \in Buttons : post'[u][d].at = "created" => post'[u][d] = post[u][d]
  BY PollRaisesFits
<1>2. UNCHANGED <<status, lookup, given>> /\ failed' = failed \union {i}
  BY DEF PollRaises
<1>3. Calm
  BY <1>1, <1>2 DEF Calm, NoLookupBegins
<1>4. Forget(t, i) \/ UNCHANGED <<held, stored>>
  BY DEF PollRaises
<1> QED BY <1>2, <1>3, <1>4 DEF Moves, Drops, StaysPut

LEMMA SendMoves == ASSUME Parts, NEW t \in Tabs, NEW b \in Buttons, Send(t, b) PROVE Moves
<1> DEFINE i == post[t][b].id
<1>1. /\ i \in Ids
      /\ \A u \in Tabs, d \in Buttons :
           post'[u][d].at = "created" => post'[u][d] = post[u][d] /\ ~(u = t /\ d = b)
  BY SendFits
<1>2. Remembers(t, b, i) /\ Remember(t, i) /\ UNCHANGED <<status, lookup, failed>>
  BY DEF Send, Remembers
<1> HIDE DEF i
<1>3. Calm /\ post'[t][b].at # "created"
  BY <1>1, <1>2 DEF Calm, NoLookupBegins
<1>4. Adds(t, i)
  BY <1>2, <1>3 DEF Adds
<1> QED BY <1>1, <1>4 DEF Moves

LEMMA OpenMoves == ASSUME Parts, NEW t \in Tabs, NEW n \in Turns, Open(t, n) PROVE Moves
<1> DEFINE i == lookup[t][n].id
<1>1. i \in Ids /\ NoLookupBegins
  BY OpenFits
<1>2. /\ UNCHANGED <<status, post, failed>>
      /\ UNCHANGED <<held, stored, given>> \/ (Remember(t, i) /\ ~Holds(t, i))
  BY DEF Open
<1>3. LooksUp(i)
  BY DEF LooksUp
<1> HIDE DEF i
<1>4. Calm
  BY <1>1, <1>2 DEF Calm
<1>5. Adds(t, i) \/ StaysPut
  BY <1>2, <1>3, <1>4 DEF Adds, StaysPut
<1> QED BY <1>1, <1>4, <1>5 DEF Moves

LEMMA ResumesMove == ASSUME Parts, NEW t \in Tabs, Resumes(t) PROVE Moves
<1>1. ASSUME NEW c \in Origins, NEW i \in Ids, Poll(t, c, i) PROVE Moves
  <2>1. \A u \in Tabs, d \in Buttons : post'[u][d].at = "created" => post'[u][d] = post[u][d]
    BY <1>1, PollFits
  <2> QED BY <1>1, <2>1 DEF Poll, Polls, Moves, StaysPut, Calm, NoLookupBegins
<1>2. CASE \E c \in Origins, i \in Ids : Timeout(t, c, i)
  BY <1>2 DEF Timeout, Moves, StaysPut, Calm, NoLookupBegins
<1>3. ASSUME NEW n \in Turns, OpenRaises(t, n) PROVE Moves
  <2>1. NoLookupBegins
    BY <1>3, OpenRaisesFits
  <2> QED BY <1>3, <2>1 DEF OpenRaises, Moves, StaysPut, Calm
<1>4. CASE Load(t) \/ LoadFails(t)
  BY <1>4 DEF Load, LoadFails, Moves, StaysPut, Calm, NoLookupBegins
<1> QED BY <1>1, <1>2, <1>3, <1>4, PollRaisesMoves, SendMoves, OpenMoves DEF Resumes

LEMMA UserMoves == ASSUME Parts, NEW t \in Tabs, User(t) PROVE Moves
<1>1. CASE Submit(t) \/ Seed(t)
  <2>1. \A u \in Tabs, d \in Buttons : post'[u][d].at = "created" => post'[u][d] = post[u][d]
    BY <1>1, ButtonPressedFits
  <2> QED BY <1>1, <2>1 DEF Submit, Seed, Moves, StaysPut, Calm, NoLookupBegins
<1>2. CASE ForgetAll(t)
  BY <1>2 DEF ForgetAll, Moves, DropsAll, Calm, NoLookupBegins
<1>3. CASE Reload(t)
  <2>1. /\ NoLookupBegins
        /\ \A u \in Tabs, d \in Buttons : post'[u][d].at = "created" => post'[u][d] = post[u][d]
    BY <1>3, ReloadFits
  <2>2. ReadsAgain(t)
    BY <1>3, <2>1 DEF Reload, ReadsAgain, Calm
  <2> QED BY <2>2 DEF Moves
<1>4. ASSUME NEW i \in Ids, Lookup(t, i) PROVE Moves
  <2>1. \A u \in Tabs, n \in Turns : lookup'[u][n].id \in {lookup[u][n].id, i}
    BY <1>4, LookupFits
  <2>2. AsksFor(i)
    BY <1>4, <2>1 DEF Lookup, AsksFor, StaysPut
  <2> QED BY <2>2 DEF Moves
<1> QED BY <1>1, <1>2, <1>3, <1>4 DEF User

LEMMA StepsAreMoves == ASSUME Parts, [Next]_vars PROVE Moves
<1>1. CASE UNCHANGED vars
  BY <1>1 DEF vars, tabs, Moves, StaysPut, Calm, NoLookupBegins
<1> QED BY <1>1, ServerMoves, AnswersMove, ResumesMove, UserMoves DEF Next

-----------------------------------------------------------------------------
\* The moves keep ids where they may be, however many tabs move.

\* The step brings no id anywhere it was not.
Spreads ==
  /\ \A i \in Ids : status'[i] = "unused" => status[i] = "unused"
  /\ NoneTwice => NoneTwice'
  /\ \A i \in Ids : Lists(i)' => Lists(i)
  /\ \A i \in Ids : LooksUp(i)' => LooksUp(i)
  /\ \A i \in Ids, t \in Tabs, b \in Buttons : Remembers(t, b, i)' => Remembers(t, b, i)

LEMMA SpreadingKeepsIds == ASSUME IdsInv, Spreads PROVE IdsInv'
<1>1. NoneTwice'
  BY DEF IdsInv, Spreads
<1>2. ASSUME NEW i \in Ids, (Lists(i) \/ LooksUp(i))' PROVE status'[i] # "unused"
  BY <1>2 DEF IdsInv, Spreads
<1>3. ASSUME NEW i \in Ids, NEW t \in Tabs, NEW b \in Buttons, Remembers(t, b, i)'
      PROVE  /\ (status[i] # "unused" /\ ~Lists(i) /\ ~LooksUp(i))'
             /\ \A u \in Tabs, d \in Buttons : Remembers(u, d, i)' => u = t /\ d = b
  BY <1>3 DEF IdsInv, Spreads
<1> QED BY <1>1, <1>2, <1>3 DEF IdsInv

LEMMA CalmSpreadsOnlyLists ==
  ASSUME Calm
  PROVE  /\ \A i \in Ids : status'[i] = "unused" => status[i] = "unused"
         /\ \A i \in Ids : LooksUp(i)' => LooksUp(i)
         /\ \A i \in Ids, t \in Tabs, b \in Buttons : Remembers(t, b, i)' => Remembers(t, b, i)
  BY PageAssumption DEF Calm, NoLookupBegins, LooksUp, Remembers

\* One list is written over with one that has no more in it than some list had.
LEMMA ShorterListSpreads ==
  ASSUME Parts, NEW t \in Tabs, NEW list \in Seq(Ids),
         \A i \in Ids : i \in Elements(list) => Lists(i),
         NoneTwice => NothingTwice(list),
         held' = [held EXCEPT ![t] = list], stored' = list \/ stored' = stored,
         Calm
  PROVE  Spreads
<1>1. \A u \in Tabs : held'[u] = IF u = t THEN list ELSE held[u]
  BY DEF Parts, ListsFit
<1>2. NoneTwice => NoneTwice'
  BY <1>1 DEF NoneTwice
<1>3. \A i \in Ids : Lists(i)' => Lists(i)
  BY <1>1 DEF Lists
<1> QED BY <1>2, <1>3, CalmSpreadsOnlyLists DEF Spreads

LEMMA GivingOutKeepsIds ==
  ASSUME Parts, IdsInv, NEW t \in Tabs, NEW b \in Buttons, NEW i \in Ids, GivesOut(t, b, i)
  PROVE  IdsInv'
<1>1. /\ UNCHANGED <<held, stored, lookup>>
      /\ status[i] = "unused"
      /\ \A j \in Ids : status'[j] = IF j = i THEN "processing" ELSE status[j]
  BY DEF GivesOut, StaysPut, Gives, Parts, RestFits
<1>2. ~Lists(i) /\ ~LooksUp(i) /\ \A u \in Tabs, d \in Buttons : ~Remembers(u, d, i)
  BY <1>1 DEF IdsInv
<1>3. \A j \in Ids, u \in Tabs, d \in Buttons :
        Remembers(u, d, j)' => IF u = t /\ d = b THEN j = i ELSE Remembers(u, d, j)
  BY DEF GivesOut, Gives, Remembers
<1>4. NoneTwice'
  BY <1>1 DEF IdsInv, NoneTwice
<1>5. \A j \in Ids : (Lists(j)' <=> Lists(j)) /\ (LooksUp(j)' <=> LooksUp(j))
  BY <1>1 DEF Lists, LooksUp
<1>6. \A j \in Ids : (Lists(j) \/ LooksUp(j))' => status'[j] # "unused"
  BY <1>1, <1>5 DEF IdsInv
<1>7. ASSUME NEW j \in Ids, NEW u \in Tabs, NEW d \in Buttons, Remembers(u, d, j)'
      PROVE  /\ (status[j] # "unused" /\ ~Lists(j) /\ ~LooksUp(j))'
             /\ \A v \in Tabs, e \in Buttons : Remembers(v, e, j)' => v = u /\ e = d
  <2>1. CASE j = i
    BY <1>1, <1>2, <1>3, <1>5, <1>7, <2>1
  <2>2. CASE j # i
    BY <1>1, <1>3, <1>5, <1>7, <2>2 DEF IdsInv
  <2> QED BY <2>1, <2>2
<1> QED BY <1>4, <1>6, <1>7 DEF IdsInv

LEMMA AskingKeepsIds == ASSUME IdsInv, NEW i \in Ids, AsksFor(i) PROVE IdsInv'
<1>1. /\ UNCHANGED <<held, stored, status, post>>
      /\ status[i] # "unused" /\ \A t \in Tabs, b \in Buttons : ~Remembers(t, b, i)
  BY DEF AsksFor, StaysPut, Known, Remembers
<1>2. \A j \in Ids : LooksUp(j)' => LooksUp(j) \/ j = i
  BY DEF AsksFor, LooksUp
<1>3. /\ NoneTwice' <=> NoneTwice
      /\ \A j \in Ids : Lists(j)' <=> Lists(j)
      /\ \A j \in Ids, t \in Tabs, b \in Buttons : Remembers(t, b, j)' <=> Remembers(t, b, j)
  BY <1>1 DEF NoneTwice, Lists, Remembers
<1>4. \A j \in Ids : (Lists(j) \/ LooksUp(j))' => status'[j] # "unused"
  BY <1>1, <1>2, <1>3 DEF IdsInv
<1>5. ASSUME NEW j \in Ids, NEW u \in Tabs, NEW d \in Buttons, Remembers(u, d, j)'
      PROVE  /\ (status[j] # "unused" /\ ~Lists(j) /\ ~LooksUp(j))'
             /\ \A v \in Tabs, e \in Buttons : Remembers(v, e, j)' => v = u /\ e = d
  BY <1>1, <1>2, <1>3, <1>5 DEF IdsInv
<1> QED BY <1>3, <1>4, <1>5 DEF IdsInv

LEMMA AddingKeepsIds ==
  ASSUME Parts, IdsInv, NEW t \in Tabs, NEW i \in Ids, Adds(t, i)
  PROVE  IdsInv'
<1> DEFINE list == Append(held[t], i)
<1>1. held[t] \in Seq(Ids)
  BY DEF Parts, ListsFit
<1>2. i \notin Elements(held[t])
  <2>1. CASE ~Holds(t, i)
    BY <2>1 DEF Holds, Elements
  <2>2. CASE \E b \in Buttons : Remembers(t, b, i)
    BY <2>2 DEF IdsInv, Lists
  <2> QED BY <2>1, <2>2 DEF Adds
<1>3. /\ list \in Seq(Ids) /\ Elements(list) = Elements(held[t]) \union {i}
      /\ NothingTwice(list)
  BY <1>1, <1>2, AppendedElements DEF IdsInv, NoneTwice
<1>4. held' = [u \in Tabs |-> IF u = t THEN list ELSE held[u]] /\ stored' = list
  BY <1>3, ListSaved DEF Adds, Remember, Parts
<1> HIDE DEF list
<1>5. Calm
  BY DEF Adds
<1>6. NoneTwice'
  BY <1>3, <1>4 DEF NoneTwice, IdsInv
<1>7. \A j \in Ids : Lists(j)' => Lists(j) \/ j = i
  BY <1>3, <1>4 DEF Lists
<1>8. status[i] # "unused"
  BY DEF Adds, IdsInv
<1>9. \A j \in Ids : (Lists(j) \/ LooksUp(j))' => status'[j] # "unused"
  BY <1>5, <1>7, <1>8, CalmSpreadsOnlyLists DEF IdsInv
<1>10. \A u \in Tabs, d \in Buttons : ~Remembers(u, d, i)'
  <2>1. CASE LooksUp(i)
    BY <1>5, <2>1, CalmSpreadsOnlyLists DEF IdsInv
  <2>2. ASSUME NEW b \in Buttons, Remembers(t, b, i), post'[t][b].at # "created"
        PROVE  \A u \in Tabs, d \in Buttons : ~Remembers(u, d, i)'
    <3>1. \A u \in Tabs, d \in Buttons : Remembers(u, d, i)' => u = t /\ d = b
      BY <1>5, <2>2, CalmSpreadsOnlyLists DEF IdsInv
    <3> QED BY <2>2, <3>1 DEF Remembers
  <2> QED BY <2>1, <2>2 DEF Adds
<1>11. ASSUME NEW j \in Ids, NEW u \in Tabs, NEW d \in Buttons, Remembers(u, d, j)'
       PROVE  /\ (status[j] # "unused" /\ ~Lists(j) /\ ~LooksUp(j))'
              /\ \A v \in Tabs, e \in Buttons : Remembers(v, e, j)' => v = u /\ e = d
  <2>1. j # i
    BY <1>10, <1>11
  <2> QED BY <1>5, <1>7, <1>11, <2>1, CalmSpreadsOnlyLists DEF IdsInv
<1> QED BY <1>6, <1>9, <1>11 DEF IdsInv

LEMMA MovesKeepIds == ASSUME Parts, IdsInv, Moves PROVE IdsInv'
<1>1. CASE StaysPut /\ Calm
  <2>1. NoneTwice => NoneTwice'
    BY <1>1 DEF StaysPut, NoneTwice
  <2>2. \A i \in Ids : Lists(i)' => Lists(i)
    BY <1>1 DEF StaysPut, Lists
  <2>3. Spreads
    BY <1>1, <2>1, <2>2, CalmSpreadsOnlyLists DEF Spreads
  <2> QED BY <2>3, SpreadingKeepsIds
<1>2. ASSUME NEW t \in Tabs, NEW i \in Ids, Drops(t, i) PROVE IdsInv'
  <2>1. /\ Without(held[t], i) \in Seq(Ids)
        /\ Elements(Without(held[t], i)) = Elements(held[t]) \ {i}
        /\ NothingTwice(held[t]) => NothingTwice(Without(held[t], i))
    BY WithoutLeavesTheRest DEF Parts, ListsFit
  <2>2. Spreads
    BY <1>2, <2>1, ShorterListSpreads DEF Drops, Forget, Saves, Lists, NoneTwice
  <2> QED BY <2>2, SpreadingKeepsIds
<1>3. ASSUME NEW t \in Tabs, DropsAll(t) PROVE IdsInv'
  <2>1. Spreads
    BY <1>3, NoElements, ShorterListSpreads DEF DropsAll, Saves
  <2> QED BY <2>1, SpreadingKeepsIds
<1>4. ASSUME NEW t \in Tabs, ReadsAgain(t) PROVE IdsInv'
  <2>1. stored \in Seq(Ids)
    BY DEF Parts, ListsFit
  <2>2. Spreads
    BY <1>4, <2>1, ShorterListSpreads DEF ReadsAgain, Lists, NoneTwice
  <2> QED BY <2>2, SpreadingKeepsIds
<1> QED BY <1>1, <1>2, <1>3, <1>4, GivingOutKeepsIds, AskingKeepsIds, AddingKeepsIds DEF Moves

LEMMA AlwaysIdsInv == Spec => []IdsInv
<1>1. Init => IdsInv
  <2> SUFFICES ASSUME Init PROVE IdsInv
    OBVIOUS
  <2>1. /\ stored = <<>> /\ \A t \in Tabs : held[t] = <<>>
        /\ \A t \in Tabs, n \in Turns : lookup[t][n].id = None
        /\ \A t \in Tabs, b \in Buttons : post[t][b].at # "created"
    BY DEF Init, NoLookups, NoLookup, Idle
  <2>2. NoneTwice /\ \A i \in Ids : ~Lists(i)
    BY <2>1, NoElements DEF NoneTwice, Lists
  <2> QED BY <2>1, <2>2, PageAssumption DEF IdsInv, LooksUp, Remembers
<1>2. Parts /\ IdsInv /\ [Next]_vars => IdsInv'
  BY StepsAreMoves, MovesKeepIds
<1> QED BY <1>1, <1>2, AlwaysFits, PTL DEF Spec

\* No tab's list, nor the one in localStorage, has an id twice, however many tabs write it.
THEOREM NothingIsEverTwice == Spec => []NoneTwice
<1>1. IdsInv => NoneTwice
  BY DEF IdsInv
<1> QED BY <1>1, AlwaysIdsInv, PTL

-----------------------------------------------------------------------------
\* A browser with one tab.

SingleTab == \A t, u \in Tabs : t = u

KeysInv ==
  /\ \A t \in Tabs : held[t] = stored
  /\ given \ failed \subseteq Elements(stored)
  /\ Elements(stored) \subseteq given

LEMMA SingleTabSaves ==
  ASSUME SingleTab, Parts, NEW t \in Tabs, NEW list \in Seq(Ids), Saves(t, list)
  PROVE  stored' = list /\ \A u \in Tabs : held'[u] = stored'
<1>1. held' = [u \in Tabs |-> IF u = t THEN list ELSE held[u]] /\ stored' = list
  BY ListSaved DEF Parts
<1> QED BY <1>1 DEF SingleTab

LEMMA MovesKeepKeys == ASSUME SingleTab, Parts, KeysInv, Moves PROVE KeysInv'
<1>1. CASE StaysPut
  BY <1>1 DEF StaysPut, KeysInv
<1>2. ASSUME NEW t \in Tabs, NEW i \in Ids, Adds(t, i) PROVE KeysInv'
  <2>1. held[t] = stored /\ held[t] \in Seq(Ids)
    BY DEF KeysInv, Parts, ListsFit
  <2>2. /\ Append(held[t], i) \in Seq(Ids)
        /\ Elements(Append(held[t], i)) = Elements(stored) \union {i}
    BY <2>1, AppendedElements
  <2>3. Saves(t, Append(held[t], i)) /\ given' = given \union {i} /\ failed' = failed
    BY <1>2 DEF Adds, Remember
  <2>4. stored' = Append(held[t], i) /\ \A u \in Tabs : held'[u] = stored'
    BY <2>2, <2>3, SingleTabSaves
  <2> QED BY <2>2, <2>3, <2>4 DEF KeysInv
<1>3. ASSUME NEW t \in Tabs, NEW i \in Ids, Drops(t, i) PROVE KeysInv'
  <2>1. held[t] = stored /\ held[t] \in Seq(Ids)
    BY DEF KeysInv, Parts, ListsFit
  <2>2. /\ Without(held[t], i) \in Seq(Ids)
        /\ Elements(Without(held[t], i)) = Elements(stored) \ {i}
    BY <2>1, WithoutLeavesTheRest
  <2>3. stored' = Without(held[t], i) /\ \A u \in Tabs : held'[u] = stored'
    BY <1>3, <2>2, SingleTabSaves DEF Drops, Forget
  <2> QED BY <1>3, <2>2, <2>3 DEF KeysInv, Drops
<1>4. ASSUME NEW t \in Tabs, DropsAll(t) PROVE KeysInv'
  <2>1. stored' = <<>> /\ \A u \in Tabs : held'[u] = stored'
    BY <1>4, NoElements, SingleTabSaves DEF DropsAll
  <2> QED BY <1>4, <2>1, NoElements DEF KeysInv, DropsAll
<1>5. ASSUME NEW t \in Tabs, ReadsAgain(t) PROVE KeysInv'
  <2>1. held' = [held EXCEPT ![t] = stored] /\ UNCHANGED <<stored, given, failed>>
    BY <1>5 DEF ReadsAgain
  <2>2. \A u \in Tabs : held'[u] = stored
    BY <2>1 DEF Parts, ListsFit, KeysInv
  <2> QED BY <2>1, <2>2 DEF KeysInv
<1> QED BY <1>1, <1>2, <1>3, <1>4, <1>5 DEF Moves, GivesOut, AsksFor

LEMMA AlwaysKeysInv == ASSUME SingleTab PROVE Spec => []KeysInv
<1>1. Init => KeysInv
  BY NoElements DEF Init, KeysInv
<1>2. Parts /\ KeysInv /\ [Next]_vars => KeysInv'
  BY StepsAreMoves, MovesKeepKeys
<1> QED BY <1>1, <1>2, AlwaysFits, PTL DEF Spec

\* With one tab, and any number of tickets, failures, reloads and late answers, the list is
\* what the browser was answered, but for what a failed read dropped.
THEOREM KeysAreAlwaysKept == ASSUME SingleTab PROVE Spec => []KeysAreKept
<1>1. KeysInv => KeysAreKept
  BY DEF KeysInv, KeysAreKept, StoredIds, Elements
<1> QED BY <1>1, AlwaysKeysInv, PTL

\* And no late answer brings back what was forgotten, or doubles what is there.
THEOREM ForgottenAlwaysStaysOut == ASSUME SingleTab PROVE Spec => []ForgottenStaysOut
<1>1. KeysInv /\ IdsInv => ForgottenStaysOut
  BY DEF KeysInv, IdsInv, NoneTwice, NothingTwice, ForgottenStaysOut, StoredIds, Elements
<1> QED BY <1>1, AlwaysKeysInv, AlwaysIdsInv, PTL
===============================================================================
