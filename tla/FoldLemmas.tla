------------------------------ MODULE FoldLemmas ------------------------------
(***************************************************************************)
(* What the folds and sums of the community modules compute, for every     *)
(* finite set: the facts the proofs about counters and lists rest on.      *)
(*                                                                         *)
(* The provers cannot instantiate an induction rule whose parameter is an  *)
(* operator.  They can use the least element of a set of naturals, and so  *)
(* every induction here is over a set: of the numbers n such that what is  *)
(* claimed holds of all sets with n elements.                              *)
(***************************************************************************)
EXTENDS Integers, SequencesExt, FiniteSetTheorems, WellFoundedInduction, TLAPS

-----------------------------------------------------------------------------
\* Induction.

LEMMA LeastElement ==
  ASSUME NEW T \in SUBSET Nat, T # {}
  PROVE  \E least \in T : \A n \in T : least <= n
<1> DEFINE R == { p \in Nat \X Nat : p[1] < p[2] }
<1>1. IsWellFoundedOn(R, Nat)
  BY NatLessThanWellFounded DEF OpToRel
<1>2. \A m, n \in Nat : <<m, n>> \in R <=> m < n
  OBVIOUS
<1> HIDE DEF R
<1>3. PICK least \in T : \A n \in T : <<n, least>> \notin R
  BY <1>1, WFMin
<1>4. ASSUME NEW n \in T PROVE least <= n
  <2>1. n \in Nat /\ least \in Nat /\ ~(n < least)
    BY <1>2, <1>3
  <2> QED BY <2>1
<1> QED BY <1>4

LEMMA Induction ==
  ASSUME NEW S, 0 \in S, \A n \in Nat : n \in S => n + 1 \in S
  PROVE  Nat \subseteq S
<1> SUFFICES ASSUME Nat \ S # {} PROVE FALSE
  OBVIOUS
<1>1. PICK least \in Nat \ S : \A n \in Nat \ S : least <= n
  BY LeastElement
<1>2. least - 1 \in Nat /\ least - 1 \in S
  BY <1>1
<1> QED BY <1>1, <1>2

-----------------------------------------------------------------------------
\* A fold as an equation: take the element c picks, then fold the rest.

IsChooser(c, S) == \A s \in SUBSET S : s # {} => c[s] \in s

IsFold(g, S, base, c, op) ==
  \A s \in SUBSET S : g[s] = IF s = {} THEN base ELSE op[<<c[s], g[s \ {c[s]}]>>]

LEMMA SizeWithout ==
  ASSUME NEW s, IsFiniteSet(s), NEW x \in s, NEW n \in Nat, Cardinality(s) <= n + 1
  PROVE  IsFiniteSet(s \ {x}) /\ Cardinality(s \ {x}) <= n
<1>1. IsFiniteSet(s \ {x}) /\ Cardinality(s \ {x}) = Cardinality(s) - 1
  BY FS_RemoveElement
<1>2. Cardinality(s) \in Nat
  BY FS_CardinalityType
<1> QED BY <1>1, <1>2

\* Two functions that agree on a set whenever they agree on what is left of it agree.
StepsAgree(g, h, S, c) ==
  /\ g[{}] = h[{}]
  /\ \A s \in SUBSET S : s # {} /\ g[s \ {c[s]}] = h[s \ {c[s]}] => g[s] = h[s]

LEMMA FoldIsUnique ==
  ASSUME NEW S, IsFiniteSet(S), NEW c, IsChooser(c, S), NEW g, NEW h, StepsAgree(g, h, S, c)
  PROVE  \A s \in SUBSET S : g[s] = h[s]
<1> DEFINE Same(n) == \A s \in SUBSET S : Cardinality(s) <= n => g[s] = h[s]
           Good == { n \in Nat : Same(n) }
<1>1. \A s \in SUBSET S : IsFiniteSet(s) /\ Cardinality(s) \in Nat /\ (Cardinality(s) = 0 <=> s = {})
  BY FS_Subset, FS_CardinalityType, FS_EmptySet
<1>2. Same(0)
  <2> SUFFICES ASSUME NEW s \in SUBSET S, Cardinality(s) <= 0 PROVE g[s] = h[s]
    OBVIOUS
  <2>1. s = {}
    BY <1>1
  <2> QED BY <2>1 DEF StepsAgree
<1>3. ASSUME NEW n \in Nat, Same(n) PROVE Same(n + 1)
  <2> SUFFICES ASSUME NEW s \in SUBSET S, Cardinality(s) <= n + 1, s # {} PROVE g[s] = h[s]
    BY DEF StepsAgree
  <2>1. c[s] \in s
    BY DEF IsChooser
  <2>2. Cardinality(s \ {c[s]}) <= n
    BY <1>1, <2>1, SizeWithout
  <2>3. g[s \ {c[s]}] = h[s \ {c[s]}]
    BY <1>3, <2>2
  <2> QED BY <2>3 DEF StepsAgree
<1>4. Nat \subseteq Good
  <2> HIDE DEF Same
  <2>1. 0 \in Good /\ \A n \in Nat : n \in Good => n + 1 \in Good
    BY <1>2, <1>3
  <2> HIDE DEF Good
  <2> QED BY <2>1, Induction
<1> QED BY <1>1, <1>4

\* Over a finite set there is one.
LEMMA FoldExists ==
  ASSUME NEW S, IsFiniteSet(S), NEW V, NEW base \in V, NEW c, IsChooser(c, S),
         NEW op \in [S \X V -> V]
  PROVE  \E g \in [SUBSET S -> V] : IsFold(g, S, base, c, op)
<1> DEFINE Small(n) == { s \in SUBSET S : Cardinality(s) <= n }
           Fits(g, n) ==
             \A s \in Small(n) : g[s] = IF s = {} THEN base ELSE op[<<c[s], g[s \ {c[s]}]>>]
           Exists(n) == \E g \in [SUBSET S -> V] : Fits(g, n)
           Good == { n \in Nat : Exists(n) }
<1>1. \A s \in SUBSET S : IsFiniteSet(s) /\ Cardinality(s) \in Nat /\ (Cardinality(s) = 0 <=> s = {})
  BY FS_Subset, FS_CardinalityType, FS_EmptySet
<1>2. Exists(0)
  <2> DEFINE g == [s \in SUBSET S |-> base]
  <2>1. g \in [SUBSET S -> V] /\ Fits(g, 0)
    BY <1>1
  <2> HIDE DEF g
  <2> QED BY <2>1
<1>3. ASSUME NEW n \in Nat, Exists(n) PROVE Exists(n + 1)
  <2>1. PICK g \in [SUBSET S -> V] : Fits(g, n)
    BY <1>3
  <2> DEFINE h == [s \in SUBSET S |->
                     IF s = {} THEN base ELSE op[<<c[s], g[s \ {c[s]}]>>]]
  <2>2. \A s \in SUBSET S : s # {} => c[s] \in s
    BY DEF IsChooser
  <2>3. \A s \in SUBSET S : h[s] = IF s = {} THEN base ELSE op[<<c[s], g[s \ {c[s]}]>>]
    OBVIOUS
  <2>4. h \in [SUBSET S -> V]
    <3>1. ASSUME NEW s \in SUBSET S, s # {} PROVE op[<<c[s], g[s \ {c[s]}]>>] \in V
      <4>1. c[s] \in S /\ s \ {c[s]} \in SUBSET S
        BY <2>2, <3>1
      <4> QED BY <4>1
    <3> QED BY <3>1
  <2> HIDE DEF h
  <2>5. \A s \in Small(n) : h[s] = g[s]
    BY <2>1, <2>3
  <2>6. ASSUME NEW s \in Small(n + 1), s # {} PROVE h[s \ {c[s]}] = g[s \ {c[s]}]
    <3>1. Cardinality(s \ {c[s]}) <= n
      BY <1>1, <2>2, <2>6, SizeWithout
    <3> QED BY <2>5, <3>1
  <2>7. Fits(h, n + 1)
    BY <2>3, <2>6
  <2> QED BY <2>4, <2>7
<1>4. Nat \subseteq Good
  <2> HIDE DEF Exists
  <2>1. 0 \in Good /\ \A n \in Nat : n \in Good => n + 1 \in Good
    BY <1>2, <1>3
  <2> HIDE DEF Good
  <2> QED BY <2>1, Induction
<1>5. PICK g \in [SUBSET S -> V] : Fits(g, Cardinality(S))
  BY <1>1, <1>4
<1>6. \A s \in SUBSET S : s \in Small(Cardinality(S))
  BY FS_Subset
<1> QED BY <1>5, <1>6 DEF IsFold

-----------------------------------------------------------------------------
\* SumFunctionOnSet, which takes the elements in the order of CHOOSE.

Picked(s) == CHOOSE x \in s : TRUE

LEMMA PickedIsElement == \A s : s # {} => Picked(s) \in s
  BY DEF Picked

PickedOf(D) == [s \in SUBSET D |-> Picked(s)]

Adding(f, D) == [p \in D \X Nat |-> f[p[1]] + p[2]]

\* g is the table of the sums of f over the subsets of D.
AddsUp(g, f, D) ==
  /\ g \in [SUBSET D -> Nat]
  /\ \A s \in SUBSET D : g[s] = IF s = {} THEN 0 ELSE f[Picked(s)] + g[s \ {Picked(s)}]
  /\ \A s \in SUBSET D : SumFunctionOnSet(f, s) = g[s]

LEMMA SumIsFold ==
  ASSUME NEW D, IsFiniteSet(D), NEW f, \A x \in D : f[x] \in Nat
  PROVE  \E g : AddsUp(g, f, D)
<1> DEFINE c == PickedOf(D)
           op == Adding(f, D)
<1>1. IsChooser(c, D)
  BY PickedIsElement DEF IsChooser, PickedOf
<1>2. op \in [D \X Nat -> Nat]
  BY DEF Adding
<1>3. \A x \in D, n \in Nat : op[<<x, n>>] = f[x] + n
  BY DEF Adding
<1>4. \A s \in SUBSET D : c[s] = Picked(s)
  BY DEF PickedOf
<1> HIDE DEF c, op
<1>5. PICK g \in [SUBSET D -> Nat] : IsFold(g, D, 0, c, op)
  BY <1>1, <1>2, FoldExists
<1>6. ASSUME NEW s \in SUBSET D
      PROVE  g[s] = IF s = {} THEN 0 ELSE f[Picked(s)] + g[s \ {Picked(s)}]
  <2>1. CASE s = {}
    BY <1>5, <2>1 DEF IsFold
  <2>2. CASE s # {}
    <3>1. Picked(s) \in D /\ s \ {Picked(s)} \in SUBSET D
      BY <2>2, PickedIsElement
    <3>2. g[s \ {Picked(s)}] \in Nat
      BY <3>1
    <3>3. g[s] = op[<<Picked(s), g[s \ {Picked(s)}]>>]
      BY <1>4, <1>5, <2>2 DEF IsFold
    <3> QED BY <1>3, <2>2, <3>1, <3>2, <3>3
  <2> QED BY <2>1, <2>2
<1>7. ASSUME NEW E \in SUBSET D PROVE SumFunctionOnSet(f, E) = g[E]
  <2> DEFINE Sums(h) == h = [s \in SUBSET E |->
                               IF s = {} THEN 0 ELSE f[Picked(s)] + h[s \ {Picked(s)}]]
             first == [s \in SUBSET E |-> g[s]]
             iter == CHOOSE h : Sums(h)
  <2>1. Sums(first)
    <3>1. ASSUME NEW s \in SUBSET E, s # {} PROVE first[s \ {Picked(s)}] = g[s \ {Picked(s)}]
      OBVIOUS
    <3>2. \A s \in SUBSET E : s \in SUBSET D
      OBVIOUS
    <3>3. ASSUME NEW s \in SUBSET E
          PROVE  first[s] = IF s = {} THEN 0 ELSE f[Picked(s)] + first[s \ {Picked(s)}]
      BY <1>6, <3>1, <3>2
    <3> HIDE DEF first
    <3>4. first = [s \in SUBSET E |-> first[s]]
      BY DEF first
    <3> QED BY <3>3, <3>4
  <2>2. Sums(iter)
    <3> HIDE DEF Sums
    <3> QED BY <2>1
  <2>3. SumFunctionOnSet(f, E) = iter[E]
    BY DEF SumFunctionOnSet, FoldFunctionOnSet, MapThenFoldSet, Picked
  <2> HIDE DEF iter
  <2>4. IsFiniteSet(E)
    BY FS_Subset
  <2>5. IsChooser(c, E)
    BY <1>1 DEF IsChooser
  <2>6. \A s \in SUBSET E : iter[s] = IF s = {} THEN 0 ELSE f[Picked(s)] + iter[s \ {Picked(s)}]
    BY <2>2
  <2>7. StepsAgree(g, iter, E, c)
    <3>1. g[{}] = iter[{}]
      BY <1>6, <2>6
    <3>2. ASSUME NEW s \in SUBSET E, s # {}, g[s \ {c[s]}] = iter[s \ {c[s]}] PROVE g[s] = iter[s]
      <4>1. c[s] = Picked(s) /\ s \in SUBSET D
        BY <1>4
      <4>2. g[s] = f[Picked(s)] + g[s \ {Picked(s)}]
        BY <1>6, <3>2, <4>1
      <4>3. iter[s] = f[Picked(s)] + iter[s \ {Picked(s)}]
        BY <2>6, <3>2
      <4> QED BY <3>2, <4>1, <4>2, <4>3
    <3> QED BY <3>1, <3>2 DEF StepsAgree
  <2>8. \A s \in SUBSET E : g[s] = iter[s]
    BY <2>4, <2>5, <2>7, FoldIsUnique
  <2> QED BY <2>3, <2>8
<1> QED BY <1>6, <1>7 DEF AddsUp

LEMMA SumOfNone == ASSUME NEW f PROVE SumFunctionOnSet(f, {}) = 0
<1>1. IsFiniteSet({}) /\ \A x \in {} : f[x] \in Nat
  BY FS_EmptySet
<1>2. PICK g : AddsUp(g, f, {})
  BY <1>1, SumIsFold
<1> QED BY <1>2 DEF AddsUp

\* The order does not matter: any element may be taken first.
LEMMA SumWithout ==
  ASSUME NEW D, IsFiniteSet(D), NEW f, \A x \in D : f[x] \in Nat
  PROVE  /\ \A s \in SUBSET D : SumFunctionOnSet(f, s) \in Nat
         /\ \A s \in SUBSET D : \A x \in s :
              SumFunctionOnSet(f, s) = f[x] + SumFunctionOnSet(f, s \ {x})
<1>1. PICK g : AddsUp(g, f, D)
  BY SumIsFold
<1> DEFINE Splits(n) ==
             \A s \in SUBSET D : Cardinality(s) <= n => \A x \in s : g[s] = f[x] + g[s \ {x}]
           Good == { n \in Nat : Splits(n) }
<1>2. \A s \in SUBSET D : IsFiniteSet(s) /\ Cardinality(s) \in Nat /\ (Cardinality(s) = 0 <=> s = {})
  BY FS_Subset, FS_CardinalityType, FS_EmptySet
<1>3. Splits(0)
  <2> SUFFICES ASSUME NEW s \in SUBSET D, Cardinality(s) <= 0, NEW x \in s PROVE FALSE
    OBVIOUS
  <2> QED BY <1>2
<1>4. ASSUME NEW n \in Nat, Splits(n) PROVE Splits(n + 1)
  <2> SUFFICES ASSUME NEW s \in SUBSET D, Cardinality(s) <= n + 1, NEW x \in s
               PROVE  g[s] = f[x] + g[s \ {x}]
    OBVIOUS
  <2> DEFINE y == Picked(s)
  <2>1. y \in s /\ g[s] = f[y] + g[s \ {y}]
    BY <1>1, PickedIsElement DEF AddsUp
  <2> HIDE DEF y
  <2>2. CASE x = y
    BY <2>1, <2>2
  <2>3. CASE x # y
    <3>1. Cardinality(s \ {y}) <= n /\ Cardinality(s \ {x}) <= n
      BY <1>2, <2>1, SizeWithout
    <3>2. s \ {y} \in SUBSET D /\ x \in s \ {y} /\ s \ {x} \in SUBSET D /\ y \in s \ {x}
      BY <2>1, <2>3
    <3>3. g[s \ {y}] = f[x] + g[(s \ {y}) \ {x}]
      BY <1>4, <3>1, <3>2
    <3>4. g[s \ {x}] = f[y] + g[(s \ {x}) \ {y}]
      BY <1>4, <3>1, <3>2
    <3>5. (s \ {y}) \ {x} = (s \ {x}) \ {y} /\ (s \ {x}) \ {y} \in SUBSET D
      OBVIOUS
    <3> DEFINE rest == g[(s \ {x}) \ {y}]
    <3>6. rest \in Nat /\ f[x] \in Nat /\ f[y] \in Nat
      BY <1>1, <2>1, <3>5 DEF AddsUp
    <3>7. g[s] = f[y] + (f[x] + rest) /\ g[s \ {x}] = f[y] + rest
      BY <2>1, <3>3, <3>4, <3>5
    <3> HIDE DEF rest
    <3> QED BY <3>6, <3>7
  <2> QED BY <2>2, <2>3
<1>5. Nat \subseteq Good
  <2> HIDE DEF Splits
  <2>1. 0 \in Good /\ \A n \in Nat : n \in Good => n + 1 \in Good
    BY <1>3, <1>4
  <2> HIDE DEF Good
  <2> QED BY <2>1, Induction
<1>6. \A s \in SUBSET D : \A x \in s : g[s] = f[x] + g[s \ {x}] /\ s \ {x} \in SUBSET D
  <2> SUFFICES ASSUME NEW s \in SUBSET D, NEW x \in s PROVE g[s] = f[x] + g[s \ {x}]
    OBVIOUS
  <2>1. Cardinality(s) \in Nat /\ Splits(Cardinality(s))
    BY <1>2, <1>5
  <2> QED BY <1>2, <2>1
<1> HIDE DEF Good
<1> QED BY <1>1, <1>6 DEF AddsUp

LEMMA SumAgrees ==
  ASSUME NEW D, IsFiniteSet(D), NEW f, \A x \in D : f[x] \in Nat,
         NEW h, \A x \in D : h[x] = f[x]
  PROVE  SumFunctionOnSet(h, D) = SumFunctionOnSet(f, D)
<1>1. PICK g : AddsUp(g, f, D)
  BY SumIsFold
<1>2. PICK k : AddsUp(k, h, D)
  BY SumIsFold
<1>3. \A s \in SUBSET D : s # {} => Picked(s) \in s
  BY PickedIsElement
<1>4. IsChooser(PickedOf(D), D)
  BY <1>3 DEF IsChooser, PickedOf
<1>5. StepsAgree(g, k, D, PickedOf(D))
  <2>1. g[{}] = k[{}]
    BY <1>1, <1>2 DEF AddsUp
  <2>2. ASSUME NEW s \in SUBSET D, s # {}, g[s \ {Picked(s)}] = k[s \ {Picked(s)}]
        PROVE  g[s] = k[s]
    <3>1. h[Picked(s)] = f[Picked(s)]
      BY <1>3, <2>2
    <3> QED BY <1>1, <1>2, <2>2, <3>1 DEF AddsUp
  <2>3. \A s \in SUBSET D : PickedOf(D)[s] = Picked(s)
    BY DEF PickedOf
  <2> QED BY <2>1, <2>2, <2>3 DEF StepsAgree
<1>6. \A s \in SUBSET D : g[s] = k[s]
  BY <1>4, <1>5, FoldIsUnique
<1> QED BY <1>1, <1>2, <1>6 DEF AddsUp

LEMMA SumOfZeros ==
  ASSUME NEW D, IsFiniteSet(D), NEW f, \A x \in D : f[x] = 0
  PROVE  SumFunctionOnSet(f, D) = 0
<1>1. PICK g : AddsUp(g, f, D)
  BY SumIsFold
<1> DEFINE zero == [s \in SUBSET D |-> 0]
<1>2. \A s \in SUBSET D : s # {} => Picked(s) \in s
  BY PickedIsElement
<1>3. IsChooser(PickedOf(D), D)
  BY <1>2 DEF IsChooser, PickedOf
<1>4. StepsAgree(g, zero, D, PickedOf(D))
  <2>1. g[{}] = 0 /\ zero[{}] = 0
    BY <1>1 DEF AddsUp
  <2>2. ASSUME NEW s \in SUBSET D, s # {}, g[s \ {Picked(s)}] = zero[s \ {Picked(s)}]
        PROVE  g[s] = zero[s]
    <3>1. f[Picked(s)] = 0 /\ s \ {Picked(s)} \in SUBSET D
      BY <1>2, <2>2
    <3>2. zero[s] = 0 /\ zero[s \ {Picked(s)}] = 0
      BY <3>1
    <3> QED BY <1>1, <2>2, <3>1, <3>2 DEF AddsUp
  <2>3. \A s \in SUBSET D : PickedOf(D)[s] = Picked(s)
    BY DEF PickedOf
  <2> HIDE DEF zero
  <2> QED BY <2>1, <2>2, <2>3 DEF StepsAgree
<1>5. \A s \in SUBSET D : g[s] = zero[s]
  <2> HIDE DEF zero
  <2> QED BY <1>3, <1>4, FoldIsUnique
<1> QED BY <1>1, <1>5 DEF AddsUp

LEMMA SumWith ==
  ASSUME NEW D, IsFiniteSet(D), NEW x, x \notin D,
         NEW f, f[x] \in Nat, \A y \in D : f[y] \in Nat
  PROVE  SumFunctionOnSet(f, D \union {x}) = f[x] + SumFunctionOnSet(f, D)
<1> DEFINE E == D \union {x}
<1>1. IsFiniteSet(E) /\ \A y \in E : f[y] \in Nat
  BY FS_AddElement
<1>2. x \in E /\ E \in SUBSET E /\ E \ {x} = D
  OBVIOUS
<1> HIDE DEF E
<1>3. SumFunctionOnSet(f, E) = f[x] + SumFunctionOnSet(f, E \ {x})
  BY <1>1, <1>2, SumWithout
<1> QED BY <1>2, <1>3 DEF E

\* One value grows, and the sum grows by as much.
LEMMA SumGrows ==
  ASSUME NEW D, IsFiniteSet(D), NEW f, \A y \in D : f[y] \in Nat,
         NEW x \in D, NEW k \in Nat,
         NEW h, h[x] = f[x] + k, \A y \in D \ {x} : h[y] = f[y]
  PROVE  SumFunctionOnSet(h, D) = SumFunctionOnSet(f, D) + k
<1> DEFINE E == D \ {x}
<1>1. IsFiniteSet(E) /\ E \in SUBSET D /\ D \in SUBSET D
  BY FS_Subset
<1>2. \A y \in D : h[y] \in Nat
  OBVIOUS
<1>3. \A y \in E : f[y] \in Nat /\ h[y] = f[y]
  OBVIOUS
<1>4. /\ SumFunctionOnSet(f, D) = f[x] + SumFunctionOnSet(f, E)
      /\ SumFunctionOnSet(f, E) \in Nat
      /\ SumFunctionOnSet(h, D) = h[x] + SumFunctionOnSet(h, E)
  BY <1>1, <1>2, SumWithout
<1> HIDE DEF E
<1>5. SumFunctionOnSet(h, E) = SumFunctionOnSet(f, E)
  BY <1>1, <1>3, SumAgrees
<1> QED BY <1>4, <1>5

LEMMA SumOfDomain == ASSUME NEW f PROVE SumFunction(f) = SumFunctionOnSet(f, DOMAIN f)
  BY DEF SumFunction

LEMMA SumIsNatural ==
  ASSUME NEW D, IsFiniteSet(D), NEW f \in [D -> Nat]
  PROVE  SumFunction(f) \in Nat
<1>1. DOMAIN f = D /\ \A x \in D : f[x] \in Nat
  OBVIOUS
<1>2. SumFunctionOnSet(f, D) \in Nat
  BY <1>1, SumWithout
<1> QED BY <1>1, <1>2, SumOfDomain

\* A counter that is incremented.
LEMMA CounterGrows ==
  ASSUME NEW D, IsFiniteSet(D), NEW f \in [D -> Nat], NEW x \in D
  PROVE  /\ SumFunction([f EXCEPT ![x] = @ + 1]) = SumFunction(f) + 1
         /\ SumFunction(f) \in Nat
         /\ \A y \in D : [f EXCEPT ![x] = @ + 1][y] = IF y = x THEN f[y] + 1 ELSE f[y]
<1> DEFINE h == [f EXCEPT ![x] = @ + 1]
<1>1. /\ DOMAIN f = D /\ DOMAIN h = D /\ \A y \in D : f[y] \in Nat
      /\ h[x] = f[x] + 1 /\ \A y \in D \ {x} : h[y] = f[y]
  OBVIOUS
<1> HIDE DEF h
<1>2. SumFunctionOnSet(h, D) = SumFunctionOnSet(f, D) + 1
  BY <1>1, SumGrows
<1>3. SumFunction(h) = SumFunctionOnSet(h, D) /\ SumFunction(f) = SumFunctionOnSet(f, D)
  BY <1>1, SumOfDomain
<1>4. \A y \in D : h[y] = IF y = x THEN f[y] + 1 ELSE f[y]
  BY <1>1
<1> QED BY <1>2, <1>3, <1>4, SumIsNatural DEF h

-----------------------------------------------------------------------------
\* Sums and the sizes of sets.

\* Induction over the subsets of a finite set: T are those of which the claim holds.
LEMMA SubsetInduction ==
  ASSUME NEW D, IsFiniteSet(D), NEW T, {} \in T,
         \A s \in SUBSET D : \A x \in s : s \ {x} \in T => s \in T
  PROVE  SUBSET D \subseteq T
<1> DEFINE Small(n) == \A s \in SUBSET D : Cardinality(s) <= n => s \in T
           Good == { n \in Nat : Small(n) }
<1>1. \A s \in SUBSET D : IsFiniteSet(s) /\ Cardinality(s) \in Nat /\ (Cardinality(s) = 0 <=> s = {})
  BY FS_Subset, FS_CardinalityType, FS_EmptySet
<1>2. Small(0)
  <2> SUFFICES ASSUME NEW s \in SUBSET D, Cardinality(s) <= 0 PROVE s \in T
    OBVIOUS
  <2>1. s = {}
    BY <1>1
  <2> QED BY <2>1
<1>3. ASSUME NEW n \in Nat, Small(n) PROVE Small(n + 1)
  <2> SUFFICES ASSUME NEW s \in SUBSET D, Cardinality(s) <= n + 1, NEW x \in s PROVE s \in T
    OBVIOUS
  <2>1. Cardinality(s \ {x}) <= n
    BY <1>1, SizeWithout
  <2>2. s \ {x} \in T
    BY <1>3, <2>1
  <2> QED BY <2>2
<1>4. Nat \subseteq Good
  <2> HIDE DEF Small
  <2>1. 0 \in Good /\ \A n \in Nat : n \in Good => n + 1 \in Good
    BY <1>2, <1>3
  <2> HIDE DEF Good
  <2> QED BY <2>1, Induction
<1> QED BY <1>1, <1>4

Covered(A, s) == UNION { A[x] : x \in s }

LEMMA CoveredIsFinite ==
  ASSUME NEW D, IsFiniteSet(D), NEW A, \A x \in D : IsFiniteSet(A[x])
  PROVE  \A s \in SUBSET D : IsFiniteSet(Covered(A, s))
<1> DEFINE T == { s \in SUBSET D : IsFiniteSet(Covered(A, s)) }
<1>1. {} \in T
  <2>1. Covered(A, {}) = {}
    BY DEF Covered
  <2> QED BY <2>1, FS_EmptySet
<1>2. ASSUME NEW s \in SUBSET D, NEW x \in s, s \ {x} \in T PROVE s \in T
  <2>1. x \in D /\ IsFiniteSet(A[x]) /\ IsFiniteSet(Covered(A, s \ {x}))
    BY <1>2
  <2>2. Covered(A, s) = A[x] \union Covered(A, s \ {x})
    BY DEF Covered
  <2>3. IsFiniteSet(Covered(A, s))
    BY <2>1, <2>2, FS_Union
  <2> QED BY <2>3
<1> HIDE DEF T
<1>3. SUBSET D \subseteq T
  BY <1>1, <1>2, SubsetInduction
<1> QED BY <1>3 DEF T

\* A sum of numbers, each at least the size of a set, is at least that of their union.
LEMMA SumCovers ==
  ASSUME NEW D, IsFiniteSet(D), NEW f, \A x \in D : f[x] \in Nat,
         NEW A, \A x \in D : IsFiniteSet(A[x]) /\ Cardinality(A[x]) <= f[x]
  PROVE  IsFiniteSet(Covered(A, D)) /\ Cardinality(Covered(A, D)) <= SumFunctionOnSet(f, D)
<1> DEFINE T == { s \in SUBSET D : Cardinality(Covered(A, s)) <= SumFunctionOnSet(f, s) }
<1>1. \A s \in SUBSET D : IsFiniteSet(Covered(A, s)) /\ Cardinality(Covered(A, s)) \in Nat
  BY CoveredIsFinite, FS_CardinalityType
<1>2. {} \in T
  <2>1. Covered(A, {}) = {}
    BY DEF Covered
  <2>2. Cardinality(Covered(A, {})) = 0 /\ SumFunctionOnSet(f, {}) = 0
    BY <2>1, FS_EmptySet, SumOfNone
  <2> QED BY <2>2
<1>3. ASSUME NEW s \in SUBSET D, NEW x \in s, s \ {x} \in T PROVE s \in T
  <2> DEFINE rest == s \ {x}
  <2>1. rest \in SUBSET D /\ x \in D /\ s \in SUBSET D
    OBVIOUS
  <2>2. /\ SumFunctionOnSet(f, s) = f[x] + SumFunctionOnSet(f, rest)
        /\ SumFunctionOnSet(f, rest) \in Nat
    BY <2>1, SumWithout
  <2>3. Cardinality(Covered(A, rest)) <= SumFunctionOnSet(f, rest)
    BY <1>3
  <2>4. Covered(A, s) = A[x] \union Covered(A, rest)
    BY DEF Covered
  <2> HIDE DEF rest
  <2>5. /\ IsFiniteSet(A[x]) /\ IsFiniteSet(Covered(A, rest))
        /\ Cardinality(A[x]) \in Nat /\ Cardinality(Covered(A, rest)) \in Nat
        /\ Cardinality(A[x]) <= f[x] /\ f[x] \in Nat
    BY <1>1, <2>1, FS_CardinalityType
  <2>6. Cardinality(A[x] \union Covered(A, rest)) <= Cardinality(A[x]) + Cardinality(Covered(A, rest))
    <3>1. IsFiniteSet(A[x] \intersect Covered(A, rest))
      BY <2>5, FS_Intersection
    <3>2. Cardinality(A[x] \intersect Covered(A, rest)) \in Nat
      BY <3>1, FS_CardinalityType
    <3>3. Cardinality(A[x] \union Covered(A, rest)) =
            Cardinality(A[x]) + Cardinality(Covered(A, rest))
              - Cardinality(A[x] \intersect Covered(A, rest))
      BY <2>5, FS_Union
    <3> QED BY <2>5, <3>2, <3>3
  <2>7. Cardinality(A[x] \union Covered(A, rest)) \in Nat
    BY <2>5, FS_Union, FS_CardinalityType
  <2>8. Cardinality(Covered(A, s)) <= SumFunctionOnSet(f, s)
    BY <2>2, <2>3, <2>4, <2>5, <2>6, <2>7
  <2> QED BY <2>8
<1> HIDE DEF T
<1>4. SUBSET D \subseteq T
  BY <1>2, <1>3, SubsetInduction
<1> QED BY <1>1, <1>4 DEF T

\* A sum of numbers, each at most the size of a set, is at most that of their union, when
\* they are disjoint.
LEMMA SumIsCovered ==
  ASSUME NEW D, IsFiniteSet(D), NEW f, \A x \in D : f[x] \in Nat,
         NEW A, \A x \in D : IsFiniteSet(A[x]) /\ f[x] <= Cardinality(A[x]),
         \A x, y \in D : x # y => A[x] \intersect A[y] = {}
  PROVE  IsFiniteSet(Covered(A, D)) /\ SumFunctionOnSet(f, D) <= Cardinality(Covered(A, D))
<1> DEFINE T == { s \in SUBSET D : SumFunctionOnSet(f, s) <= Cardinality(Covered(A, s)) }
<1>1. \A s \in SUBSET D : IsFiniteSet(Covered(A, s)) /\ Cardinality(Covered(A, s)) \in Nat
  BY CoveredIsFinite, FS_CardinalityType
<1>2. {} \in T
  <2>1. Covered(A, {}) = {}
    BY DEF Covered
  <2>2. Cardinality(Covered(A, {})) = 0 /\ SumFunctionOnSet(f, {}) = 0
    BY <2>1, FS_EmptySet, SumOfNone
  <2> QED BY <2>2
<1>3. ASSUME NEW s \in SUBSET D, NEW x \in s, s \ {x} \in T PROVE s \in T
  <2> DEFINE rest == s \ {x}
  <2>1. rest \in SUBSET D /\ x \in D /\ s \in SUBSET D
    OBVIOUS
  <2>2. /\ SumFunctionOnSet(f, s) = f[x] + SumFunctionOnSet(f, rest)
        /\ SumFunctionOnSet(f, rest) \in Nat
    BY <2>1, SumWithout
  <2>3. SumFunctionOnSet(f, rest) <= Cardinality(Covered(A, rest))
    BY <1>3
  <2>4. Covered(A, s) = A[x] \union Covered(A, rest)
    BY DEF Covered
  <2>5. A[x] \intersect Covered(A, rest) = {}
    <3>1. \A y \in rest : A[x] \intersect A[y] = {}
      BY <2>1
    <3> QED BY <3>1 DEF Covered
  <2> HIDE DEF rest
  <2>6. /\ IsFiniteSet(A[x]) /\ IsFiniteSet(Covered(A, rest))
        /\ Cardinality(A[x]) \in Nat /\ Cardinality(Covered(A, rest)) \in Nat
        /\ f[x] <= Cardinality(A[x]) /\ f[x] \in Nat
    BY <1>1, <2>1, FS_CardinalityType
  <2>7. Cardinality(A[x] \union Covered(A, rest)) = Cardinality(A[x]) + Cardinality(Covered(A, rest))
    <3>1. Cardinality(A[x] \intersect Covered(A, rest)) = 0
      BY <2>5, FS_EmptySet
    <3>2. Cardinality(A[x] \union Covered(A, rest)) =
            Cardinality(A[x]) + Cardinality(Covered(A, rest))
              - Cardinality(A[x] \intersect Covered(A, rest))
      BY <2>6, FS_Union
    <3> QED BY <2>6, <3>1, <3>2
  <2>8. SumFunctionOnSet(f, s) <= Cardinality(Covered(A, s))
    BY <2>2, <2>3, <2>4, <2>6, <2>7
  <2> QED BY <2>8
<1> HIDE DEF T
<1>4. SUBSET D \subseteq T
  BY <1>2, <1>3, SubsetInduction
<1> QED BY <1>1, <1>4 DEF T
===============================================================================
