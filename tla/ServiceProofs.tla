--------------------------- MODULE ServiceProofs ---------------------------
(***************************************************************************)
(* Theorems about the service, for every set of requests, every pool size  *)
(* and any number of outages.                                              *)
(***************************************************************************)
EXTENDS ServiceProperties, SequenceTheorems, FiniteSetTheorems, TLAPS

-----------------------------------------------------------------------------
\* The parts of the inductive invariant.

\* Who has come is somewhere, and the threads that are taken can be counted.
Arrived ==
  /\ IsFiniteSet(busy)
  /\ \A r \in Requests : kind[r] = None <=> at[r] = "away"

\* A request is in the queue, on a thread, or neither, and never in two places.
EveryTaskHasOnePlace ==
  /\ \A r \in Requests :
       /\ at[r] = "queued" <=> \E i \in 1 .. Len(queue) : queue[i] = r
       /\ at[r] \in OnThread <=> r \in busy
  /\ \A i, j \in 1 .. Len(queue) : queue[i] = queue[j] => i = j
  /\ Cardinality(busy) <= PoolSize

\* Where the request of an accepted ticket can be while its row is not terminal; and a run
\* that was cut off has seen the database away.
PromiseIsPending ==
  \A r \in Requests :
    answer[r] = "202" /\ row[r] # "terminal" /\ FALSE \notin seen[r]
      => hop[r] \in {"respond", "run"} /\ at[r] \notin Idle

\* A request that is under way has seen the database as it is.
OpenEyes == \A r \in Requests : at[r] \notin Idle => store.up \in seen[r]

\* The connection is closed last.
ClosedLast == ~store.open => draining /\ \A r \in Requests : at[r] \in Idle

IInv ==
  /\ TypeOK /\ Arrived /\ EveryTaskHasOnePlace /\ LockIsHeldForOneOperation
  /\ PromiseIsPending /\ OpenEyes /\ ClosedLast /\ HealthSpeaksOfItsTime

-----------------------------------------------------------------------------
\* Each step of a request on its thread is one of three moves.

Moves(r) ==
  \E h \in Hops, a \in OnThread :
    \/ \E next \in Hops : GoesOn(r, h, a, next)
    \/ Ends(r, h, a)
    \/ \E b \in OnThread : Proceeds(r, h, a, b)

LEMMA StepsAreMoves ==
  ASSUME NEW r \in Requests, Handle(r) \/ Run(r)
  PROVE  Moves(r)
<1> USE DEF Moves, Hops, OnThread, InsideLock
<1>1. CASE Depend(r)
  BY <1>1 DEF Depend
<1>2. CASE RejectPayload(r)
  BY <1>2 DEF RejectPayload
<1>3. CASE RenderMetrics(r)
  BY <1>3 DEF RenderMetrics
<1>4. CASE Respond(r)
  BY <1>4 DEF Respond
<1>5. CASE AcquireToHandle(r)
  BY <1>5 DEF AcquireToHandle, Acquire
<1>6. CASE Create(r) \/ ReadFinds(r) \/ Probe(r)
  BY <1>6 DEF Create, ReadFinds, Probe
<1>7. CASE HandlerRaises(r) \/ ReadMisses(r)
  BY <1>7 DEF HandlerRaises, ReadMisses
<1>8. CASE StartRun(r) \/ StartFinalise(r)
  BY <1>8 DEF StartRun, StartFinalise, Acquire
<1>9. CASE ReadTicket(r) \/ Decide(r)
  BY <1>9 DEF ReadTicket, Decide
<1>10. CASE Finalise(r) \/ RunRaises(r)
  BY <1>10 DEF Finalise, RunRaises
<1> QED
  BY <1>1, <1>2, <1>3, <1>4, <1>5, <1>6, <1>7, <1>8, <1>9, <1>10 DEF Handle, Run

LEMMA MovesKeepTypes ==
  ASSUME TypeOK, NEW r \in Requests, Moves(r)
  PROVE  /\ kind' = kind
         /\ hop' \in [Requests -> Hops]
         /\ at' \in [Requests -> OnThread \union Idle \union {"queued"}]
         /\ queue' \in Seq(Requests)
         /\ busy' \in SUBSET Requests
<1> PICK h \in Hops, a \in OnThread :
      \/ \E next \in Hops : GoesOn(r, h, a, next)
      \/ Ends(r, h, a)
      \/ \E b \in OnThread : Proceeds(r, h, a, b)
  BY DEF Moves
<1>1. CASE \E next \in Hops : GoesOn(r, h, a, next)
  BY <1>1, AppendProperties DEF GoesOn, Queues, LeavesItsThread, TypeOK
<1>2. CASE Ends(r, h, a)
  BY <1>2 DEF Ends, LeavesItsThread, TypeOK, Idle
<1>3. CASE \E b \in OnThread : Proceeds(r, h, a, b)
  BY <1>3 DEF Proceeds, TypeOK
<1> QED BY <1>1, <1>2, <1>3

\* The threads and the queue are kept as EveryTaskHasOnePlace wants them.
LEMMA AppendOne ==
  ASSUME NEW q \in Seq(Requests), NEW r \in Requests,
         \A i \in 1 .. Len(q) : q[i] # r,
         \A i, j \in 1 .. Len(q) : q[i] = q[j] => i = j
  PROVE  /\ \A s \in Requests :
              (\E i \in 1 .. Len(Append(q, r)) : Append(q, r)[i] = s)
                <=> s = r \/ \E i \in 1 .. Len(q) : q[i] = s
         /\ \A i, j \in 1 .. Len(Append(q, r)) : Append(q, r)[i] = Append(q, r)[j] => i = j
<1> DEFINE new == Append(q, r)
<1>1. Len(q) \in Nat /\ Len(new) = Len(q) + 1 /\ new[Len(q) + 1] = r
  OBVIOUS
<1>2. \A i \in 1 .. Len(q) : new[i] = q[i]
  OBVIOUS
<1>3. 1 .. Len(new) = 1 .. Len(q) \union {Len(q) + 1}
  BY <1>1
<1> HIDE DEF new
<1>4. \A s \in Requests :
        (\E i \in 1 .. Len(new) : new[i] = s) <=> s = r \/ \E i \in 1 .. Len(q) : q[i] = s
  BY <1>1, <1>2, <1>3
<1>5. \A i, j \in 1 .. Len(new) : new[i] = new[j] => i = j
  BY <1>1, <1>2, <1>3
<1> QED BY <1>4, <1>5 DEF new

LEMMA DropFirst ==
  ASSUME NEW q \in Seq(Requests), q # <<>>,
         \A i, j \in 1 .. Len(q) : q[i] = q[j] => i = j
  PROVE  /\ Head(q) \in Requests /\ Tail(q) \in Seq(Requests)
         /\ \E i \in 1 .. Len(q) : q[i] = Head(q)
         /\ \A s \in Requests :
              (\E i \in 1 .. Len(Tail(q)) : Tail(q)[i] = s)
                <=> s # Head(q) /\ \E i \in 1 .. Len(q) : q[i] = s
         /\ \A i, j \in 1 .. Len(Tail(q)) : Tail(q)[i] = Tail(q)[j] => i = j
<1>1. /\ Len(q) \in Nat \ {0} /\ Head(q) = q[1] /\ Head(q) \in Requests
      /\ Tail(q) \in Seq(Requests) /\ Len(Tail(q)) = Len(q) - 1
  OBVIOUS
<1>2. \A i \in 1 .. Len(Tail(q)) : Tail(q)[i] = q[i + 1]
  BY <1>1
<1>3. ASSUME NEW s \in Requests
      PROVE  (\E i \in 1 .. Len(Tail(q)) : Tail(q)[i] = s)
               <=> s # Head(q) /\ \E i \in 1 .. Len(q) : q[i] = s
  <2>1. ASSUME NEW i \in 1 .. Len(Tail(q)), Tail(q)[i] = s
        PROVE  s # Head(q) /\ \E j \in 1 .. Len(q) : q[j] = s
    <3>1. i + 1 \in 1 .. Len(q) /\ 1 \in 1 .. Len(q) /\ q[i + 1] = s
      BY <1>1, <1>2, <2>1
    <3> QED BY <1>1, <3>1
  <2>2. ASSUME s # Head(q), NEW i \in 1 .. Len(q), q[i] = s
        PROVE  \E j \in 1 .. Len(Tail(q)) : Tail(q)[j] = s
    <3>1. i # 1 /\ i - 1 \in 1 .. Len(Tail(q))
      BY <1>1, <2>2
    <3>2. Tail(q)[i - 1] = s
      BY <1>1, <1>2, <2>2, <3>1
    <3> QED BY <3>1, <3>2
  <2> QED BY <2>1, <2>2
<1>4. ASSUME NEW i \in 1 .. Len(Tail(q)), NEW j \in 1 .. Len(Tail(q)), Tail(q)[i] = Tail(q)[j]
      PROVE  i = j
  <2>1. i + 1 \in 1 .. Len(q) /\ j + 1 \in 1 .. Len(q) /\ q[i + 1] = q[j + 1]
    BY <1>1, <1>2, <1>4
  <2> QED BY <2>1, <1>1
<1> QED BY <1>1, <1>3, <1>4

-----------------------------------------------------------------------------
\* Threads and queue.

LEMMA MovesKeepPlaces ==
  ASSUME TypeOK, Arrived, EveryTaskHasOnePlace, NEW r \in Requests, Moves(r)
  PROVE  Arrived' /\ EveryTaskHasOnePlace'
<1> PICK h \in Hops, a \in OnThread :
      \/ \E next \in Hops : GoesOn(r, h, a, next)
      \/ Ends(r, h, a)
      \/ \E b \in OnThread : Proceeds(r, h, a, b)
  BY DEF Moves
<1>1. /\ kind' = kind /\ at[r] = a /\ r \in busy
      /\ \A i \in 1 .. Len(queue) : queue[i] # r
      /\ a # "queued" /\ a \notin Idle
  BY DEF GoesOn, Ends, Proceeds, EveryTaskHasOnePlace, OnThread, InsideLock, Idle
<1>2. /\ IsFiniteSet(busy \ {r})
      /\ Cardinality(busy) \in Nat /\ Cardinality(busy \ {r}) \in Nat
      /\ Cardinality(busy \ {r}) = Cardinality(busy) - 1
  BY <1>1, FS_RemoveElement, FS_CardinalityType DEF Arrived
<1>3. PoolSize \in Nat
  BY ServiceAssumption
<1>4. CASE \E next \in Hops : GoesOn(r, h, a, next)
  <2>1. /\ at' = [at EXCEPT ![r] = "queued"]
        /\ queue' = Append(queue, r) /\ busy' = busy \ {r}
    BY <1>4 DEF GoesOn, Queues, LeavesItsThread
  <2>2. /\ \A s \in Requests :
             (\E i \in 1 .. Len(queue') : queue'[i] = s)
               <=> s = r \/ \E i \in 1 .. Len(queue) : queue[i] = s
        /\ \A i, j \in 1 .. Len(queue') : queue'[i] = queue'[j] => i = j
    BY <1>1, <2>1, AppendOne DEF TypeOK, EveryTaskHasOnePlace
  <2>3. Arrived'
    BY <1>1, <1>2, <2>1 DEF Arrived, TypeOK, Idle
  <2>4. ASSUME NEW s \in Requests
        PROVE  /\ at'[s] = "queued" <=> \E i \in 1 .. Len(queue') : queue'[i] = s
               /\ at'[s] \in OnThread <=> s \in busy'
    BY <2>1, <2>2 DEF EveryTaskHasOnePlace, TypeOK, OnThread, InsideLock
  <2>5. Cardinality(busy') <= PoolSize
    BY <1>2, <1>3, <2>1 DEF EveryTaskHasOnePlace
  <2> QED BY <2>2, <2>3, <2>4, <2>5 DEF EveryTaskHasOnePlace
<1>5. CASE Ends(r, h, a)
  <2>1. at' = [at EXCEPT ![r] = "end"] /\ queue' = queue /\ busy' = busy \ {r}
    BY <1>5 DEF Ends, LeavesItsThread
  <2>2. Arrived'
    BY <1>1, <1>2, <2>1 DEF Arrived, TypeOK, Idle
  <2>3. ASSUME NEW s \in Requests
        PROVE  /\ at'[s] = "queued" <=> \E i \in 1 .. Len(queue') : queue'[i] = s
               /\ at'[s] \in OnThread <=> s \in busy'
    BY <1>1, <2>1 DEF EveryTaskHasOnePlace, TypeOK, OnThread, InsideLock
  <2>4. Cardinality(busy') <= PoolSize
    BY <1>2, <1>3, <2>1 DEF EveryTaskHasOnePlace
  <2> QED BY <2>1, <2>2, <2>3, <2>4 DEF EveryTaskHasOnePlace
<1>6. CASE \E b \in OnThread : Proceeds(r, h, a, b)
  <2> PICK b \in OnThread : Proceeds(r, h, a, b)
    BY <1>6
  <2>1. at' = [at EXCEPT ![r] = b] /\ queue' = queue /\ busy' = busy
    BY DEF Proceeds
  <2>2. Arrived'
    BY <1>1, <2>1 DEF Arrived, TypeOK, Idle, OnThread, InsideLock
  <2>3. ASSUME NEW s \in Requests
        PROVE  /\ at'[s] = "queued" <=> \E i \in 1 .. Len(queue') : queue'[i] = s
               /\ at'[s] \in OnThread <=> s \in busy'
    BY <1>1, <2>1 DEF EveryTaskHasOnePlace, TypeOK, OnThread, InsideLock
  <2> QED BY <2>1, <2>2, <2>3 DEF EveryTaskHasOnePlace
<1> QED BY <1>4, <1>5, <1>6

LEMMA ArriveKeepsPlaces ==
  ASSUME TypeOK, Arrived, EveryTaskHasOnePlace, NEW r \in Requests, Arrive(r)
  PROVE  Arrived' /\ EveryTaskHasOnePlace'
<1>1. /\ at[r] = "away" /\ busy' = busy /\ queue' = Append(queue, r)
      /\ at' = [at EXCEPT ![r] = "queued"]
      /\ \E k \in Kinds : kind' = [kind EXCEPT ![r] = k]
  BY ServiceAssumption DEF Arrive, Arrived, Queues
<1>2. \A i \in 1 .. Len(queue) : queue[i] # r
  BY <1>1 DEF EveryTaskHasOnePlace
<1>3. /\ \A s \in Requests :
           (\E i \in 1 .. Len(queue') : queue'[i] = s)
             <=> s = r \/ \E i \in 1 .. Len(queue) : queue[i] = s
      /\ \A i, j \in 1 .. Len(queue') : queue'[i] = queue'[j] => i = j
  BY <1>1, <1>2, AppendOne DEF TypeOK, EveryTaskHasOnePlace
<1>4. Arrived'
  BY <1>1, ServiceAssumption DEF Arrived, TypeOK
<1>5. ASSUME NEW s \in Requests
      PROVE  /\ at'[s] = "queued" <=> \E i \in 1 .. Len(queue') : queue'[i] = s
             /\ at'[s] \in OnThread <=> s \in busy'
  BY <1>1, <1>3 DEF EveryTaskHasOnePlace, TypeOK, OnThread, InsideLock
<1> QED BY <1>1, <1>3, <1>4, <1>5 DEF EveryTaskHasOnePlace

LEMMA TakeThreadKeepsPlaces ==
  ASSUME TypeOK, Arrived, EveryTaskHasOnePlace, TakeThread
  PROVE  Arrived' /\ EveryTaskHasOnePlace'
<1> DEFINE r == Head(queue)
<1>1. /\ queue # <<>> /\ queue \in Seq(Requests) /\ queue' = Tail(queue)
      /\ busy' = busy \union {r} /\ at' = [at EXCEPT ![r] = "begin"]
      /\ kind' = kind /\ Cardinality(busy) < PoolSize
  BY DEF TakeThread, TypeOK
<1>2. /\ r \in Requests
      /\ \E i \in 1 .. Len(queue) : queue[i] = r
      /\ \A s \in Requests :
           (\E i \in 1 .. Len(queue') : queue'[i] = s)
             <=> s # r /\ \E i \in 1 .. Len(queue) : queue[i] = s
      /\ \A i, j \in 1 .. Len(queue') : queue'[i] = queue'[j] => i = j
  BY <1>1, DropFirst DEF EveryTaskHasOnePlace
<1>3. at[r] = "queued"
  BY <1>2 DEF EveryTaskHasOnePlace
<1> HIDE DEF r
<1>4. r \notin busy
  BY <1>2, <1>3 DEF EveryTaskHasOnePlace, OnThread, InsideLock
<1>5. /\ IsFiniteSet(busy') /\ Cardinality(busy) \in Nat
      /\ Cardinality(busy') = Cardinality(busy) + 1
  BY <1>1, <1>4, FS_AddElement, FS_CardinalityType DEF Arrived
<1>6. Arrived'
  BY <1>1, <1>2, <1>3, <1>5 DEF Arrived, TypeOK
<1>7. ASSUME NEW s \in Requests
      PROVE  /\ at'[s] = "queued" <=> \E i \in 1 .. Len(queue') : queue'[i] = s
             /\ at'[s] \in OnThread <=> s \in busy'
  BY <1>1, <1>2, <1>3 DEF EveryTaskHasOnePlace, TypeOK, OnThread, InsideLock
<1>8. Cardinality(busy') <= PoolSize
  BY <1>1, <1>5, ServiceAssumption
<1> QED BY <1>2, <1>6, <1>7, <1>8 DEF EveryTaskHasOnePlace

-----------------------------------------------------------------------------
\* What a step of a request does to the repository, to its answer and to its row.

LEMMA StepKeepsTypes ==
  ASSUME TypeOK, NEW r \in Requests, Handle(r) \/ Run(r)
  PROVE  TypeOK'
<1>1. /\ kind' = kind
      /\ hop' \in [Requests -> Hops]
      /\ at' \in [Requests -> OnThread \union Idle \union {"queued"}]
      /\ queue' \in Seq(Requests)
      /\ busy' \in SUBSET Requests
  BY StepsAreMoves, MovesKeepTypes
<1>2. store' = store /\ draining' = draining /\ seen' = seen
  BY DEF Handle, Run, Depend, RejectPayload, RenderMetrics, Respond, AcquireToHandle, Acquire,
         Create, HandlerRaises, ReadFinds, ReadMisses, Probe, StartRun, ReadTicket, Decide,
         StartFinalise, Finalise, RunRaises
<1>3. lock' \in {lock, r, None}
  BY DEF Handle, Run, Depend, RejectPayload, RenderMetrics, Respond, AcquireToHandle, Acquire,
         Create, HandlerRaises, ReadFinds, ReadMisses, Probe, StartRun, ReadTicket, Decide,
         StartFinalise, Finalise, RunRaises, Release
<1>4. row' = row \/ \E s \in {"processing", "terminal"} : row' = [row EXCEPT ![r] = s]
  BY DEF Handle, Run, Depend, RejectPayload, RenderMetrics, Respond, AcquireToHandle, Acquire,
         Create, HandlerRaises, ReadFinds, ReadMisses, Probe, StartRun, ReadTicket, Decide,
         StartFinalise, Finalise, RunRaises
<1>5. \/ answer' = answer
      \/ \E k \in Kinds : \E a \in AnswersTo[k] : kind[r] = k /\ answer' = [answer EXCEPT ![r] = a]
  <2> USE DEF Kinds, AnswersTo, Says
  <2>1. CASE Depend(r) \/ Respond(r) \/ AcquireToHandle(r) \/ Run(r)
    BY <2>1 DEF Depend, Respond, AcquireToHandle, Acquire, Run, StartRun, ReadTicket, Decide,
                StartFinalise, Finalise, RunRaises
  <2>2. CASE RejectPayload(r) \/ RenderMetrics(r)
    BY <2>2 DEF RejectPayload, RenderMetrics
  <2>3. CASE Create(r) \/ HandlerRaises(r)
    BY <2>3 DEF Create, HandlerRaises
  <2>4. CASE ReadFinds(r) \/ ReadMisses(r)
    BY <2>4 DEF ReadFinds, ReadMisses
  <2>5. CASE Probe(r)
    BY <2>5 DEF Probe
  <2> QED BY <2>1, <2>2, <2>3, <2>4, <2>5 DEF Handle
<1>6. /\ answer' \in [Requests -> Answers \union {None}]
      /\ \A s \in Requests :
           answer'[s] # None => kind'[s] # None /\ answer'[s] \in AnswersTo[kind'[s]]
  <2>1. CASE answer' = answer
    BY <1>1, <2>1 DEF TypeOK
  <2>2. ASSUME NEW k \in Kinds, NEW a \in AnswersTo[k], kind[r] = k,
               answer' = [answer EXCEPT ![r] = a]
        PROVE  <1>6!1 /\ <1>6!2
    BY <1>1, <2>2, ServiceAssumption DEF TypeOK, Answers
  <2> QED BY <1>5, <2>1, <2>2
<1>7. row' \in [Requests -> {"absent", "processing", "terminal"}]
  BY <1>4 DEF TypeOK
<1> QED BY <1>1, <1>2, <1>3, <1>6, <1>7 DEF TypeOK

\* Whoever gets inside takes the lock, whoever leaves gives it back.
LEMMA StepKeepsTheLock ==
  ASSUME TypeOK, LockIsHeldForOneOperation, NEW r \in Requests, Handle(r) \/ Run(r)
  PROVE  LockIsHeldForOneOperation'
<1> USE ServiceAssumption DEF LockIsHeldForOneOperation, TypeOK, InsideLock, GoesOn, Ends, Proceeds
<1>1. CASE Depend(r) \/ RejectPayload(r) \/ RenderMetrics(r) \/ Respond(r)
  BY <1>1 DEF Depend, RejectPayload, RenderMetrics, Respond
<1>2. CASE AcquireToHandle(r) \/ StartRun(r) \/ StartFinalise(r)
  BY <1>2 DEF AcquireToHandle, StartRun, StartFinalise, Acquire
<1>3. CASE Create(r) \/ HandlerRaises(r) \/ ReadFinds(r) \/ ReadMisses(r) \/ Probe(r)
  BY <1>3 DEF Create, HandlerRaises, ReadFinds, ReadMisses, Probe, Release
<1>4. CASE ReadTicket(r) \/ Finalise(r) \/ RunRaises(r)
  BY <1>4 DEF ReadTicket, Finalise, RunRaises, Release
<1>5. CASE Decide(r)
  BY <1>5 DEF Decide
<1> QED BY <1>1, <1>2, <1>3, <1>4, <1>5 DEF Handle, Run

\* A promise is kept, pending, or broken by a database that was away.
LEMMA StepKeepsPromises ==
  ASSUME TypeOK, OpenEyes, ClosedLast, PromiseIsPending, NEW r \in Requests, Handle(r) \/ Run(r)
  PROVE  PromiseIsPending'
<1> USE DEF PromiseIsPending, TypeOK, Idle, GoesOn, Ends, Proceeds, Says
<1>1. kind[r] # "post" => answer[r] # "202"
  <2>1. answer[r] = "202" => answer[r] # None /\ kind[r] \in Kinds /\ "202" \in AnswersTo[kind[r]]
    BY ServiceAssumption DEF Answers, AnswersTo, Kinds
  <2>2. \A k \in Kinds : "202" \in AnswersTo[k] => k = "post"
    BY DEF AnswersTo, Kinds
  <2> QED BY <2>1, <2>2
<1>2. CASE Depend(r) \/ RejectPayload(r) \/ RenderMetrics(r)
  <2>1. CASE Depend(r)
    BY <2>1 DEF Depend
  <2>2. CASE RejectPayload(r)
    BY <2>2 DEF RejectPayload
  <2>3. CASE RenderMetrics(r)
    BY <2>3 DEF RenderMetrics
  <2> QED BY <1>2, <2>1, <2>2, <2>3
<1>3. CASE Respond(r)
  <2>1. CASE kind[r] = "post"
    BY <1>3, <2>1 DEF Respond
  <2>2. CASE kind[r] # "post"
    BY <1>1, <1>3, <2>2 DEF Respond
  <2> QED BY <2>1, <2>2
<1>4. CASE AcquireToHandle(r) \/ StartRun(r) \/ StartFinalise(r)
  BY <1>4 DEF AcquireToHandle, StartRun, StartFinalise, Acquire
<1>5. CASE Create(r)
  BY <1>5 DEF Create
<1>6. CASE HandlerRaises(r) \/ ReadMisses(r) \/ ReadFinds(r) \/ Probe(r)
  <2>1. CASE HandlerRaises(r)
    BY <2>1 DEF HandlerRaises
  <2>2. CASE ReadMisses(r)
    BY <2>2 DEF ReadMisses
  <2>3. CASE ReadFinds(r)
    BY <2>3 DEF ReadFinds
  <2>4. CASE Probe(r)
    BY <2>4 DEF Probe
  <2> QED BY <1>6, <2>1, <2>2, <2>3, <2>4
<1>7. CASE ReadTicket(r) \/ Decide(r)
  BY <1>7 DEF ReadTicket, Decide
<1>8. CASE Finalise(r)
  BY <1>8 DEF Finalise
<1>9. CASE RunRaises(r)
  <2>1. at[r] \notin Idle /\ ~Works
    BY <1>9 DEF RunRaises
  <2>2. FALSE \in seen[r]
    BY <2>1 DEF ClosedLast, OpenEyes, Works
  <2> QED BY <1>9, <2>2 DEF RunRaises
<1> QED
  BY <1>2, <1>3, <1>4, <1>5, <1>6, <1>7, <1>8, <1>9 DEF Handle, Run

LEMMA StepKeepsTheRest ==
  ASSUME TypeOK, OpenEyes, ClosedLast, HealthSpeaksOfItsTime, NEW r \in Requests,
         Handle(r) \/ Run(r)
  PROVE  OpenEyes' /\ ClosedLast' /\ HealthSpeaksOfItsTime'
<1>1. PICK h \in Hops, a \in OnThread :
        \/ \E next \in Hops : GoesOn(r, h, a, next)
        \/ Ends(r, h, a)
        \/ \E b \in OnThread : Proceeds(r, h, a, b)
  BY StepsAreMoves DEF Moves
<1>2. /\ at[r] \notin Idle
      /\ \A s \in Requests : s # r => at'[s] = at[s]
  BY <1>1 DEF GoesOn, Ends, Proceeds, TypeOK, OnThread, InsideLock, Idle
<1>3. store' = store /\ draining' = draining /\ seen' = seen
  BY DEF Handle, Run, Depend, RejectPayload, RenderMetrics, Respond, AcquireToHandle, Acquire,
         Create, HandlerRaises, ReadFinds, ReadMisses, Probe, StartRun, ReadTicket, Decide,
         StartFinalise, Finalise, RunRaises
<1>4. store.open /\ store.up \in seen[r]
  BY <1>2 DEF ClosedLast, OpenEyes
<1>5. \/ \A s \in Requests : answer'[s] = answer[s]
      \/ \E v \in Answers \ {"ok", "unavailable"} : answer' = [answer EXCEPT ![r] = v]
      \/ answer' = [answer EXCEPT ![r] = IF Works THEN "ok" ELSE "unavailable"]
  BY DEF Answers, AnswersTo, Kinds, Says,
         Handle, Run, Depend, RejectPayload, RenderMetrics, Respond, AcquireToHandle, Acquire,
         Create, HandlerRaises, ReadFinds, ReadMisses, Probe, StartRun, ReadTicket, Decide,
         StartFinalise, Finalise, RunRaises
<1>6. HealthSpeaksOfItsTime'
  BY <1>3, <1>4, <1>5 DEF HealthSpeaksOfItsTime, Works, TypeOK
<1>7. OpenEyes' /\ ClosedLast'
  BY <1>2, <1>3, <1>4 DEF OpenEyes, ClosedLast
<1> QED BY <1>6, <1>7

-----------------------------------------------------------------------------
\* The invariant is inductive.

LEMMA NoneIsNoAnswer == None \notin {"202", "ok", "unavailable"}
<1>1. {"202", "ok", "unavailable"} \subseteq Answers
  BY DEF Answers, AnswersTo, Kinds
<1> QED BY <1>1, ServiceAssumption

LEMMA InitHolds == Init => IInv
<1> SUFFICES ASSUME Init PROVE IInv
  OBVIOUS
<1> USE DEF Init
<1>1. TypeOK
  <2>1. store \in [open : BOOLEAN, up : BOOLEAN, outages : 0 .. MaxOutages]
    BY ServiceAssumption
  <2>2. queue \in Seq(Requests)
    OBVIOUS
  <2>3. /\ kind \in [Requests -> Kinds \union {None}]
        /\ hop \in [Requests -> Hops]
        /\ at \in [Requests -> OnThread \union Idle \union {"queued"}]
        /\ row \in [Requests -> {"absent", "processing", "terminal"}]
        /\ seen \in [Requests -> SUBSET BOOLEAN]
    BY DEF Hops, Idle
  <2> QED BY <2>1, <2>2, <2>3 DEF TypeOK
<1>2. Arrived /\ EveryTaskHasOnePlace
  <2>1. IsFiniteSet(busy) /\ Cardinality(busy) = 0 /\ PoolSize \in Nat
    BY FS_EmptySet, ServiceAssumption
  <2>2. Len(queue) = 0
    OBVIOUS
  <2> QED BY <2>1, <2>2 DEF Arrived, EveryTaskHasOnePlace, OnThread, InsideLock
<1>3. LockIsHeldForOneOperation
  BY ServiceAssumption DEF LockIsHeldForOneOperation, InsideLock
<1>4. PromiseIsPending /\ HealthSpeaksOfItsTime
  BY NoneIsNoAnswer DEF PromiseIsPending, HealthSpeaksOfItsTime
<1>5. OpenEyes /\ ClosedLast
  BY DEF OpenEyes, ClosedLast, Idle
<1> QED BY <1>1, <1>2, <1>3, <1>4, <1>5 DEF IInv

LEMMA ArriveHolds ==
  ASSUME IInv, NEW r \in Requests, Arrive(r)
  PROVE  IInv'
<1> USE DEF IInv
<1>1. PICK k \in Kinds : kind' = [kind EXCEPT ![r] = k]
  BY ServiceAssumption DEF Arrive
<1>2. /\ kind[r] = None /\ answer[r] = None /\ at[r] = "away"
      /\ at' = [at EXCEPT ![r] = "queued"] /\ seen' = [seen EXCEPT ![r] = {store.up}]
      /\ queue' = Append(queue, r) /\ ~draining
      /\ UNCHANGED <<hop, busy, lock, answer, row, store, draining>>
  BY DEF Arrive, Arrived, Queues, TypeOK
<1>3. TypeOK'
  <2>1. queue' \in Seq(Requests)
    BY <1>2 DEF TypeOK
  <2>2. seen' \in [Requests -> SUBSET BOOLEAN]
    BY <1>2 DEF TypeOK
  <2> QED BY <1>1, <1>2, <2>1, <2>2 DEF TypeOK
<1>4. Arrived' /\ EveryTaskHasOnePlace'
  BY ArriveKeepsPlaces
<1>5. LockIsHeldForOneOperation'
  BY <1>2 DEF LockIsHeldForOneOperation, TypeOK, InsideLock
<1>6. PromiseIsPending' /\ HealthSpeaksOfItsTime'
  BY <1>2, NoneIsNoAnswer DEF PromiseIsPending, HealthSpeaksOfItsTime, TypeOK, Idle
<1>7. OpenEyes' /\ ClosedLast'
  BY <1>2 DEF OpenEyes, ClosedLast, TypeOK
<1> QED BY <1>3, <1>4, <1>5, <1>6, <1>7

LEMMA TakeThreadHolds ==
  ASSUME IInv, TakeThread
  PROVE  IInv'
<1> USE DEF IInv
<1> DEFINE r == Head(queue)
<1>1. /\ r \in Requests /\ Tail(queue) \in Seq(Requests)
      /\ \E i \in 1 .. Len(queue) : queue[i] = r
  BY DropFirst DEF TakeThread, TypeOK, EveryTaskHasOnePlace
<1>2. at[r] = "queued"
  BY <1>1 DEF EveryTaskHasOnePlace
<1>3. /\ busy' = busy \union {r} /\ at' = [at EXCEPT ![r] = "begin"] /\ queue' = Tail(queue)
      /\ UNCHANGED <<kind, hop, lock, answer, row, store, draining, seen>>
  BY DEF TakeThread
<1> HIDE DEF r
<1>4. TypeOK'
  BY <1>1, <1>3 DEF TypeOK, OnThread
<1>5. Arrived' /\ EveryTaskHasOnePlace'
  BY TakeThreadKeepsPlaces
<1>6. LockIsHeldForOneOperation'
  BY <1>1, <1>2, <1>3 DEF LockIsHeldForOneOperation, TypeOK, InsideLock
<1>7. PromiseIsPending' /\ HealthSpeaksOfItsTime'
  BY <1>1, <1>2, <1>3 DEF PromiseIsPending, HealthSpeaksOfItsTime, TypeOK, Idle
<1>8. OpenEyes' /\ ClosedLast'
  BY <1>1, <1>2, <1>3 DEF OpenEyes, ClosedLast, TypeOK, Idle
<1> QED BY <1>4, <1>5, <1>6, <1>7, <1>8

\* The database goes or comes back: whoever is under way sees both states.
LEMMA WeatherHolds ==
  ASSUME IInv, Outage \/ Recovery
  PROVE  IInv'
<1> USE DEF IInv
<1>1. PICK up \in BOOLEAN :
        /\ store' \in [open : BOOLEAN, up : BOOLEAN, outages : 0 .. MaxOutages]
        /\ store'.up = up /\ store'.open = store.open
        /\ Witness(up)
  <2>1. /\ store \in [open : BOOLEAN, up : BOOLEAN, outages : 0 .. MaxOutages]
        /\ MaxOutages \in Nat
    BY ServiceAssumption DEF TypeOK
  <2>2. CASE Outage
    <3>1. store.outages < MaxOutages /\ Witness(FALSE)
      BY <2>2 DEF Outage
    <3>2. store' = [store EXCEPT !.up = FALSE, !.outages = @ + 1]
      BY <2>2 DEF Outage
    <3>3. /\ store' \in [open : BOOLEAN, up : BOOLEAN, outages : 0 .. MaxOutages]
          /\ store'.up = FALSE /\ store'.open = store.open
      <4>1. store.outages + 1 \in 0 .. MaxOutages /\ store.open \in BOOLEAN
        BY <2>1, <3>1
      <4>2. store' = [open |-> store.open, up |-> FALSE, outages |-> store.outages + 1]
        BY <2>1, <3>2
      <4> QED BY <4>1, <4>2
    <3> QED BY <3>1, <3>3
  <2>3. CASE Recovery
    <3>1. store' = [store EXCEPT !.up = TRUE] /\ Witness(TRUE)
      BY <2>3 DEF Recovery
    <3>2. /\ store' \in [open : BOOLEAN, up : BOOLEAN, outages : 0 .. MaxOutages]
          /\ store'.up = TRUE /\ store'.open = store.open
      BY <2>1, <3>1
    <3> QED BY <3>1, <3>2
  <2> QED BY <2>2, <2>3
<1>2. UNCHANGED <<kind, hop, at, queue, busy, lock, answer, row, draining>>
  BY DEF Outage, Recovery, tasks
<1>3. seen' = [s \in Requests |-> IF at[s] \in Idle THEN seen[s] ELSE seen[s] \union {up}]
  BY <1>1 DEF Witness
<1>4. seen' \in [Requests -> SUBSET BOOLEAN]
  BY <1>3 DEF TypeOK
<1>5. TypeOK'
  BY <1>1, <1>2, <1>4 DEF TypeOK
<1>6. Arrived' /\ EveryTaskHasOnePlace'
  BY <1>2 DEF Arrived, EveryTaskHasOnePlace
<1>7. LockIsHeldForOneOperation'
  BY <1>2 DEF LockIsHeldForOneOperation
<1>8. PromiseIsPending'
  BY <1>2, <1>3 DEF PromiseIsPending
<1>9. HealthSpeaksOfItsTime'
  <2> SUFFICES ASSUME NEW s \in Requests
               PROVE  /\ answer[s] = "ok" => TRUE \in seen'[s]
                      /\ answer[s] = "unavailable" => FALSE \in seen'[s]
    BY <1>2 DEF HealthSpeaksOfItsTime
  <2>1. seen[s] \subseteq seen'[s]
    BY <1>3
  <2> QED BY <2>1 DEF HealthSpeaksOfItsTime
<1>10. OpenEyes' /\ ClosedLast'
  BY <1>1, <1>2, <1>3 DEF OpenEyes, ClosedLast
<1> QED BY <1>5, <1>6, <1>7, <1>8, <1>9, <1>10

LEMMA StopAndCloseHold ==
  ASSUME IInv, Stop \/ Close
  PROVE  IInv'
<1> USE DEF IInv
<1>1. UNCHANGED <<kind, hop, at, queue, busy, lock, answer, row, seen>>
  BY DEF Stop, Close, tasks
<1>2. draining' /\ draining' \in BOOLEAN
  BY DEF Stop, Close, TypeOK
<1>3. /\ store' \in [open : BOOLEAN, up : BOOLEAN, outages : 0 .. MaxOutages]
      /\ store'.up = store.up
      /\ store'.open # store.open => \A s \in Requests : at[s] \in Idle
  BY DEF Stop, Close, TypeOK
<1>4. TypeOK'
  BY <1>1, <1>2, <1>3 DEF TypeOK
<1>5. Arrived' /\ EveryTaskHasOnePlace'
  BY <1>1 DEF Arrived, EveryTaskHasOnePlace
<1>6. LockIsHeldForOneOperation'
  BY <1>1 DEF LockIsHeldForOneOperation
<1>7. PromiseIsPending' /\ HealthSpeaksOfItsTime'
  BY <1>1 DEF PromiseIsPending, HealthSpeaksOfItsTime
<1>8. OpenEyes' /\ ClosedLast'
  BY <1>1, <1>2, <1>3 DEF OpenEyes, ClosedLast
<1> QED BY <1>4, <1>5, <1>6, <1>7, <1>8

LEMMA Inductive == IInv /\ [Next]_vars => IInv'
<1> SUFFICES ASSUME IInv, [Next]_vars PROVE IInv'
  OBVIOUS
<1>1. ASSUME NEW r \in Requests, Handle(r) \/ Run(r)
      PROVE  IInv'
  BY <1>1, StepsAreMoves, StepKeepsTypes, MovesKeepPlaces, StepKeepsTheLock, StepKeepsPromises,
     StepKeepsTheRest DEF IInv
<1>2. ASSUME NEW r \in Requests, Arrive(r)
      PROVE  IInv'
  BY <1>2, ArriveHolds
<1>3. CASE TakeThread
  BY <1>3, TakeThreadHolds
<1>4. CASE Outage \/ Recovery
  BY <1>4, WeatherHolds
<1>5. CASE Stop \/ Close
  BY <1>5, StopAndCloseHold
<1>6. CASE UNCHANGED vars
  <2> USE <1>6 DEF vars, IInv
  <2>1. TypeOK'
    BY DEF TypeOK
  <2>2. Arrived' /\ EveryTaskHasOnePlace'
    BY DEF Arrived, EveryTaskHasOnePlace
  <2>3. LockIsHeldForOneOperation' /\ PromiseIsPending'
    BY DEF LockIsHeldForOneOperation, PromiseIsPending
  <2>4. OpenEyes' /\ ClosedLast' /\ HealthSpeaksOfItsTime'
    BY DEF OpenEyes, ClosedLast, HealthSpeaksOfItsTime
  <2> QED BY <2>1, <2>2, <2>3, <2>4
<1> QED BY <1>1, <1>2, <1>3, <1>4, <1>5, <1>6 DEF Next

LEMMA Invariant == Spec => []IInv
BY InitHolds, Inductive, PTL DEF Spec

-----------------------------------------------------------------------------
\* The variables of the service keep their types.
THEOREM ServiceTypeCorrect == Spec => []TypeOK
<1>1. IInv => TypeOK
  BY DEF IInv
<1> QED BY <1>1, Invariant, PTL

\* The repository's lock is held by a call that is inside it, and by no other.
THEOREM LockAlwaysHeldForOneOperation == Spec => []LockIsHeldForOneOperation
<1>1. IInv => LockIsHeldForOneOperation
  BY DEF IInv
<1> QED BY <1>1, Invariant, PTL

\* A server that is left to drain has settled every ticket it accepted and could store.
THEOREM StopNeverLosesAcceptedTickets == Spec => []StopLosesNoAcceptedTicket
<1>1. IInv => StopLosesNoAcceptedTicket
  BY DEF IInv, PromiseIsPending, ClosedLast, StopLosesNoAcceptedTicket
<1> QED BY <1>1, Invariant, PTL

\* A health check is about the time it took.
THEOREM HealthAlwaysSpeaksOfItsTime == Spec => []HealthSpeaksOfItsTime
<1>1. IInv => HealthSpeaksOfItsTime
  BY DEF IInv
<1> QED BY <1>1, Invariant, PTL
=============================================================================
