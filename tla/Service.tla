------------------------------- MODULE Service -------------------------------
(***************************************************************************)
(* The running service: requests, health checks and pipeline runs on one   *)
(* pool of worker threads, one repository behind one lock, and the         *)
(* lifespan that closes the connection.                                    *)
(*                                                                         *)
(* Every handler and every dependency (api/routes.py, api/ops.py,          *)
(* api/dependencies.py) and run_pipeline itself is a plain `def`, so the   *)
(* framework makes each of those calls on a thread of the pool, one after  *)
(* another for one request: its hops.  Between two hops a request holds no *)
(* thread and waits at the end of the queue.  The run is the last hop of   *)
(* the POST that scheduled it, after its answer is on the way.             *)
(***************************************************************************)
EXTENDS Naturals, Sequences, FiniteSets

CONSTANTS
  Requests,       \* the requests clients may make
  Wants,          \* Wants[r]: what request r may be for
  PoolSize,       \* how many threads there are
  None,
  MaxOutages      \* bound on the times the database goes away

Kinds == {"post", "invalid", "get", "health", "metrics"}

\* What each endpoint may come to.
AnswersTo ==
  [post |-> {"202", "500"}, invalid |-> {"422"}, get |-> {"200", "404", "500"},
   health |-> {"ok", "unavailable"}, metrics |-> {"200"}]

Answers == UNION { AnswersTo[k] : k \in Kinds }

ASSUME ServiceAssumption ==
  /\ None \notin Requests \union Kinds \union Answers
  /\ Wants \in [Requests -> SUBSET Kinds]
  /\ PoolSize \in Nat \ {0}
  /\ MaxOutages \in Nat

VARIABLES
  kind,     \* kind[r]: what r asks for, or None before it arrives
  hop,      \* hop[r]: the call r is at
  at,       \* at[r]: how far that call is
  queue,    \* the requests waiting for a thread, first come first served
  busy,     \* the requests whose call has a thread
  lock,     \* the request inside the repository
  answer,   \* answer[r]: what its handler has come to
  row,      \* row[r]: the ticket r created
  store,    \* whether the connection is open and the database behind it answers
  draining, \* the server has been told to stop
  seen      \* history, seen[r]: the states the database was in while r was open

tasks == <<kind, hop, at, queue, busy>>
vars == <<kind, hop, at, queue, busy, lock, answer, row, store, draining, seen>>

Hops == {"depend", "handle", "respond", "run"}
InsideLock == {"inside", "writing"}
OnThread == {"begin", "model", "decided"} \union InsideLock
Idle == {"away", "end"}

TypeOK ==
  /\ kind \in [Requests -> Kinds \union {None}]
  /\ hop \in [Requests -> Hops]
  /\ at \in [Requests -> OnThread \union Idle \union {"queued"}]
  /\ queue \in Seq(Requests)
  /\ busy \in SUBSET Requests
  /\ lock \in Requests \union {None}
  /\ answer \in [Requests -> Answers \union {None}]
  /\ \A r \in Requests : answer[r] # None => kind[r] # None /\ answer[r] \in AnswersTo[kind[r]]
  /\ row \in [Requests -> {"absent", "processing", "terminal"}]
  /\ store \in [open : BOOLEAN, up : BOOLEAN, outages : 0 .. MaxOutages]
  /\ draining \in BOOLEAN
  /\ seen \in [Requests -> SUBSET BOOLEAN]

\* The lifespan has opened the connection and handed it out.
Init ==
  /\ kind = [r \in Requests |-> None]
  /\ hop = [r \in Requests |-> "depend"]
  /\ at = [r \in Requests |-> "away"]
  /\ queue = <<>>
  /\ busy = {}
  /\ lock = None
  /\ answer = [r \in Requests |-> None]
  /\ row = [r \in Requests |-> "absent"]
  /\ store = [open |-> TRUE, up |-> TRUE, outages |-> 0]
  /\ draining = FALSE
  /\ seen = [r \in Requests |-> {}]

-----------------------------------------------------------------------------
\* The pool and the queue before it.

Queues(r) == queue' = Append(queue, r)

LeavesItsThread(r) == busy' = busy \ {r}

\* The call at hop h, step a, is over: another hop follows, or none.
GoesOn(r, h, a, next) ==
  /\ hop[r] = h /\ at[r] = a
  /\ hop' = [hop EXCEPT ![r] = next]
  /\ at' = [at EXCEPT ![r] = "queued"]
  /\ Queues(r)
  /\ LeavesItsThread(r)
  /\ UNCHANGED kind

Ends(r, h, a) ==
  /\ hop[r] = h /\ at[r] = a
  /\ at' = [at EXCEPT ![r] = "end"]
  /\ LeavesItsThread(r)
  /\ UNCHANGED <<kind, hop, queue>>

\* The call keeps its thread.
Proceeds(r, h, a, b) ==
  /\ hop[r] = h /\ at[r] = a
  /\ at' = [at EXCEPT ![r] = b]
  /\ UNCHANGED <<kind, hop, queue, busy>>

Says(r, a) == answer' = [answer EXCEPT ![r] = a]

Arrive(r) ==
  /\ kind[r] = None
  /\ ~draining
  /\ \E k \in Wants[r] : kind' = [kind EXCEPT ![r] = k]
  /\ at' = [at EXCEPT ![r] = "queued"]
  /\ Queues(r)
  /\ seen' = [seen EXCEPT ![r] = {store.up}]
  /\ UNCHANGED <<hop, busy, lock, answer, row, store, draining>>

TakeThread ==
  /\ Cardinality(busy) < PoolSize
  /\ queue # <<>>
  /\ busy' = busy \union {Head(queue)}
  /\ at' = [at EXCEPT ![Head(queue)] = "begin"]
  /\ queue' = Tail(queue)
  /\ UNCHANGED <<kind, hop, lock, answer, row, store, draining, seen>>

-----------------------------------------------------------------------------
\* Hops that touch nothing shared: dependencies, the scrape, serialising the answer.

Depend(r) ==
  /\ kind[r] # "invalid"
  /\ GoesOn(r, "depend", "begin", "handle")
  /\ UNCHANGED <<lock, answer, row, store, draining, seen>>

RejectPayload(r) ==
  /\ kind[r] = "invalid"
  /\ Ends(r, "depend", "begin")
  /\ Says(r, "422")
  /\ UNCHANGED <<lock, row, store, draining, seen>>

RenderMetrics(r) ==
  /\ kind[r] = "metrics"
  /\ Ends(r, "handle", "begin")
  /\ Says(r, "200")
  /\ UNCHANGED <<lock, row, store, draining, seen>>

\* Bug: the request keeps its thread while its run waits for one.
RespondAndWait(r) ==
  /\ hop[r] = "respond" /\ at[r] = "begin"
  /\ IF kind[r] = "post"
     THEN /\ hop' = [hop EXCEPT ![r] = "run"]
          /\ at' = [at EXCEPT ![r] = "queued"]
          /\ Queues(r)
          /\ UNCHANGED <<kind, busy>>
     ELSE Ends(r, "respond", "begin")
  /\ UNCHANGED <<lock, answer, row, store, draining, seen>>

Respond(r) ==
  /\ IF kind[r] = "post"
     THEN GoesOn(r, "respond", "begin", "run")
     ELSE Ends(r, "respond", "begin")
  /\ UNCHANGED <<lock, answer, row, store, draining, seen>>

-----------------------------------------------------------------------------
\* The repository, one call at a time.

Works == store.open /\ store.up

Acquire(r, h, a, b) ==
  /\ lock = None
  /\ lock' = r
  /\ Proceeds(r, h, a, b)
  /\ UNCHANGED <<answer, row, store, draining, seen>>

AcquireToHandle(r) == kind[r] # "metrics" /\ Acquire(r, "handle", "begin", "inside")

Release(r) == lock = r /\ lock' = None

Create(r) ==
  /\ kind[r] = "post" /\ Works
  /\ GoesOn(r, "handle", "inside", "respond")
  /\ row' = [row EXCEPT ![r] = "processing"]
  /\ Says(r, "202")
  /\ Release(r)
  /\ UNCHANGED <<store, draining, seen>>

\* What the repository raises is the framework's 500: no row, and no run.
HandlerRaises(r) ==
  /\ kind[r] \in {"post", "get"} /\ ~Works
  /\ Ends(r, "handle", "inside")
  /\ Says(r, "500")
  /\ Release(r)
  /\ UNCHANGED <<row, store, draining, seen>>

ReadFinds(r) ==
  /\ kind[r] = "get" /\ Works
  /\ \E s \in Requests : row[s] # "absent"
  /\ GoesOn(r, "handle", "inside", "respond")
  /\ Says(r, "200")
  /\ Release(r)
  /\ UNCHANGED <<row, store, draining, seen>>

ReadMisses(r) ==
  /\ kind[r] = "get" /\ Works
  /\ Ends(r, "handle", "inside")
  /\ Says(r, "404")
  /\ Release(r)
  /\ UNCHANGED <<row, store, draining, seen>>

\* Bugs: an exception of the repository gets past the check; a check that only proves the
\* process is running.
ProbeRaises(r) ==
  /\ kind[r] = "health"
  /\ GoesOn(r, "handle", "inside", "respond")
  /\ Says(r, IF Works THEN "ok" ELSE "500")
  /\ Release(r)
  /\ UNCHANGED <<row, store, draining, seen>>

ProbeNothing(r) ==
  /\ kind[r] = "health"
  /\ GoesOn(r, "handle", "inside", "respond")
  /\ Says(r, "ok")
  /\ Release(r)
  /\ UNCHANGED <<row, store, draining, seen>>

Probe(r) ==
  /\ kind[r] = "health"
  /\ GoesOn(r, "handle", "inside", "respond")
  /\ Says(r, IF Works THEN "ok" ELSE "unavailable")
  /\ Release(r)
  /\ UNCHANGED <<row, store, draining, seen>>

-----------------------------------------------------------------------------
\* The run: a read, the model's a write.

StartRun(r) == Acquire(r, "run", "begin", "inside")

\* Bug: the run keeps the repository to itself.
ReadTicketKeepingTheLock(r) ==
  /\ Works /\ lock = r
  /\ Proceeds(r, "run", "inside", "model")
  /\ UNCHANGED <<lock, answer, row, store, draining, seen>>

ReadTicket(r) ==
  /\ Works
  /\ Proceeds(r, "run", "inside", "model")
  /\ Release(r)
  /\ UNCHANGED <<answer, row, store, draining, seen>>

\* The loop and the grounding: no lock, and as long as the model's calls take.
Decide(r) ==
  /\ Proceeds(r, "run", "model", "decided")
  /\ UNCHANGED <<lock, answer, row, store, draining, seen>>

StartFinalise(r) == Acquire(r, "run", "decided", "writing")

Finalise(r) ==
  /\ Works
  /\ Ends(r, "run", "writing")
  /\ row' = [row EXCEPT ![r] = "terminal"]
  /\ Release(r)
  /\ UNCHANGED <<answer, store, draining, seen>>

\* Either call may raise, outside every handler of the run: its task ends, the row stays.
RunRaises(r) ==
  /\ ~Works
  /\ Ends(r, "run", "inside") \/ Ends(r, "run", "writing")
  /\ Release(r)
  /\ UNCHANGED <<answer, row, store, draining, seen>>

-----------------------------------------------------------------------------
\* The database comes and goes; the server drains its tasks, then leaves the lifespan.

Witness(up) ==
  seen' = [r \in Requests |-> IF at[r] \in Idle THEN seen[r] ELSE seen[r] \union {up}]

Outage ==
  /\ store.up
  /\ store.outages < MaxOutages
  /\ store' = [store EXCEPT !.up = FALSE, !.outages = @ + 1]
  /\ Witness(FALSE)
  /\ UNCHANGED <<tasks, lock, answer, row, draining>>

Recovery ==
  /\ ~store.up
  /\ store' = [store EXCEPT !.up = TRUE]
  /\ Witness(TRUE)
  /\ UNCHANGED <<tasks, lock, answer, row, draining>>

Stop ==
  /\ ~draining
  /\ draining' = TRUE
  /\ UNCHANGED <<tasks, lock, answer, row, store, seen>>

Answered(r) == at[r] \in Idle \/ hop[r] = "run"

\* Bug: the connection is closed once every client has its answer.
CloseOnceAnswered ==
  /\ draining /\ store.open
  /\ \A r \in Requests : Answered(r)
  /\ store' = [store EXCEPT !.open = FALSE]
  /\ UNCHANGED <<tasks, lock, answer, row, draining, seen>>

Close ==
  /\ draining /\ store.open
  /\ \A r \in Requests : at[r] \in Idle
  /\ store' = [store EXCEPT !.open = FALSE]
  /\ UNCHANGED <<tasks, lock, answer, row, draining, seen>>

-----------------------------------------------------------------------------
Handle(r) ==
  \/ Depend(r) \/ RejectPayload(r) \/ RenderMetrics(r) \/ Respond(r)
  \/ AcquireToHandle(r) \/ Create(r) \/ HandlerRaises(r)
  \/ ReadFinds(r) \/ ReadMisses(r) \/ Probe(r)

Run(r) ==
  \/ StartRun(r) \/ ReadTicket(r) \/ Decide(r)
  \/ StartFinalise(r) \/ Finalise(r) \/ RunRaises(r)

Next ==
  \/ \E r \in Requests : Arrive(r) \/ Handle(r) \/ Run(r)
  \/ TakeThread
  \/ Outage \/ Recovery \/ Stop \/ Close

Spec == Init /\ [][Next]_vars

\* A thread that has taken a call keeps making it, and a free one takes the next.  Nothing
\* makes clients come, the database recover or the server stop.
FairSpec ==
  /\ Spec
  /\ \A r \in Requests : WF_vars(Handle(r) \/ Run(r))
  /\ WF_vars(TakeThread)
  /\ WF_vars(Close)
==============================================================================
