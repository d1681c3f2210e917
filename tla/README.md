# Support ticket assistant: specifications

TLA+ modules, TLC models and TLAPS proofs for the support ticket assistant in `src/`: a
FastAPI service that accepts customer tickets, lets a model gather data through three
tools in a bounded loop, sends a reply it can source or hands the ticket to a human, and
keeps a trace that explains the outcome. Paths below are relative to
`src/src/support_assistant/` unless they start with `src/` or `docs/` (`src/docs/`).

`tlc -config X.cfg M` checks a model, `tlapm M.tla` the proofs of a
module `M` whose name ends in `Proofs`.
`PROJECT.json` lists every run, theorem, mutant and the source lines behind each definition.

## 1. The system

### Components

| Component | State it keeps | Operations | Talks to |
|---|---|---|---|
| **Ticket API** `api/routes.py` | none (a request) | `create_ticket`: write the row, schedule the run, answer 202. `read_ticket` | storage; schedules the pipeline |
| **Pipeline** `pipeline/orchestrator.py` | per run: recorder, loop variable, history, outcome | `run_pipeline`, `_decide`, `_ground` | model, tools, guardrails, tracing, storage, metrics |
| **Model clients** `llm/` | none; each call sees the ticket and the history | `classify_intent`, `decide_next_step` | `OllamaLLM`: an HTTP service; `FakeLLM`: nothing |
| **Tools** `tools/` | none; fixture files, read at every call | `get_user`, `get_invoices`, `get_charging_sessions` | fixtures |
| **Guardrails** `guardrails/` | none | project a `FactSet`, extract and verify literals, the cap | pipeline |
| **Tracing** `tracing/` | the steps of one run | one recording method per step type, validators | pipeline, logging |
| **Storage** `storage/` | tickets and traces; one SQLite connection, one lock | `create`, `get`, `finalise` | API, pipeline, health check |
| **Metrics** `observability/metrics.py` | six families of counters and histograms, a lock each | `record_run`, `render` | pipeline writes, `GET /metrics` reads |
| **Logging** `observability/logging.py` | none | a line per step | stdout |
| **Service** `api/app.py`, `ops.py` | the app's repository, registry, tools and model; the connection's life | lifespan, `/health`, `/metrics` | everything |
| **Demo** `demo/` | in the browser: the ids held, the tickets read, the selection | submit, poll, forget | the two ticket endpoints |

### Where it is hard, and what correctness means

* **Process death.** A run lives on a worker thread and nowhere else (ADR 0001). What was
  promised before a death (a 202, a terminal ticket) must survive it; what was not must
  not half survive. The counters die with the process, the rows do not.
* **Failure in the middle.** Any call to the model, to a tool or to storage may raise at
  any step. Each must become a handoff with the right reason and an unbroken trace, except
  for the storage calls that frame the run, for which there is nobody left to tell.
* **A model that may do anything** within the protocol: loop, call tools out of order or
  by wrong names, reply without data, give up with any reason.
* **Sharing.** Runs, requests and health checks share one SQLite connection behind a lock,
  and one metric registry whose writers lock and whose reader does not.
* **Ordering of effects.** Row before 202; decision before write; write before count.
  `finalise` guards nothing: that a terminal ticket is never rewritten, or a trace never
  separated from its outcome, holds only because of the order its callers keep.
* **Ends.** The loop is bounded, so every accepted ticket is settled, unless its run dies.

Per component, the properties that make it correct:

| Component | Properties |
|---|---|
| API + pipeline | a 202 id is always readable; terminal rows never change and are explained by their trace; replies and handoff reasons are earned by the steps before them; failures end a run and are answered in the trace; the loop is bounded; a ticket is settled or provably cut off |
| Storage | the statements behind the lock are one atomic operation each; a failed call leaves nothing; a call always comes back; what is committed can be read |
| Metrics | no update is lost; counts only grow; counters never claim what storage does not hold; a scrape is off by no more than the runs beside it |
| Guardrails, templates, FakeLLM | every literal sent is in one record a tool returned in this run, without an edit the newest of a user the model asked for; the fake's replies are true of the records it read |
| Service | the lock is held for one repository call at a time, and over no model call; nobody waits for a thread or the lock while keeping what the other needs, so everything ends; a stop that is waited for settles what was accepted; a health check is about the time it took |
| Demo page | its list is what it was given and not told to forget, whatever answers come late; a ticket it is reading comes to be shown as done and stays so, unless the last answer it gets is an old one; it stops asking |

## 2. The plan

| # | Modules | Composes / implements | Status |
|---|---|---|---|
| 1 | `Domain`, `Pipeline`, `PipelineProperties` | the whole path of a ticket, many tickets at once; implements `TicketLifecycle` | done |
| 2 | `TicketLifecycle` | abstract: what a client of `GET /tickets/{id}` may see | done |
| 3 | `PipelineProofs` | theorems about 1 for every set of tickets, tools and bound | done |
| 4 | `RepositoryCalls`, `SqliteStore`, `SqliteStoreProperties` | SQL statements, lock, transactions; implements `TicketStore` | done |
| 5 | `TicketStore` | abstract: an atomic repository, the one `Pipeline` assumes | done |
| 6 | `Scrape`, `ScrapeProperties` | `record_run` against `GET /metrics`, update by update | done |
| 7 | `Grounding`, `GroundedRun`, `GroundedRunProperties` | facts, templates and verification as operators; `FakeLLM`, and a model that calls any tool for any user, over fixtures that are edited between reads | done |
| 8 | `Service`, `ServiceProperties` | the worker threads that requests, runs and health checks share, with the repository's lock, an outage and the stop | done |
| 9 | `DemoPage`, `DemoPageProperties` | polling, the ids held, late answers, reloads, several tabs | done |
| 10 | `SqliteStoreProofs` | lock and transaction discipline, then that each step of `SqliteStore` is one of `TicketStore` or none | done |
| 11 | `ServiceProofs` | 8 for every number of requests and threads | done |
| 12 | `PipelineTraceProofs` | the properties of whole traces, for every cap and any tools | done |
| 13 | `FoldLemmas` | folds and sums over any finite set, by induction over sets | done |
| 14 | the counters, in `PipelineTraceProofs` | that sums over labels equal the rows they count, for any number of tickets | done |
| 15 | `ScrapeProofs` | 6 for every number of runs, buckets and scrapes | done |
| 16 | `DemoPageProofs` | 9 for every number of tabs, ids and failures | done |
| 17 | `GroundedRunProofs` | 7 for every content of the fixtures, any model, cap and number of edits | done |

## 3. The modules

### `Domain`

The closed enumerations, the trace step types and the two validators everything relies on
(`OutcomeAndReasonAgree` of a final decision, `StatusReplyAndReasonAgree` of a ticket). A
trace is a sequence; a step's `seq` is its position, as the recorder numbers from 1 without
gaps. Timestamps, keywords, arguments, summaries and texts are left out; a reply is
represented by the template it came from, a `detail` by the tool it names.

### `Pipeline`

`store` is the repository, `run[t]` the locals of one run, `metrics` the registry, `pc[t]`
the point the handling of ticket `t` has reached, from the request thread to `record_run`.

| Actions | Code |
|---|---|
| `CreateTicket`, `CreateFails`, `Accept` | `create_ticket` in `api/routes.py`: row, then schedule and 202 |
| `StartRun`, `ReadFails` | the `repository.get` that opens `run_pipeline`, outside every handler |
| `Classify`, `ClassifyUnknown`, `ClassifyRaises` | the first half of `_decide` |
| `DecideToolCall`, `DecideReply`, `DecideHandoff`, `DecideRaises`, `IterationCapReached` | one round of the loop: ask the model, record the decision, start to obey |
| `ToolReturns`, `ToolFails` | the tool's `try` with its four `except` clauses |
| `RenderRaises`, `GroundingPasses`, `GroundingFails` | `_ground` |
| `RecordDecision`, `Finalise`, `FinaliseFails` | the end of `run_pipeline`, below the catch-all |
| `CountTicket`, `CountHandoff`, `CountSteps` | `record_run`, in its order |
| `Crash` | death of the process: every handling that was under way is `lost`, the counters are zero, the rows stay |

A step of a run is what happens between two calls to something outside it (the model, a
tool, the repository, a metric family), so runs interleave wherever the code gives another
thread or the world a turn that matters.

The model and the tools are nondeterministic within their protocols. Verification is too,
with one restriction: a check passes only if each tool whose records the template needs,
or whose status words its prose states, has answered (`Evidence`). `GroundedRun`, where
verification is spelled out, justifies it (`PassedChecksHaveEvidence`), as long as no
station or user name contains a status word, which grounding would mask
(`guardrails/grounding.py:105`).

### `TicketLifecycle`

What a client of `GET /tickets/{id}` is promised: nothing, `processing`, then one terminal
state that never changes, with reply or reason and explanation appearing in the same
instant. `Pipeline` implements it (`ImplementsLifecycle`): a row maps to its status, reply,
reason and whether its trace ends in the one final decision that agrees with them.

### `RepositoryCalls`, `TicketStore`, `SqliteStore`

`TicketStore` is the protocol of `storage/protocol.py` as an atomic object: a call is made,
takes effect at one instant or raises with no effect, and returns. `SqliteStore` is
`storage/sqlite.py` statement by statement. `conn` is the database as the one shared
connection sees it and `disk` the last committed state, so an open transaction is a
difference between the two; `lock` names its holder; `pc[c]` is the statement caller `c` is
at. Statements may raise, the lifespan may close the connection under a call, the process may
die and start again. `Build` is the construction of the `Ticket` after the lock's release.
`ImplementsTicketStore` is the refinement: a write takes effect at its COMMIT, a read at its
last SELECT, a refusal (the id exists, or does not, or the CHECK says no) at its ROLLBACK. A
rollback on a connection that was closed meanwhile raises, and the caller gets that in place
of the refusal (the `with self._connection` of `create` and `finalise`).

The close under a call needs a server that does not wait for its tasks: the code itself
neither waits nor takes the lock, so the model does not assume it. `Service` models the
server that does wait.

### `Service`

The service under load. Handlers, dependencies and `run_pipeline` are plain `def`s, so the
framework makes each of these calls on a thread of one pool: a request is a chain of *hops*,
each of which waits in `queue` for a thread, keeps it (`busy`) for as long as the call
takes and gives it back. `at[r]` is how far the call of hop `hop[r]` is. One dependency hop
stands for all of a request's dependencies, and the loop of a run, with its model calls, is
one step: neither touches anything the properties speak of.

| Actions | Code |
|---|---|
| `Arrive`, `TakeThread` | a request, and the pool's queue (the framework; how `api/` uses it) |
| `Depend`, `RejectPayload` | `api/dependencies.py`; a payload that does not validate is a 422 |
| `AcquireToHandle`, `Create`, `HandlerRaises`, `ReadFinds`, `ReadMisses` | `create_ticket`, `read_ticket` |
| `Probe`, `RenderMetrics` | `health` with its `except`, `metrics` |
| `Respond` | serialising the answer; a POST goes on to the hop of its run |
| `StartRun`, `ReadTicket`, `Decide`, `StartFinalise`, `Finalise`, `RunRaises` | `run_pipeline` around its two calls of the repository |
| `Outage`, `Recovery` | the database behind the connection raises for a while |
| `Stop`, `Close` | the server stops accepting, waits for its tasks, and leaves the lifespan, which closes the connection |

`seen[r]` is a history variable: the states the database was in while `r` was open.

### `DemoPage`

`demo/static/app.js` against the ticket API. A tab keeps a list of ids (`held`), a map of
tickets (`shown`), its two submission buttons (`post`), the chains of reads (`chain`, by the
function that began them and the id) and the reads of "open by id" (`lookup`), which may be
several, as that button is never disabled: each use is one of the bounded troubles and has
the slot of its number; `stored` is the list in localStorage. A request is answered, as a
snapshot of the server, and resumed after its `await`, in two steps, so answers are late,
overtake each other, fail or get lost.

| Actions | Code |
|---|---|
| `Load`, `LoadFails`, `Reload` | `start`, `restore` |
| `Submit`, `Seed`, `CreateTicket`, `CreateFails`, `Send` | the two buttons of `wire`, `createTicket`, `send` |
| `Answer`, `Poll`, `Timeout`, `PollRaises` | `readTicket`, `poll` with its timer and its two kinds of `catch` |
| `Lookup`, `AnswerLookup`, `Open`, `OpenRaises`, `ForgetAll` | the rest of `wire`, `forgetAll` |
| `Finish`, `Wipe` | the server's side |

### `Scrape`

The registry as the interpreter may interleave it. `Updates(f)` is the list of updates
`record_run` makes for a finished run; each takes its family's lock; an `inc` is a read and
a write, an `observe` a `setdefault` and two writes. The scrape holds no lock: it walks the
families in `_families` order, a counter's dict live (the iterator remembers the size and
raises if it has changed), a histogram's dict as a copy of live series. A dict is a function
on the labels seen so far. Left out: text, order of labels, and `_sum`, which is torn the
way `_count` is. `beside` is a history variable, the runs that were counting during the
scrape.

### `Grounding`, `GroundedRun`

`Grounding` has both layers as operators. A text is the set of literals a scan may find in
it; numbers are integers, in thousandths, so that rounding to two decimals (`Rounded`) loses
something. `Facts` is `FactSet.from_observations`; a fact is a row and its place in the
history, so that equal rows count twice and one is the first (`FirstOf`). `Render` is the
five bodies with their field selection, `CanRender` the `ValueError` of the selectors,
`Extract` the scan with the known entities masked (`NumbersIn` is what an unmasked name or
station would yield), `Grounded` the verdict.

`GroundedRun` drives them with data, one run at a time. A fixture file is, per user, that
user's rows or `Broken`; `Edit` replaces the files between any two reads.
`GroundedRunAssumption` says what `Fixtures` may be: where a file is not `Broken`, finitely
many rows of that user that validate (`Validates`, the fields the three Pydantic models
demand), no two of one time. The loaders return them sorted (`NewestFirst`).

A call names a tool and a user. `FakeLLM` passes the ticket's user on; for any other model the
user is free (`UserIds`), because the arguments of a `ToolCall` are what the model says
(`llm/ollama.py:131`), the registry validates their type (`tools/registry.py:55`), and nobody
compares them with the ticket (`pipeline/orchestrator.py:177`). All answers join one fact set,
whichever user they are of.

| Actions | Code |
|---|---|
| `DecideToolCall`, `DecideReply`, `IterationCapReached` | a round of the loop; `FakeStep` is `FakeLLM.decide_next_step`, any other client may take any step, and ask for any user |
| `CheckUser`, `CheckUserFails` | the `get_user` that opens a collection tool: the first file |
| `ReadRows`, `ReadRowsFails` | the tool's own file: filter, validate, sort, return |
| `Ground` | `_ground`: project, render, verify |

## 4. The runs

| Run | Shows |
|---|---|
| `one` | One ticket, all tools and a wrong tool name, every intent, template and reason, 4 iterations, one storage fault, one crash. Trace, history, outcome and stored ticket fit together at every step, and handling comes to an end (under fairness) |
| `many` | Two tickets at once with fewer choices each, a fault and a crash: 202s, rows and counters stay consistent across runs; terminal is final; the lifecycle is implemented |
| `store` | Two threads, four calls on one id (create, get, finalise with a reply, a handoff or a mispaired outcome), a raising statement, a close (also between a refusal and its rollback), a restart: the repository is atomic, leaves no transaction and no lock behind, and every call returns (under fairness) |
| `scrape` | Two runs finish while a scrape renders: no lost update, no falling count, and a page that is off by at most one per run beside it |
| `grounded` | One run of the fake or of a model that calls any tool for any of two users, four decisions, nine contents of the fixture files and two edits: a reply is about one record some tool returned, if nobody edits the newest of a user the model asked for; under the fake it is true of what was read, and the fixtures determine how the run ends |
| `service` | Two tickets and any other request on two threads, an outage, a stop: the lock is held for one operation and over no model call, a stop that is waited for settles what was accepted, a health check is about its time, and everything comes to an end (under fairness) |
| `page` | One tab, a ticket of its own and one of another client, two troubles out of failed requests, lost tickets, reloads, "forget" and "open by id": the list is what was given, late answers put nothing back into it, a ticket that is being read comes to be shown as done and stays so, and the page comes to rest (under fairness) |
| `pool`, `drops`, `tabs`, `raises`, `status` | Sentences of the documentation that the code does not keep; see section 7 |

### The bounds, and why they are enough

* **Tickets, 1 and 2.** Runs share storage, registry and process only. What a ticket does
  alone is exhausted in `one`; what two can do to each other's counters and rows in `many`.
  No property of `many` speaks of more than a ticket and the counters, which are sums.
* **`MaxIterations` = 4 and 3** (5 in the code). FakeLLM needs three decisions. Four allow
  every tool once, one twice, and a cap that is or is not reached; the cap is a parameter
  that occurs only in comparisons, and the theorems hold for all of its values.
* **`MaxFaults`, `MaxCrashes`, `MaxRestarts` = 1.** Each property concerns what one fault or
  death leaves; after it, the system is in a state that a faultless one also reaches, or a
  ticket is out of the game.
* **`MaxCalls` = 4** in `store`: create, finalise, and two more calls that overlap them, such
  as a second finalise and a get between its statements. One id is enough, as no statement
  touches two.
* **One scrape, one bucket and the overflow.** A bucket is a cell that is written once per
  observation and read once per scrape: more of them add more of the same. Two runs, both
  of which may write the same label twice, suffice to lose an update.

* **Fixtures of `grounded`.** A third decimal and a credit note are amounts that a reply
  cannot write. Up to four invoices and two sessions: each status occurs as the newest and as
  an older row, two failed ones compete, an older session contradicts the newest; each file
  is empty or broken once. A second user has rows of each kind, or is unknown, or has a
  broken file beside the ticket's. Two edits let both files of a collection tool, or a
  repeated call, see different versions.
* **Two threads, three requests** in `service`: fewer threads than requests, so that queue,
  threads and lock are all waited for, by two runs and a third party at once; the theorems
  hold for every number of either. `MaxOutages` = 1: a run or a check can begin before an
  outage, inside it or after it, and end in any of them.
* **`PollLimit` = 1, `Scenarios` = 2, `MaxTrouble` = 2** in `page`. The limit (40 in the
  code) is compared and counted to, nothing else: one round that is under it and one that is
  at it. Two scenarios are a first one and a next one. Two troubles are, for instance, an
  answer that fails and the reload that follows it, a lookup and a "forget" that overtakes
  its answer, or two lookups whose answers cross. A second tab shares only the stored list;
  what that does is `tabs`.

### Fairness

`Pipeline` assumes weak fairness of the handling of each ticket once its row is written,
`SqliteStore` of each caller inside a call. In the code: a thread of the pool keeps running
the task it has begun; a model call ends because the HTTP client has a timeout
(`llm/ollama.py`); tools read local files; no step waits for another ticket, except for
the storage lock. The lock needs no fairness of its own in `store` because its calls are
bounded, so nobody can be overtaken for ever. Nothing is assumed of new
requests, faults, crashes, shutdown or restarts. A pool with too few threads only delays
the handling: `service` shows that no waiting for threads or the lock is for ever.

`Service` assumes that a thread keeps running the call it has (and acquires the lock when it
is free), that a free thread takes the head of the queue, and that a server which was told to
stop leaves the lifespan once its tasks are over. `DemoPage` assumes that every request is
answered or fails (the browser gives up at some time, for `fetch` here has no timeout of its
own), that what awaits it is resumed, and that timers fire; of several lookups that one of
them goes on, which is enough because each use is counted. Nothing makes the database
recover, the server stop, a user click or a ticket be finished.

## 5. What is proved

### The pipeline

`PipelineProofs`, for every set of tickets and tools, every model, every iteration cap, and
any number of faults and crashes. Assumptions are those of `Domain` and `Pipeline`: `None`
is not one of the values, the cap is a positive integer, the model's choices are within
the enumerations, bounds are naturals.

| Theorem | States |
|---|---|
| `PlacesAlwaysFit` | `Spec => []PlacesFit` |
| `TypeCorrect` | `Spec => []TypeOK` |
| `TerminalAlwaysExplained` | `Spec => []TerminalIsExplained` |
| `AcceptedAlwaysStored` | `Spec => []AcceptedIsStored` |
| `TerminalAlwaysFinal` | `Spec => TerminalIsFinal` |
| `PipelineImplementsLifecycle` | `Spec => ImplementsLifecycle` |

The argument. `TypeOK` is not inductive by itself: that `Finalise` writes a well paired row
depends on the run's outcome being decided, and that it overwrites no terminal row on where
all the other handlings of that ticket stand. `PlacesFit` says, per place of the handling,
what the run's locals, the row and the 202 look like: an undecided trace while deciding; a
trace that ends in its decision at `write`; the row `processing` exactly from its creation to
its write; the id accepted from scheduling on. `IInv == TypeOK /\ PlacesFit` is inductive:
each action moves one ticket from one place to the next (`Goto`), and the lemmas, one per
action, show that run, row and 202 fit the new place; all other tickets are untouched. The
crash is the one action that moves all of them, to a place that asks little. From `IInv`:
`TerminalIsExplained` and `AcceptedIsStored` directly; `TerminalIsFinal` and the refinement
because `Finalise` happens only at `write`, where the row is `processing`, the id accepted
and the trace ends in its decision.

`PipelineTraceProofs` builds on that module, from the same assumptions, and proves what a
whole trace shows.

| Theorem | States |
|---|---|
| `ToolCallsAlwaysAnswered` | `Spec => []ToolCallsAreAnswered` |
| `FailureAlwaysEndsTheRun` | `Spec => []FailureEndsTheRun` |
| `HistoryAlwaysTraced` | `Spec => []HistoryIsTraced` |
| `LoopAlwaysBounded` | `Spec => []LoopIsBounded` |
| `RepliesAlwaysEarned` | `Spec => []RepliesAreEarned` |
| `ReasonsAlwaysEarned` | `Spec => []ReasonsAreEarned` |
| `OnlyFaultsEverStrand` | `Spec => []OnlyFaultsStrand` |
| `CountersAlwaysStored` | `Spec => []CountedIsStored` |
| `CountersAlwaysMissOnlyTheCounting` | `Spec => []CountersMissOnlyTheCounting` |

A trace grows by one step at a time, but about twenty actions grow it, and each of these
properties cares for a few of them. So one lemma, `StepsAreMoves`, first says that whatever
the system does, it does one of a dozen *moves* to any one ticket (it starts, classifies,
calls a tool, observes a result, drafts, replies, hands over, concludes, writes, leaves the
run, or stays), and the invariants are proved over moves, with no action in sight:

* `ToolsInv`: a call is followed by its result or is the last step with the tool in flight; a
  failed result is the last step, and then nothing decides any more; the history holds the
  tools that returned.
* `RoundsInv`: the decisions of a trace are numbered from 1, and the run's own counter
  is one ahead of them while it decides. The cap is then a fact about the counter, and
  `Cardinality` enters only where a decision is added to a set that did not hold it.
* `EndsInv`: the last step before the end `Justifies` the outcome the run has in hand
  (`Earned` for a reply, `Caused` for a handoff), the concluding step does not
  disturb that, and the write copies outcome and trace together. A stored row is therefore
  justified by its own trace, whatever became of its run.
* For `OnlyFaultsStrand`, that every place a row can be left at in `processing` was
  reached by a step that counts a fault or a crash.
* `CountersInv`: per label, what a counter says is the number of stored rows less those that
  are between their write and that count; the tickets that have started are finitely many,
  so these numbers exist; a death, after which the counters begin anew, is counted. A
  round's number of decisions comes from `RoundsInv`, for the histogram of iterations. Each
  of `_record`'s counts moves one ticket from one set to another and adds one to one label;
  `FoldLemmas` turns that into one more in the sum.

### The repository

`SqliteStoreProofs`, for every set of ids, callers and outcomes and any number of calls,
faults and restarts, from the assumptions of `SqliteStore`: an outcome is a record of its
four fields with a trace that is not empty, `None` is no caller.

| Theorem | States |
|---|---|
| `StoreTypeCorrect` | `Spec => []TypeOK` |
| `OutcomesAlwaysWhole` | `Spec => []OutcomesAreWhole` |
| `TransactionsAlwaysLocked` | `Spec => []TransactionsAreLocked` |
| `StoreImplementsTicketStore` | `RepliesHaveWords` implies `Spec => ImplementsTicketStore` |

The inductive invariant says which operation each statement belongs to and whether its call
has been answered (`ControlFits`), that the lock is held exactly at the statements behind it
(`LockFits`), that what is on disk was meant by one call and accepted by the CHECK
(`Committed`), that `conn` differs from `disk` only behind the lock, and then by exactly
what the holder has written up to its statement (`TransactionFits`), and what a get has in
hand (`FetchFits`). With it, a COMMIT is the abstract write and the last SELECT the abstract
read, and every other statement is invisible, but for the rollback of a refusal, which is
where the caller is told no: what an insert or an update was refused for is still so then,
as the lock is still held (`RefusalsFit`). If the connection has been closed in between, the
rollback raises, which is the abstract call that raises without effect.

The refinement needs `RepliesHaveWords`, that no caller replies with an empty text: the
CHECK accepts one and the validator that `get` builds a `Ticket` with does not, so such a
ticket could be written and never be read (section 7). No template renders to one.

### The service

`ServiceProofs`, for every set of requests and what they want, every pool size and any
number of outages.

| Theorem | States |
|---|---|
| `ServiceTypeCorrect` | `Spec => []TypeOK` |
| `LockAlwaysHeldForOneOperation` | `Spec => []LockIsHeldForOneOperation` |
| `StopNeverLosesAcceptedTickets` | `Spec => []StopLosesNoAcceptedTicket` |
| `HealthAlwaysSpeaksOfItsTime` | `Spec => []HealthSpeaksOfItsTime` |

Every step of a request on its thread is one of three moves: to the end of the queue, to
its end, or further within its call (`StepsAreMoves`). That a request
waits in the queue once, has a thread, or needs neither (`EveryTaskHasOnePlace`) is a part of
the invariant, proved once for each move. The stop is the
hard one: it needs that an accepted ticket which is not terminal, and whose database was
never away, is at its answer or its run and not at its end (`PromiseIsPending`), for which
an open request must have seen the database as it is (`OpenEyes`), and that the connection
is closed last (`ClosedLast`).

### The metrics

`ScrapeProofs`, for every number of runs, outcomes, buckets and scrapes, from the assumptions
of `Scrape`: `None` is no run, the bounds are naturals, and of a finished run, that its tools
and violations are sequences of strings, which is what the trace they are read from holds,
and that it has a reason exactly when its status is `handed_off`: `replied` and `handed_off`
are the only outcomes a run can make, and a `Ticket` is valid in no other pairing
(`pipeline/orchestrator.py:68-79`, `domain.py:273-285`).

| Theorem | States |
|---|---|
| `NoUpdateIsEverLost` | `Spec => []NoUpdateIsLost` |
| `ScrapesAlwaysDriftByTheCounting` | `Spec => []ScrapesDriftByTheCounting` |
| `TypeCorrect` | `Spec => []TypeOK` |

`NoUpdateIsLost` relates a dict that two threads write to a sum over all runs of the updates
each has completed. It is not inductive: that `inc` writes back the right number depends on
nobody having written since it read. `RegistryInv` says so: a run is at its first update's
stage (`WorkFits`, `StageFits`), the lock of a family is held exactly by the run that is
inside an update of it (`LocksFit`), what a holder of `inc` has read is still there, and per
label the counter is the completed updates and a series' buckets exceed its count by the
one that is at its count (`CountsFit`). A lemma per step then says which single label
changes and by how much; that the sum of the completed updates grows by the same one is
`FoldLemmas`' `SumGrows`.

`ScrapesDriftByTheCounting` compares numbers that were read at different moments, so the
argument does not compare them with each other: each is a number of *runs*. A run counts one
status, one number of decisions and one duration, and a reason if it was handed off
(`UpdatesOnce`), so a counter of these families, a cell or a count of these series is the
size of a set of runs (`CellsFit`). Whenever it was read, that set had in it every such run
that was done when the scrape began (`Settled`), and none that had not finished: that is
`Within`, and it stays true while more runs finish (`KeepsWithin`). `LinesInv` says it of
every line so far, of the sum of the cells of the series at hand, and that no label which a
settled run has counted is missing from a family that is shown (`Covers`). The lines of a
family are then runs counted once each (`SumCovers`, `SumIsCovered`), and two numbers between
the same two sets differ by no more than what the sets do, the runs beside the scrape
(`BetweenAgree`).

### The demo page

`DemoPageProofs`, for every set of tabs and ids, every poll limit and any number of failures,
lost tickets, reloads and lookups, from the assumptions of `DemoPage`.

| Theorem | States |
|---|---|
| `TypeCorrect` | `Spec => []TypeOK` |
| `NothingIsEverTwice` | no list, stored or a tab's, has an id twice |
| `KeysAreAlwaysKept` | with one tab, `Spec => []KeysAreKept` |
| `ForgottenAlwaysStaysOut` | with one tab, `Spec => []ForgottenStaysOut` |

`remember` pushes without looking. That it never doubles an id rests on where ids may be at
the time, `IdsInv`: an id that a `send` was answered and has not yet remembered is in no
list of any tab, in no lookup, and with no other `send`. It stays so because the server gives
out unused ids only, and nobody can look up an id before somebody was told of it. The steps
come down to seven moves (`StepsAreMoves`); six of them bring no id to a place it was not.
What `forget` leaves of a list is a fold, by induction over its prefixes
(`WithoutLeavesTheRest`). The last two theorems have the hypothesis `SingleTab`; it cannot go,
for two tabs do lose ids (run `tabs`, section 7).

### A run with its data

`GroundedRunProofs`, for any fixtures, any number of users, a model that calls any tool for
any of them and replies with any template, every cap and any number of edits between the
reads, from `GroundedRunAssumption`.

| Theorem | States | Supposes |
|---|---|---|
| `TypeCorrect` | `Spec => []TypeOK` | |
| `EvidenceIsAlwaysReturned` | `Spec => []PassedChecksHaveEvidence` | |
| `RepliesAreAlwaysSourced` | `Spec => []RepliesAreSourced` | `NoCoincidence` |
| `NewestIsAlwaysCited` | `Spec => []NewestUnlessEdited` | `NoCoincidence` |
| `FakeRepliesAreAlwaysTrue` | `Spec => []FakeRepliesAreTrue` | `NoCoincidence` |
| `FakeAlwaysEndsAsPlanned` | `Spec => []FakeEndsAsPlanned` | `NoCoincidence`, `MaxIterations >= 3` |

`NoCoincidence` is a hypothesis on the data of all users, not on the code, and cannot go. An
amount with a third decimal or a sign is written as another number; the check then refuses
the reply unless that number happens to be some other amount, a count of rows or the prose's
"3 business days", and a reply that got through in this way would state a number which is not
the cited record's. Fixtures whose amounts are positive and have two decimals, as the shipped
ones, satisfy it at once; `MCGroundedRun` has an `ASSUME` that its fixtures do, with amounts
that are not so. The cap in the code is 5 and the fake needs 3.

The inductive invariant has three parts. `RunFits`: the history is made of answers, each the
rows of one file, valid and newest first; while the run decides nothing is decided, and
what is sent at the end is `Render` of the facts and has passed the check (`Sent`). `AtRest`:
without an edit, every answer is what its file holds now for the user of its call.
`FakeFits`: the fake's history is `get_user`, then the tool of its intent, each once and for
the ticket's user, and `decisions` keeps pace with it.

`NewestIsAlwaysCited` is about the users a model asked for: nothing in the code makes that
the ticket's (section 7). For a model that asks for no other, the reply is about the ticket's
user's newest record; that `FakeLLM` is one is `FakeFits`, and `FakeRepliesAreAlwaysTrue`
speaks of the ticket's user.

From there the argument is about data. A finite set of rows apart in time can be sorted, by
induction over it with its oldest row last (`SortedExists`), so the answer that
`NewestFirst` chooses is one. The facts of a kind have a first and a last place (`FirstFound`,
`LastFound`), since places in a finite history are ordered like numbers; the first fact of
a kind that comes from one answer is its newest row (`FirstIsNewest`). A number that verifies
is one's own (`WrittenAsItself`, where `NoCoincidence` is used), so what is sent cites the
first fact's numbers: `InvoiceIsCited`, `SessionIsCited`. `FakeEndsAsPlanned` needs the
converse, that the fake's text passes unless an amount cannot be written: every other literal
of it is among the facts (`AllPaidPasses`, `InvoiceRefusals`, `SessionRefusals`). With `EndFits`
the plan is then kept by each of the four steps that end a run.

### Folds and sums

The prover has no induction rule it can use on an operator, and `CHOOSE` picks the next
element of a sum. `FoldLemmas` goes around both: the least element of a set of naturals (a
library theorem) gives induction over a *set* of naturals, and so facts about every finite
set, by the number of its elements; a fold over the subsets of a finite set then exists as a
function and is unique (`FoldExists`, `FoldIsUnique`), whatever element is picked. From there
the sums of the counters: any element may be taken first (`SumWithout`), one more in one
place is one more in the sum (`SumGrows`), and a sum of the sizes of disjoint sets is the size
of their union (`SumCovers`, `SumIsCovered`).

### Only model-checked

* Liveness (`AcceptedIsSettled`, `CallsReturn`, `TasksEnd`, `ReadsCatchUp`,
  `PageComesToRest`), which is beyond the prover.

Every safety property of a passing run is a theorem.

## 6. What is not modelled

* **Contents**: texts, timestamps, keywords, summaries, log lines, request validation.
  No control flow depends on them, except through the model and verification, which are free.
* **`FakeLLM`'s keywords and `OllamaLLM`'s HTTP**: the intent, the step and the exception
  they come to are free.
* **Characters**: a text is a set of literals, so a name that contains an id, a status word
  or the digits of an amount, and `1,234.56`, are outside `Grounding`. So are ties of two
  rows' times.
* **Corners of verification**: a number that is rounded away, or that happens to equal
  another record's number or the count of the rows, passes the check as it does in the
  code; `grounded` has the amounts of its fixtures and no other.
* **A server that is forced to exit** with tasks under way, or a repository handed to the
  app, which the lifespan does not close: `Service` models the server that drains, `SqliteStore`
  the close under a call. Static files and logging have no state that anything reads.
* **The page's rendering and selection**: what is shown of the tickets it holds.
* **`demo/seed.py`**: one client that submits and polls, in sequence and with a limit;
  `Pipeline` and `Service` serve any client.
* **The in-memory repository**: only tests use it.
* **Several processes on one database file**: the code has one (ADR 0001, ADR 0003).
* **Loss of committed data**, a matter of SQLite and the disk.

## 7. Where the documentation and the code differ

| Run | Sentence | The code |
|---|---|---|
| `pool` | a slow model "changes nothing about the API's response time" (`docs/adr/0001-asynchronous-in-process-processing.md:30`) | a run keeps a thread of the pool that every handler needs (`api/routes.py:61`): once all of them wait for a model, so does each request |
| `drops` | an id "whose ticket has gone" is dropped (`demo/static/app.js:470`) | `start` drops it whatever its first read failed of, a network error included (line 473), and stores the shorter list |
| `tabs` | the ids this browser has been given are kept in localStorage (`demo/static/app.js:7`) | each tab writes its own copy of the list over the others' (line 58) |
| `raises` | `GET /metrics` returns 200 (`api/API.md:176`) | `Counter.render` iterates a dict that a first-seen label may be entering (`observability/metrics.py:107`): `RuntimeError`, a 500 |
| `status` | that a reply gives a real amount the wrong status is something "Layer 1 covers" (`guardrails/GUARDRAILS.md:130`) | `session_completed` has its status word in its prose, and verification looks for it among all sessions: a model that names it for a session that did not complete gets it sent if an older one completed. `FakeLLM` never does (`FakeRepliesAreTrue`) |

Noted while reading, and not runs of their own:

* each handoff reason "is produced at exactly one place in the orchestrator" (`enums.py:70`),
  but a model's `Handoff` names any reason and it is stored as given
  (`pipeline/orchestrator.py:195`); `ReasonsAreEarned` excepts it;
* `finalise` failing is "the one failure the pipeline cannot fail closed over"
  (`pipeline/orchestrator.py:100`), but the `repository.get` at line 108 is outside the
  catch-all as well (`ReadFails`);
* metrics are lost if the process dies before `record_run`, and "So is the persisted terminal
  state" (`docs/adr/0014`, line 82): `finalise` has committed by then, and the ticket is
  terminal and uncounted (`Crash` at the places of `Counting`);
* the validator of `Ticket` is "Kept identical to the constraint" (`domain.py:268`): the CHECK
  accepts `reply = ''` and the validator does not (`RepliesHaveWords`);
* a grounding failure under `FakeLLM` "should be structurally impossible"
  (`observability/OBSERVABILITY.md:48`): a third decimal is rounded away and a sign is not
  scanned, so the template's own text of such an amount is refused; the shipped fixtures have
  neither;
* "The reply may only contain facts that came from tool results" (`docs/brief.md:29`) is
  kept, and does not say whose: a call's user is what the model says, the registry checks its
  type only (`tools/registry.py:55`), the orchestrator runs it
  (`pipeline/orchestrator.py:177`), and the rows of all answers are one fact set
  (`guardrails/factset.py:71`). A model that asks for another user has that user's records
  cited. `NewestUnlessEdited` says `Asked`, not the ticket's user, for that reason; `FakeLLM`
  always passes the ticket's user on;
* "open by id" overwrites what is shown with the snapshot it was answered
  (`demo/static/app.js:442`), and starts no chain: one that was taken before the ticket was
  done and arrives after the chain has shown it done, or a last read at `POLL_LIMIT` that was
  answered in time and arrives late, leaves the page at "processing" until a reload.
  `ReadsCatchUp` excepts an answer of that kind by name (`NoLastWord`).
