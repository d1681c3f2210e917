-------------------------- MODULE ServiceProperties --------------------------
(***************************************************************************)
(* What sharing one pool, one lock and one connection must not break.      *)
(***************************************************************************)
EXTENDS Service

\* Whoever waits for the repository waits for one database operation on another thread,
\* never for a model: a run lets go of the lock before it asks one, and whoever holds the
\* lock has a thread to finish on (pipeline/orchestrator.py:108-126, storage/sqlite.py:102).
LockIsHeldForOneOperation ==
  \A r \in Requests : lock = r <=> at[r] \in InsideLock

\* A ticket that was accepted, and whose database never went away while its run lasted, is
\* terminal by the time the connection is closed: a stop that is waited for loses nothing
\* that was promised (api/app.py:75-79, api/routes.py:61).
StopLosesNoAcceptedTicket ==
  ~store.open =>
    \A r \in Requests : answer[r] = "202" /\ FALSE \notin seen[r] => row[r] = "terminal"

\* A health check says what the database was like at some moment between its arrival and
\* its answer, however long it waited for a thread and for the lock (api/ops.py:41-49).
HealthSpeaksOfItsTime ==
  \A r \in Requests :
    /\ answer[r] = "ok" => TRUE \in seen[r]
    /\ answer[r] = "unavailable" => FALSE \in seen[r]

\* Every request is answered and every run it started comes to an end, whatever else is in
\* the queue: nobody waits for a thread, or for the lock, while keeping what the other
\* needs.  So a server that was told to stop gets to close.
TasksEnd ==
  /\ \A r \in Requests : at[r] = "queued" ~> at[r] = "end"
  /\ draining ~> ~store.open

-----------------------------------------------------------------------------
\* What the documentation says and the code does not do.

\* docs/adr/0001, line 30: a slow model changes nothing about the API's response time; so
\* no request waits for a thread while all of them wait for a model.
AnswersDoNotWaitForModels ==
  Cardinality(busy) = PoolSize /\ (\A r \in busy : at[r] = "model")
    => \A r \in Requests : at[r] = "queued" => hop[r] = "run"
==============================================================================
