# A verification development for TrainDB's BI tool and workbench

The repository holds two programs. `src/bi-tool` is a fork of Redash: a Flask
server (`redash/`), RQ workers on Redis, PostgreSQL, a React client. TrainDB's
own additions (workbenches, train models) live beside the original code.
`src/workbench` is a FastAPI server with a Celery worker in front of TrainDB.
The core logic, and everything that is hard about it, is in the BI tool's
server: jobs that several processes enqueue, lock, run, cancel, kill and clean
up; results that executions store while users edit and fork queries; alerts and
schedules that follow from them. The development is about these.

Paths below are relative to `src/bi-tool/redash` unless they begin with `src/`.

## 1. Inventory

| Component | State it keeps | Operations | Interacts through |
|---|---|---|---|
| Query job queue and lock (`tasks/queries/execution.py`, `tasks/worker.py`) | lock key `query_hash_job:<ds>:<hash>`, job hashes, queue lists, `StartedJobRegistry` | `enqueue_query`, `QueryExecutor.run`, `_unlock`, `CancellableJob.cancel` | Redis |
| RQ worker (`tasks/worker.py`, `worker.py`) | the horse, its time limit | pop, start, SIGINT, hard kill, reap, registry clean-up | Redis, signals |
| Ghost locks (`tasks/queries/maintenance.py`, `monitor.py`) | none | `remove_ghost_locks` every minute | Redis |
| Query results (`models/__init__.py`) | tables `query_results`, `queries` | `store_result`, `update_latest_result`, edit, fork, `cleanup_query_results` | PostgreSQL |
| Alerts (`tasks/alerts.py`) | `alerts.state`, `last_triggered_at` | `check_alerts_for_query` | queue of the default worker, PostgreSQL |
| Schedules (`models/__init__.py`, `maintenance.py`) | `queries.schedule`, `schedule_failures`, Redis hash `sq:executed_at` | `outdated_queries`, `refresh_queries`, `empty_schedules`, `track_failure` | Redis, PostgreSQL |
| Failure reports (`tasks/failure_report.py`) | Redis list per user | `notify_of_failure`, `send_failure_report` | Redis, mail |
| Job polling (`serializers/__init__.py`, client `query-result.js`) | the client's poll timer | `serialize_job`, poll, back off | HTTP |
| Versions (`handlers/queries.py`, `handlers/dashboards.py`, `models/changes.py`) | `version` columns | update with a version check | PostgreSQL |
| User activity (`models/users.py`) | Redis hash `users:last_active_at` | note, `sync_last_active_at` | Redis, PostgreSQL |
| Data sources (`models/__init__.py`) | table, schema cache, pause flag in Redis | `get_schema`, `pause`, `delete` | Redis, PostgreSQL |
| Permissions, parameterised queries, query runners | none: pure functions | `has_access`, `apply`, `fetch_columns`, `apply_auto_limit` | calls |
| Workbenches and train models (`handlers/workbench*.py`, `models/train_model.py`) | tables of their own | a synchronous variant of the query path | PostgreSQL |
| Workbench server (`src/workbench/server`, `src/workbench/worker`) | tables, TrainDB's catalogue, one shared session | synopses, models, queries; `execute_statement` on Celery | HTTP, Celery, JDBC |

What is hard in it:

* **Concurrency through Redis and PostgreSQL without locks.** `enqueue_query`
  is an optimistic transaction that also writes outside of the transaction
  (`execution.py:69` and `:106`); `remove_ghost_locks` takes four reads that do
  not see one moment; `update_latest_result` runs one SELECT twice around its
  updates; alerts are checked by two workers (`bin/docker-entrypoint` starts two).
* **Failure.** Horses are killed softly and hard, workers die with their horse,
  and nothing but registry clean-up and time-outs repairs what they leave.
* **Order.** Unlock, commit, return value and alert checks are separate steps
  of one job, seen one by one by everybody else.
* **Time.** Daily and weekly schedules, started late, off by one day.

What makes each component correct, in a sentence: a request gets a live job of
its own query; a job runs once and its outcome is reported once; locks of dead
jobs go away; a query's latest result exists and is one of its own; the alert
follows the latest result and its subscribers know its state; an iteration of a
schedule is run once. `PROJECT.json` lists each hazard at its line, with the property that
would catch it or the reason why none does.

## 2. Modules

| Module | Role | What it models or says |
|---|---|---|
| `QueryJobs` | detailed specification | `run_query`, the job queue, its locks, workers, cancellation, ghost-lock sweep |
| `JobLifecycle` | abstract specification | what the queue promises about one job |
| `QueryJobsRefinement` | refinement mapping | `QueryJobs` implements `JobLifecycle` |
| `JobPolling` | composition: extends `QueryJobsRefinement` | `serialize_job` and the page that polls its job |
| `QueryResults` | detailed specification | result tables, pages that edit and save, forks, clean-up |
| `AlertChecks` | composition: extends `QueryResults` | alert checks enqueued by executions, workers that evaluate them |
| `DataSources` | composition: extends `QueryResults` | deletion of a data source, statement by statement |
| `VersionedRecords` | detailed specification | edits of dashboards and queries under a version column |
| `AtomicSaves` | abstract specification | saves that take effect at once, or not at all |
| `ScheduledQueries` | detailed specification | `refresh_queries`, `empty_schedules`, failures and their reports, for several queries |
| `ScheduleTimes` | algorithm under a driver | `should_schedule_next` on a clock, for one query |
| `MC*` | instances for TLC | small sets, symmetry, properties of single runs |
| `*Proofs` | theorems | section 4; `JobPollingProofs` extends `QueryJobsProofs`, `AlertChecksProofs` and `DataSourcesProofs` extend `QueryResultsProofs` |

### QueryJobs, JobPolling

State and code: `lock` is the lock key per query hash; `status`, `result`,
`jobHash` and `cancelled` are fields of the job hashes (`cancelling` marks a
cancellation between its two steps); `queue` is the RQ list, `registry` the
`StartedJobRegistry`, `overdue` the jobs past their time limit, `stored` the
committed results. Each request has a program counter through `enqueue_query`
(`rpc`), the round it is in (`tries`), its variable `job` (`rjob`), the `job_id`
it has read (`seen`) and whether its WATCH was broken (`dirty`). Four history variables serve the
properties: `stale` and `storedAt`, the jobs that were over or cancelled and the
results that were stored when a request called `enqueue_query`, `late`, the jobs
whose lock was set after they had unlocked, and `vanished`, the jobs whose hash
expired between a request's two reads of it. Each worker has `wjob` and `wpc`; `sweep` is the running `remove_ghost_locks`.

One action per access to Redis or the database that somebody else can come
between: `AnswerAtOnce`, `Watch`, `GetLock`, `FetchJob`, `ReadStatus`, `DropLock`, `EnqueueJob`,
`ExecSetLock`/`ExecFails`, `LeaveLoop`; `Dequeue`, `StartJob`, `QueryEnds`,
`Unlock`, `StoreResult`, `FinishJob`/`FailJob`; `HorseInterrupted`,
`HardLimitKill`, `HorseCrashes`, `ReapHorse`, `WorkerCrashes`; `CancelMark`,
`CancelRemove`; `SweepKeys`, `SweepGet`, `SweepStarted`, `SweepQueued`,
`SweepDelete`. `Job.fetch` and `get_status` are two round trips (`execution.py:51`
and `:53`); `is_cancelled` looks at the meta that the first of them has loaded, so that
`FetchJob` decides whether the job is missing or cancelled and `ReadStatus` whether it is complete.

RQ 1.5.0 and Redis 3 are not part of the repository. They are modelled from how
the code uses them and marked external in the map: the expiry of a key does not
break a WATCH, deleting a missing key does not either, EXEC is atomic, a popped
job is in no list until it is registered as started, and a registered job that
passed its time-out is failed by the clean-up of the registry.

`AnswerAtOnce` is `run_query` before it calls `enqueue_query`: a request is refused,
or answered with a stored result of its query. That no result is found, that it is too
old or that `max_age` is zero is the request that goes on to `Watch`. `JobPolling` adds the page:
it has been given a job and asks until `serialize_job` tells it an error or a result.

### QueryResults, AlertChecks, DataSources

PostgreSQL runs at READ COMMITTED. An execution selects the queries of its hash
(`SelectQueries`) and later commits its result with the pointers
(`CommitResult`); in between anybody may edit or fork. The page of a query has a
copy of its text and of the pointer to its result (`page`), and a save
(`SavePage`) sends both, however old. A commit writes only the columns that
changed, so that `CommitResult` leaves `text` alone. The clean-up is one DELETE:
what its subquery picks (`CleanupSelect`) and the check of the foreign key
(`CleanupDelete`) are two actions.

`AlertChecks` adds the queue of checks. An execution asks for checks of the ids
that the *second* SELECT of `update_latest_result` returns; workers load the
query (`LoadQuery`), then evaluate and read the alert (`LoadAlert`), then write its
state (`CommitState`), and notify after that commit (`Notify`). Any number of them run
side by side. A horse may die after the commit of its result and lose the checks it has not
enqueued (`HorseDies`), or in a check, and lose the check or the notification (`CheckerDies`).
History variables name what the code gives up: `lost` the queries whose check nobody will
make, `missed` those with a change that subscribers may not have heard of, `overtaken`
the workers whose check another one has made out of date, `doubtful` the queries whose
last check was such a one.

`DataSources` adds `DataSource.delete`: clear the pointers of its queries, delete
its results, delete the row and commit, with the row locks that make other
transactions wait, the foreign keys that refuse, and an abort anywhere. Texts
are split into those on the data source (`Ours`), those elsewhere, and the
`Orphan` a query becomes.

### VersionedRecords, AtomicSaves

One stored record, a page per editor with the version it was read at, a request
in two steps: `Load` selects the row and compares versions, `Commit` issues the
UPDATE under `version_id_col`. `Counts` tells a dashboard (SQLAlchemy increments
the version) from a query or a workbench (`version_id_generator` is `False`).
`AtomicSaves` is what users are promised; its `careful` editors are those whose form
comes with a version.

### ScheduledQueries, ScheduleTimes

`ScheduledQueries` does not count time: `elapsed` holds the queries whose next
iteration has come by `sq:executed_at`. A run of `refresh_queries` is four steps
(`SelectScheduled`, `LookAtExecutions`, `DisableFaulty`, `EnqueueOutdated`, the last
two row by row), and several runs may overlap (`Refreshers`: it is enqueued every thirty
seconds, with a timeout of ten minutes and two workers); `empty_schedules` is two steps; users edit, remove and pause between
any of them, and executions start, end, count failures from the number they
loaded at their start, and reset it. `unseen` holds the queries that were started since the
last refresh of the start times: an interval is a minute at least and
`refresh_queries` runs every thirty seconds, so that no interval passes unseen.

A call of `enqueue_query` is one step there, with the outcomes that its round trips in
`QueryJobs` have: it returns the job that the lock of the text holds, or it enqueues a
job for each try, of which the last one gets the lock or none does (`Enqueue`). `locks` are the
executions that hold a lock. One is lost to the sweep, to a request that finds a cancelled job,
to its time to live (`LoseLock`), and to the end of whatever job has the same text
(`RunEnds`). From the moment a text has a job that is not its lock's, its queries are
`loose`, until an interval passes with none: nothing bounds their starts, and
`ExtraStartsAreBounded` is about the others.

`ScheduleTimes` is the arithmetic. Minutes on a clock, `DayLength` of them in a
day. `Refresh` is one run of `refresh_queries` for one query, `Execute` the start
of the job, which is what `sq:executed_at` records. Seconds are left out; an
execution takes no time.

## 3. Runs

Deadlock is not checked in most runs: a system stops by design when all requests
are answered and the bounds on edits, executions, crashes or time are used up.

| Run | Question | Bounds |
|---|---|---|
| `jobs_requests` | `TypeOK`, `FreshAnswer`, `AnswersOwnQuery`, `CancelledNotQueued`, `JoinedResultIsNew`; as action properties `LocksNotOverwritten`, `CallsAreBounded`: what two racing requests are answered while a worker, a cancellation, expiries and the sweep interfere | `QueryJobs`; 2 requests, 1 query, 3 jobs or 2 jobs and a cancellation, 1 worker, 2 rounds; 1.7 million states |
| `jobs_live` | `OneRunner`, `ResultIsStored`, `NoAnswerTakenBack`, `ImplementsLifecycle`; `StaleLockCleared`, `EveryPollEnds`, `EveryJobSettles`, `EveryStartedJobEnds` under fairness | `JobPolling`; 1 request, 2 jobs, 2 workers, 1 cancellation, 1 crash |
| `jobs_serial` | finds `OneLiveJobPerQuery` violated | 3 requests one after the other, 3 jobs |
| `jobs_ghost_locks` | finds `OnlyGhostsRemoved` violated | 2 requests, 2 jobs, 1 worker |
| `data_sources` | `LatestExists`, `DeletedLeavesNothing`, and `UnusedResultsGo` under fairness | a query and its fork, 3 texts (on the data source, elsewhere, the orphan), 2 old results and 1 execution, 2 results to a clean-up, 1 edit or move; 0.4 million states |
| `alerts` | `LatestWasItsOwn`, `AlertsSettle`, `CheckSeesItsResult`, `SubscribersKnow` | 1 query, 2 texts, 2 executions, 1 edit, 2 workers that check, 1 dead horse; 2.4 million states |
| `schedule_times` | `NoIterationSkipped`, `NoIterationTwice`, `InTimeDueOnItsDay`, `FirstRunIsByHand` | interval, daily and weekly schedules, days of 4 minutes, every time of day and day of the week, delays and failures up to 3, 80 minutes: nearly three weeks |
| `schedule_weekly` | finds `DueOnItsDay` violated | a week of such days and a late execution |
| `scheduled_queries` | `RemovedStaysQuiet`; `DueQueriesRun`, `PastSchedulesGo` under fairness | 2 queries with one template, one of them with invalid parameters, schedules that end, 1 execution, 1 run of `refresh_queries` at a time, 1 edit, `MaxReports` 1; 0.25 million states |
| `failure_counts` | `ExtraStartsAreBounded`; `FailureCountSettles`, `ReportingStops` under fairness | 1 query, executed by hand too, 2 overlapping executions, 2 overlapping runs of `refresh_queries`, `MaxReports` 3; 0.5 million states |
| `dashboards` | `NoLostUpdate`, `SavedAsSent`, `ImplementsAtomicSaves` | 2 editors, 2 fields, 2 values, 3 saves, counted versions |
| `query_versions` | finds `NoLostUpdate` violated | the same with versions that are not counted |

Why the bounds are enough. Two requests are the smallest race on a lock; two
rounds let a request lose, retry and leave the loop (the code has five). A
request that loses a round needs a job of its own, one it left behind and one of the other request: three
jobs. With a cancellation two suffice (the constraint `CancelsAmongTwo`), a job
that is cancelled and one that replaces it. Two workers are needed for a job to be
run twice, one crash for a job to be abandoned. Locks of two different queries never meet
in the code; `AnswersOwnQueryAlways` covers any number of hashes. Two
executions let one overtake another, and two workers let one check overtake another; the fork and the
orphan are what a deletion can miss. Three results of which a clean-up deletes two are the fewest with which
a batch is cut by the limit and fails for one result at the cost of another. Two editors
and two fields are the smallest mixture of two forms, and the third save follows
a conflict. Of two queries with one template one stands for the other, and two
overlapping executions are what loses a count. With `MaxReports` 1 no count can be lost, so
that lost counts are the question of `failure_counts`. Its two overlapping runs of
`refresh_queries` reach the bound of `ExtraStartsAreBounded`, three starts. A day of four minutes has a
first, a last and two middle minutes, which is what the arithmetic tells apart;
delays reach into the next day. `MaxTries`, `MaxCancels`, `MaxCrashes`,
`MaxEdits`, `MaxDeaths`, `MaxSaves`, `MaxReports`, `MaxDelay`, `MaxFailures` and
`Horizon` cap counters, each a constant of its module.

Fairness.

* `QueryJobs.Fairness`: weak fairness of the steps of requests and workers, of
  the time limit and the hard limit, of the second half of a cancellation, of
  registry maintenance and of the sweep, which `tasks/schedule.py:61-84` runs
  every minute. None of the end of a query, SIGINT, the alarm or the expiry of keys: a
  query may run for ever, and only the time limit ends it. The default
  `query_time_limit` is -1, with which the registry entry of a dead worker's job
  never expires; the run has `TimeLimited = TRUE`, and without a limit
  `EveryStartedJobEnds` is not promised by the code. `PollingSpec` adds that an open
  page goes on asking.
* `ScheduledQueries.Fairness`: `refresh_queries` and `empty_schedules` are
  scheduled for ever (`tasks/schedule.py:61-69`) and workers take their steps.
  None of users, of the passing of intervals, or of which way an execution ends.
* `FairDataSourcesSpec`: the clean-up runs every five minutes, a deletion ends
  one way or the other with its request, and the DELETE of the clean-up gets its turn
  among the transactions it waits for (strong fairness, because deletions may
  make it wait again and again; PostgreSQL serves waiters in turn). That queries stop taking
  up unused results is no fairness of the code but the hypothesis of `UnusedResultsGo`.

### What the runs found

* **A job without a lock** (`jobs_serial`). The stale lock is deleted on another
  connection than the watching one (`execution.py:69`); the EXEC of the same
  request then fails, after the job was enqueued, and the job is returned
  without a lock: the next request enqueues the query again. Three requests one
  after the other suffice.
* **A live job's lock is removed** (`jobs_ghost_locks`). Between pop and
  registration a job is in neither list `rq_job_ids` reads.
* **A weekly query a day early** (`schedule_weekly`). The weekday is taken before
  the iteration is moved to the day before (`models/__init__.py:425-437`).
  `InTimeDueOnItsDay` says when the day is right: after every execution that
  began at its time of day or later on the same day.
* **Queries without optimistic locking** (`query_versions`). The version of a
  query is compared but never incremented: two edits that start from one version
  both succeed and the later overwrites the earlier, which
  `handlers/queries.py:377-379` says SQLAlchemy prevents. For dashboards it does. In
  the trace the first save comes without a version, as a save of the name alone does, and
  the second with one; two that come with it do the same.

Seen in counterexamples while the properties were written, and excused in them
where no document promises better:

* A fast worker may run a job, unlock and commit before the EXEC of the request sets the
  lock (`execution.py:111`); a later request, even with `max_age` zero, joins that
  job while it is still started and gets a result from before it. `JoinedResultIsNew` excuses exactly these (`late`).
* A query edited between the two SELECTs of `update_latest_result`
  (`models/__init__.py:777` and `:783`) gets the result, and nobody checks its alerts.
* The hash of a finished job may expire between `Job.fetch` and `get_status`
  (`execution.py:51-54`): the status is None, which is neither finished nor failed, and a request
  joins a job that is gone, where `tests/tasks/test_queries.py` (`test_multiple_enqueue_of_expired_job`)
  expects a new one. `FreshAnswer` excuses exactly this (`vanished`); without the excuse TLC finds it.
* The two workers on the default queue, which `bin/docker-entrypoint` starts, may check
  one alert at the same time. Both read the old state, and the one that evaluated the older
  result may write the alert last: the alert stays in the wrong state, and nothing repairs it
  before the next result. Both may notify of one change, and the subscribers may be told of an older
  state last. `AlertsSettle` and `SubscribersKnow` excuse the queries whose last check was
  overtaken in this way (`doubtful`, `missed`), and no others.
* A horse that dies between the commit of an alert's state and the notification
  (`tasks/alerts.py:50`) leaves a change that nobody hears of: the next check finds no change.
* `enqueue_query` finds only jobs that are locked, so that a query whose job has lost its
  lock, or never had one, is enqueued by every look that finds it due. With two overlapping runs of
  `refresh_queries` a query is started three times in an interval although its jobs have their lock.
* Each batch of the clean-up may meet a result that a query has just taken up, in a cycle in
  which a page goes from one old result to another: the rest of the batch then waits for ever.
  `UnusedResultsGo` is about behaviours in which that ends.
* A data source that a workbench has results of cannot be deleted: they are not
  among what `DataSource.delete` deletes, and their column is not nullable.
* A save of a query's page writes back the pointer the page has
  (`useUpdateQuery.jsx:96`); the foreign key refuses it if the result is gone, otherwise
  the query goes back to an older result.
* A save without a version (publishing) leaves the page with its old version, so
  that the next edit of the same dashboard page is refused although nobody else has changed it.
* Of the outdated queries with one template only the one with the highest id is enqueued in a
  run (`order_by(Query.id)`, `models/__init__.py:641`); of three the lower ones may wait for ever.
  `DueQueriesRun` asks for the query or one with a higher id.
* A job that a worker has popped and not registered when it dies is in no list;
  its page polls on. `EveryPollEnds` names this case (`Lost`).
* A schedule removed by its user may be written back by the except branch of
  `outdated_queries`, but disabled (`RemovedStaysQuiet`), and a run that had selected the query
  before may enqueue it once more; a faulty or disabled
  schedule makes every run of `empty_schedules` raise (`PastSchedulesGo` excuses it).
* A scheduled query without a noted start and a latest result is never due
  (`models/__init__.py:667`): `FirstRunIsByHand`. The result need not be its own: one of another
  query with the same text is its latest too (`:778`), and a fork has that of its original (`:792`).
* A weekly query that was run by hand early in a week waits for its day of the
  *next* week: after a run on Monday a Sunday query comes due thirteen days
  later. `NoIterationSkipped` allows for it (`DayWait`).

## 4. Proofs

All theorems hold for any values of the constants that satisfy the named
assumptions of the modules (null values are not members of the sets they
complete; bounds are naturals). Each module proves one inductive invariant, a
step at a time, and reads its theorems off it.

`QueryJobsProofs`: `TypeCorrect`, `OneRunnerAlways`, `AnswersOwnQueryAlways`,
`FreshAnswerAlways`, `ResultIsStoredAlways`, `CancelledNotQueuedAlways`. `IInv` is
`TypeOK` with

* `WorkerHasJob`: a worker that is not idle has a job, an idle one has none;
* `QueueInv`: a job is in the queue once, has the status `queued` there and is
  with no worker, no two workers have the same job, and a registered job is
  neither new nor queued. This is what makes `OneRunner` inductive: a pop can
  only hand out a job nobody has;
* `CancelInv`: only jobs that exist are cancelled, and a cancelled job is in the
  queue only while its cancellation is between its two steps;
* `AnswerInv`: the job named by a lock, read by a request or returned by it has
  the hash of that lock or request;
* `FreshInv`: a request's `stale` jobs stay over or cancelled, and its job is none
  of them, or it expired between the two reads; one that it has fetched and whose status it is
  about to read is finished or failed then, if it is stale. `FreshAnswer` alone is not inductive: it speaks of the answer, while
  the step that could break it is the read two actions before;
* `StoredInv`: the job of a horse past the commit, and every job with data as its
  result, has its result among the committed ones.

Further sections of the same module prove

* `JoinedResultIsNewAlways`. `LateInv` carries the property back from the
  answer to the lock: a lock of a job that has unlocked is late, so is a job that
  a request has read and that was stored when it called. Lemmas say that only
  `Unlock` makes a job unlocked, deleting the very lock that could name it, where a request
  gets its job from, and what a step may do to locks and to the history variables;
* `LocksNotOverwrittenAlways`: a lock that is set was not there before. `FreeKeyInv`
  is the optimistic transaction in one line, a request between its look at the
  lock and its EXEC whose WATCH is not broken finds the key still free, and each way
  of setting a lock breaks the others' WATCH;
* `CallsAreBoundedAlways`: the number of calls a request can still make goes down
  with each of its steps and with nobody else's. This is the bound on the loop that
  does not need fairness.

`JobPollingProofs` has `QueueImplementsLifecycle`. Lemmas say what appending,
taking the head and removing do to the set of queued jobs; a frame lemma says that a step that
leaves queue, holders and results alone stutters; then `EnqueueJob` submits,
`Dequeue` takes, the steps that end a horse or a worker let go, and `CancelRemove` withdraws.
`JobsEndOnce` follows from it. The same invariant is kept by `Poll`
(`PollKeeps`), which carries `OneRunner`, `ResultIsStored` and the refinement
over to `PollingSpec` (`OneRunnerWhilePolled`, `ResultIsStoredWhilePolled`,
`PollingImplementsLifecycle`). `NoAnswerTakenBackAlways` goes through the steps that
write what `serialize_job` reads, the mark, the status and the result of a job
(`AnswerSteps`); `PagesAreToldRight` follows.

`QueryResultsProofs`: `TypeCorrect`, `LatestExistsAlways`, `LatestWasItsOwnAlways`.
`PointersInv` adds that what is pointed at, or read by a fork in flight, is
committed (so that its text does not change any more) and that an execution's
selected queries had its text when it selected them; `CreatedInv` that a query
in the making was not selected by anybody.

`AlertChecksProofs`: `AlertsKeepResults` (its steps are steps of `QueryResults` or
stutter, so that the theorems above carry over: `LatestWasItsOwnWithAlerts`),
`CheckSeesItsResultAlways`, `AlertsSettleAlways` and `SubscribersKnowAlways`, all for any
number of workers, with rearming or without. `SinceInv` says that the pointers since an execution
contain the present one. `SettledInv` says that a check which was not overtaken has read the
present state; and of a query whose checks have all begun (`Due`) that one of those under way
(`Evaluating`) has the latest result, or all of them are overtaken and the last one that ended has stored
what that result says. `KnownInv` says that a change which subscribers have not heard of is about to be
told to them, by a worker that was not overtaken (`Announcing`), or is among those that were missed.

`DataSourcesProofs`: `LatestExistsBesideDeletions`, `DeletedLeavesNothingAlways`.
One lemma, `StepEffects`, says what any step of the results may do to pointers, rows and
hashes while a deletion is open; `DeletionInv` keeps the cleared queries and the emptied
results apart from everything that others may still write, `DeletedInv` says
what can no longer appear.

`VersionedRecordsProofs`: `VersionsProtect`, `FormsAreNotMixed`, `SavesAreAtomic`,
`TypeCorrect`, the first three for counted versions. There equal versions mean
equal records (`Knowledge`), of what a page has, what a request has selected and
what is stored. `FormsAreNotMixed` and
`SavesAreAtomic` need it too: an UPDATE of the changed columns writes the whole form only if the
others are still as selected.

`ScheduledQueriesProofs`: `ExtraStartsAreBoundedAlways`, `RemovedStaysQuietAlways`,
`TypeCorrect`, for any number of runs of `refresh_queries`. `StartsInv` counts the starts of a
query in this interval together with those to come (`Budget`): a job that waits, and each run that
will enqueue one (`Planned`). As long as the interval counts as elapsed nothing was started in it; from
the first start on no run is added. `LockInv` says that a lock holds a job that is queued or
running, one for a text, and that a query with another such job is loose: of one that is
not, at most one job waits.

`ScheduleTimesProofs`: `NoIterationSkippedAlways`, `NoIterationTwiceAlways`,
`InTimeDueOnItsDayAlways`, `FirstRunIsByHandAlways`, `TypeCorrect`, for a day of
any length and schedules of any interval. The SMT solver knows division by a
number, not by a parameter, so that `Division` states what `\div` and `%` are once,
and what follows (`Multiple`, `Quotient`, `WholeDays`) is argued with products
only. `IterationInSlot` and `NextInSlot` say in which day the previous and the
next iteration lie, `NextBounds` how far apart they are. `ClockInv` ties the
waiting job to the moment it came due: by then the next iteration had passed, and
a minute before it had not.

Only model-checked: everything under fairness (`StaleLockCleared`, `EveryPollEnds`,
`EveryJobSettles`, `EveryStartedJobEnds`, `UnusedResultsGo`, `DueQueriesRun`,
`PastSchedulesGo`, `FailureCountSettles`, `ReportingStops`), since TLAPS does not handle
ENABLED. Every other property of a passing run is a theorem.

## 5. Abstractions and what is left out

* Names, texts, times and payloads are model values or members of small sets; a
  hash stands for a pair of query text and data source (collisions of MD5 are
  left out).
* One sweep and one run of `empty_schedules` at a time; rq-scheduler could
  start a second while the first runs. Runs of `refresh_queries` overlap.
* `ScheduledQueries` has `enqueue_query` as one step. What else a query may raise in the
  loop of `refresh_queries`, a lost connection for instance, is logged and not counted, and the query is
  taken up by the next run: only invalid parameters are modelled, which are counted.
* A query has one alert, whose condition is abstracted to the state it puts the
  alert in. Rearming is a constant of `AlertChecks`, on in the run: whether the rearm time
  has passed is open at every check.
* Deaths of horses are in `QueryJobs` and `AlertChecks`, not in `ScheduledQueries`.
* `QueryJobs` has no clean-up of results: those it deletes are old and unused, and
  the request that finds none enqueues, as it does there.
* The age of a result is not counted: a result may always be too old for a
  request that sets a positive `max_age`.

### Not modelled

`PROJECT.json` lists these parts with their sources.

* *Query runners, alert destinations, mail*: drivers that call other services
  and keep no state; that they succeed, fail or hang is nondeterministic in the models.
* *Permissions, parameterised queries*: pure functions of a few lines or on strings; a
  reference definition would repeat them. That applying parameters may fail is in
  `ScheduledQueries` and in `AnswerAtOnce`.
* *The schema cache*: one Redis key that only the editor's completion reads.
* *User activity*: two statements, one loss that its docstring accepts.
* *Workbenches and train models of the BI tool*: single INSERTs and UPDATEs
  within a request; workbenches are versioned like queries (`VersionedRecords`),
  and their results are in `DataSources` because they refuse a deletion.
* *The workbench server and its Celery worker*: each endpoint sends one or two
  statements to TrainDB, whose code is not in the repository; a model
  would consist of assumptions about it.
* *Authentication, command line, settings, migrations, metrics, the React and
  Angular clients*: request-scoped calls into libraries, constants,
  administration and rendering.

More than half of the Python lines of the repository are one vendored
installer (`get-pip.py`); most of the rest are drivers, settings, serialisers and
tests of the kinds above. What is modelled is the part with state that several
processes share.

## 6. Running

In this directory: `tlc -config QueryJobsRequests.cfg MCQueryJobs.tla`, and
likewise for each run of `PROJECT.json` (its `cfg` and `module`); `tlapm QueryJobsProofs.tla` and likewise
for the seven other `*Proofs` modules. On two cores `jobs_requests`, `data_sources`, `alerts`,
`scheduled_queries` and `failure_counts` take two to three minutes each, the other runs less than one. The name of a definition that ends in an
underscore and a word (`Dequeue_Peek`) is a faulty variant of the definition before the underscore,
kept beside it to show that some property tells them apart.
