# A formal model of arrower

arrower is a Go framework for web applications: a job queue, repositories,
settings, logging, use case decorators, two contexts (administration and
authentication) and a command line tool. This directory models the parts of it
in which goroutines, transactions, retries and failures meet: TLA+ modules
translated from the source, TLC configurations that check them on small
instances, and proofs for TLAPS of what matters most.

Paths below are relative to the repository (`src/`); `postgres.go` without a
directory is `jobs/postgres.go`.

## 1. Inventory

| component | state | operations | interacts with | what is hard | what makes it correct |
|---|---|---|---|---|---|
| **jobs: PostgresJobsHandler** `postgres.go` | `hasStarted`, `isStartInProgress`, `startTimer`, the pool's errgroup and cancel function, `gueWorkMap`, schedules, row in `gue_jobs_worker_pool` | RegisterJobFunc, Schedule, Shutdown, the start timer, the life probe | gue's worker pool, gueron, the database, JobFuncs that call back | calls race with the timer; restarts; goroutines nobody waits for; errors half way | one pool at a time; registrations only between pools; a start happens; calls return |
| **jobs: queue in the database** `postgres.go`, tables `gue_jobs`, `gue_jobs_history` | queued rows, error counts, history, row locks, transactions | Enqueue (own or caller's transaction), lock, run, savepoint, finish, retry; admin delete and reschedule | workers of all instances, the application's transactions, the administrator | crash between run and commit, panic, swallowed errors, unknown types, retries | a job takes effect once; the history tells the truth; no job is lost |
| **jobs: MemoryQueue, TestQueue** `jobs/inmemory.go`, `jobs/testing.go` | slice of jobs, map of JobFuncs, ticker, cron | Enqueue, Schedule, RegisterJobFunc, tick, Shutdown | JobFuncs, cron | mutex released by hand around the JobFunc; a goroutine per tick | mutual exclusion; a failing job is tried again |
| **arepo: MemoryRepository, JSONStore** | map of entities, last integer ID, file | Create, Update, Delete, Save(All), AddAll, DeleteBy..., queries, iterator | a Store | undo after a failed store; check and act under different locks; crash while writing | what is reported as failed has not happened; memory and store agree |
| **arepo: Postgres, tenant repositories** | tables | the same interface | transactions of the context | batches that fail half way | same answers as in memory |
| **setting** | map of settings, in memory or in a table | Register, Save, Setting, Settings, Delete | every context at start | Register races with Save | a stored setting survives Register |
| **alog** | buffer, mutex, channel and batch of PostgresHandler; buffer of LokiHandler; level | Handle, WithAttrs, WithGroup, batch goroutine | every component; database, Loki | derived handlers share the buffer but not the mutex; errors leave the buffer dirty | a record is stored once, as it was logged |
| **contexts/admin: jobs** | (reads and prunes the tables of jobs) | delete, reschedule, schedule, prune, key figures | the queue | locked rows; arithmetic of pruning; reads without snapshot | only finished rows beyond the limit are pruned |
| **contexts/auth** | users, sessions, verification tokens | register, login, verify, block, session store | settings, queue, web | whole users are read, changed, saved without a transaction | a block lasts; logins are unique; a deleted session stays deleted |
| **app: decorators** | a transaction in the context | H | repositories, Enqueue | rollback fails, panic | all or nothing |
| **arrower CLI: run** | watcher, channels, running process, browser sessions | watch, build, stop, reload, shut down | file system, processes, browsers | unbuffered channels and a context | one app at a time; shutdown ends |
| **container** `dependencies.go` | everything | build, Start, Shutdown | everything | order of shutdown | nothing is closed while in use |
| renderer, secret, ctx, cmd, config, postgres | caches, wiring | | | | not modelled, see 7 |

The application enqueues jobs through `Enqueuer`; a use case decorated with the
transaction decorator passes its transaction on through the context, so that
repositories, settings and Enqueue take part in it. The queue runs a JobFunc in
the transaction of its job and passes that one on in the same way. The admin
context works on the queue's tables, the auth context enqueues mails, the
loggers observe all of it.

## 2. Plan

Done, in this order:

1. `JobsHandler`: the life cycle of the Postgres queue.
2. `AtomicJobs`, `JobQueue`: what the queue promises for one job, and the
   transactions that implement it.
3. `MemoryQueue`: the in-memory queue.
4. `EntityStore`, `MemoryRepository`: repository, store, undo, restart, and what
   they promise.
5. `SettingValue`, `Settings`: the conversions of values, and both stores.
6. `Auth`: users, sessions, tokens, requests.
7. `RunPipeline`: the goroutines of `arrower run`.
8. `UnitsOfWork`, `PostgresRepository`: what a use case with a transaction promises,
   and the repository, decorators, locks and pool that implement it.
9. `AdminJobs`: statistics and pruning.
10. `Logging`: the loggers, Loki's buffer, the batches.
11. Proofs of the safety of 1 to 10, and of the three refinements.

Left: the repository of tenants, whose `NextID` differs; the order in which
`Container.Shutdown` stops the parts, together with `JobsHandler` and `Logging`.

Bounds stay small (two actors, two or three keys, one or two failures) as every
known conflict is between two actors; the proofs are for all values.

## 3. The modules

### JobsHandler

One action for each stretch of `executeBetweenRestarts` that runs without
waiting: `Call` (entering RegisterJobFunc, Schedule or Shutdown with a valid
argument), `Lock` (`h.mu.Lock()`, the early return of `shutdown`,
`h.shutdownWorkerPool()`), `Wait` (`groupWorkerPool.Wait`), `Unregister` (the row
with zero workers, `hasStarted = false`), `Fn` (the closures), `Arm` (stopping
and creating the start timer). `Expire` and `StartWorkers` are the timer and its
goroutine, `PoolRun`/`PoolEnd` the errgroup's goroutine, `JobStart`/`JobEnd` the
workers of gue, `Probe*` the goroutine `continuouslyRegisterInstance`. The timers
and pools are numbered by the call that created them, so each variable is one
field of the struct, one goroutine's program counter, or a row in the database.
Errors of gueron, gue and the database are the constant `Faults`. Validation of
the JobFunc's signature happens before any state is touched and is left out; the
names and payloads of jobs are members of small sets.

### AtomicJobs and JobQueue

`AtomicJobs` is what a user of the queue sees: Enqueue, Complete (a job leaves
the queue in the moment its effects appear, together with the jobs it enqueued),
Fail and Remove. `JobQueue` has what `postgres.go` and gue do: `Lock` is gue's
`SELECT ... FOR UPDATE SKIP LOCKED`, `Start` the starting hook (a row in the
history, which `Garbled` arguments keep from being written) and `gueWorkerAdapter`
up to the JobFunc, `Write`, `EnqueueKids` and
`FailStatement` are the JobFunc with the transaction from its context, `Return`
is the rest of the adapter (rollback to or release of the savepoint) with the
finishing hook, which looks for open rows of its job and run (`Close`) and may find
none, `Commit` and `Rollback` are the end of the transaction, `Lose` is
a connection that breaks. A transaction's changes are collected in `pend` and
applied by `Commit` (`Left` is the history it leaves); a row is locked as long as the transaction of its worker is
open. `DeleteByID` and `RunJobAt` are the administrator's, `EnqueueTx`,
`CommitTx` and `RollbackTx` those of an application transaction.
gue itself is not part of the repository: what is assumed of it (locks, hooks,
recover, commit) is marked external in the map. Priorities, several queues and
the back-off time are abstracted to "the job is due sometime".

### MemoryQueue

The fields of the struct are `jobs`, `workerMap` (its keys) and what cron knows
(`scheduled`). The mutex itself is no variable: between taking and freeing it the
code does nothing that waits, so each critical section is one action.
`processFirstJob` has two: `TakeNone`, `TakeUnknown` and `Take` are the ways from
the first lock to the unlock, `Succeed` and `Fail` what happens after the JobFunc,
`Panic` the deferred unlock of a mutex that is free, which ends the process. `Tick`
starts a goroutine and `StopWorkers` ends the ticker; both are branches of one
`select`. `cron` is `"new"` until the goroutine `cron.Run` has begun, as
`cron.Stop` has no effect before. `born`, `done` and `dropped` record the fate
of each job; the code does not have them. A scheduled job is a new one every time
it is due.

### EntityStore and MemoryRepository

`EntityStore` is what a caller sees: a collection, what a restart will find, and the
call that has just returned with its result. A call succeeds, is refused, or
fails, in which case it changes nothing that was there, but with the exceptions its
header names. `MemoryRepository` has the mutex, the order of the
checks, the change in memory, the store (`Truncate`, `Write`, and the two places
at which it can fail), the undoing of each method, and the file. A method keeps
the mutex from `Enter` to its return; `AddAll` locks once per entity (`LookUp`) and
again in `SaveAll`. A list is a sequence of entities and may name an ID twice, with
another value. The undoing then depends on the order: `Old` is what SaveAll has found
before it stored an entity, which for the second one is the first, and `Reinstated` what
DeleteByIDs puts back, for the second one an empty entity. `Zero` is the
zero value of Go, which this and the undoing of a missing entity leave under the zero ID.
A crash may come at any point; `Open` reads the file back and does not happen if it
is `Broken`, as the code panics. `Mem` is the refinement mapping: under the mutex the
collection counts as it was before (`before`) until the method returns.
The store that does nothing is the case without faults; `AllIter` is left out.

### SettingValue and Settings

A value of a setting is a text. `SettingValue` has the forms of text that the
readers tell apart (a number, one with leading zeros, a fraction, an exponent or two
decimals, an infinity, a boolean and its other spellings, a time, JSON, ...), `NewValue`,
which writes them (`IsGoValue` says what a Go program can pass to it), and one operator
for each family of readers: `Bool`, `Integer`,
`Float`, `Time`, `String`, `UnmarshalString`, `UnmarshalStruct`. Integers keep their
width, which is a constant for each kind; numbers that fit neither of the widest two
(`InWord`) are read as floats. `ReadsBackAs` says what a reader owes to a writer.
`Settings` is both implementations: in memory a call takes the mutex of the
repository once per look-up and once per change (`Pick`, `Apply`); in Postgres it is
one statement in the transaction of its context, or alone (`Finish`). What `Settings` of
the table makes of the key of a row is a parameter (`cut`): the first three parts, or
nothing if there are fewer. `pend` is what a
transaction has changed; `Locked`, `Waits` and `Deadlocked` are the locks of
Postgres, and `Abort` ends one of two that wait for each other.

### Auth

`req[r]` is what the goroutine of a request has in hand, and its `pc` the statement
that comes next. `Begin` is middleware, session store (`Loaded` is what it may come back
with, an empty session if the statement fails) and `First`, the decision of
the controller. `ReadSetting`, `Exists`, `Find`, `FindSessions` and `Check` are
registration, login, verification and blocking up to their `Save`, which is `Upsert`
(the row of the user) and one `WriteSession` for each session, without a
transaction. `SaveSession` and `DeleteSession` write session and cookie at the end.
`SendMail` is the JobFunc that makes a token. Any statement may `Fail` and leave what
was written. `proved` and the field `old` of a request record what the properties
ask for; the code does not have them. Passwords, devices and addresses are left out.

### RunPipeline

`watcher`, `loop`, `server` and `ctl` are where the goroutines are: `WatchFolders`,
`WatchBuildAndRunApp`, the hot reload server and the command itself. `fsEvents` is
the channel of the notify library, which drops what does not fit; `FileChanged` is
the meeting on the unbuffered `fileChanged`; `hot` and `reloader` are the buffered
channels behind it. A file is its kind and a version, an app is the build it was
started from and the version it has. An app that SIGTERM or Kill cannot reach becomes a
"stray": the loop forgets it, and it goes on serving (`Strays`, `Serving`), so that a
page records whose it is (`Page`). `Take`, `AskToStop`, `Stopped`, `Build`, `BuildEnds`, `Start`
are the loop; `Load`, `Connect`, `Notify`, `Close` the tabs. `Crash` is a panic in a
goroutine. The debounce timer is the flag it sets.

### UnitsOfWork and PostgresRepository

`UnitsOfWork` is what the callers of use cases see: rows, the work of each use case
that is not committed, and the call that has just returned. It names the ways in
which the code is weaker than a unit of work: `Early` (UpdateAll and AllIter commit
the transaction of their use case), `All` (reads beside it), `CallUnknown` and `Fail`
(a COMMIT whose answer is an error may have happened), `DeleteNothing`.
A list has its IDs and its length, which differ if one is named twice (`NamedTwice`).
`PostgresRepository` has the decorator (`Begin`, `Commit`, `Rollback`), the pool
(`InUse`, `Free`), the statements (`Send`, `Execute`, `Change`, `Hits`), row
locks with deadlocks, and each method of the repository as the statements it sends.
`BeginOwn`, `Declare`, `IterEnds`, `CommitOwn` are AllIter as it should go, `BeginOwnFails`,
`DeclareFails`, `Break`, `ContextDone`, `IterFails` its other ends; where it returns without a
COMMIT (`Leave`) a transaction of its own stays open for good, and is counted in `lost`.
The refinement mapping is the committed rows, and the pending changes of the
transactions of use cases.

### AdminJobs

The viewer asks for a page, whose numbers come by one `Query` after the other while
`ScheduleJobs`, `Take`, `Succeed`, `FailRun` and `Crash` go on; `Present` divides
them. The daily job (`Cron`) reads its setting and runs up to three statements, of
which any may fail. Its statements go over the pool and not over the transaction of its
job, so a connection that breaks (`Crash`) ends the run but not the JobFunc: its `cron` state
moves to another number (`Lost`) and goes on beside the next run, until it returns to
nobody (`LostReturns`). A process that ends takes both along. `DeleteHistory`, `PruneHistory` and `VacuumJobTable` are requests.
The sizes of the table are counted in rows: `dead` rows take space until VACUUM.
`Wrap` is what happens to integers and durations that do not fit. What takes part in
a behaviour is its `cast`, so that independent parts are not multiplied.

### Logging

A thread goes through `Log` (level), `ReadUsers`, `ReadLevel`, Loki's handler
(`LokiTake`, `LokiSend`, `LokiReset`) and Postgres' (`LockRender`, `Write`, `Parse`,
`Reset`, then `Send` or `Save`). Saved settings may be texts that are no level or no list
(`Torn`), at which the call panics. `Receive`, `Tick` and `SaveBatch` are the goroutine of
the batches. `lokiBuf`, `buf`, `mu`, `lokiMu`, `records`, `batch` are the fields of the
same meaning. The mutex of a derived logger is its own and the buffer is shared, as in
the code: `Written` and `Readings` are what two threads may then find in it.
`disturbed` records which renderings have met another one.

`MC*` modules add the symmetry sets and the values of function constants.

## 4. What the runs check

| run | bounds | shows |
|---|---|---|
| `jobs_handler_safety` | 2 callers, 1 worker whose JobFunc may call back, 3 starts, all faults | `MutexHeld`, `SingleStart`, `Quiescent`: every path gives the mutex back, restarts never overlap and registrations only happen between pools |
| `jobs_handler_live` | 1 caller, 1 worker, 2 starts, no faults, fair | `StartHappens`, `CallsReturn`, `ProbesStop` |
| `job_queue_safety` | 3 jobs (one of whose arguments its JobFunc cannot read, one whose arguments nobody can), 2 workers (one knows no type), 1 client, 2 failures, 2 losses, panics and swallowed errors | `OwnJob`, `HistoryComplete` |
| `job_queue_atomic` | 2 jobs, 2 workers, 1 client, 2 failures, 1 loss, no panics, fair | `JobQueue` implements `AtomicJobs`; `JobsFinish` |
| `memory_queue` | 3 jobs of 2 types, one always fails, 2 goroutines, slices of 2, panics, fair | `Conserved`, `JobsFinish`, `StopsInTheEnd` |
| `memory_repository` | 3 IDs (zero among them), 2 values, lists with and without an ID twice, one goroutine that reads, draws IDs and adds lists beside one that changes entities, all faults and crashes | `MemoryRepository` implements `EntityStore` |
| `settings` | 2 keys, 2 clients of which one has transactions, integers of 3 and 4 bits with values inside and outside of both, every form of text, fair | `ReadsBack`, `RegisterKeeps`, `CallsReturn`, for both stores |
| `auth` | 2 users, logins, keys, tokens, 1 browser, 1 request of a visitor beside 1 of an administrator, 3 in all, from an empty database or from one with a superuser | `VerifiedByToken`, `BlockLasts` |
| `run_pipeline` | 1 tab, 2 changes, all faults (watcher, build, tidy, start, SIGTERM, Kill, browser), fair | `OneApp`, `ToldTabsCurrent`, `CleanExit`, `ChangesBuilt`, `ShutdownEnds` |
| `postgres_repository` | 2 IDs, 2 clients, use cases of up to 2 calls, lists that are empty, have both IDs, one twice, or the zero one, 3 connections, all faults (BEGIN, statements, COMMIT, context) | `PostgresRepository` implements `UnitsOfWork`; `PoolSuffices` |
| `admin_jobs` | 2 jobs in 2 queues and the daily one, 2 runs, 1 call that has lost its connection, 1 request, a day of 2 ticks, durations of 4 bits, fair | `CronThorough`, `StatsHonest`, `PruneJustified`, `LocksEnd` |
| `logging` | 2 threads, 1 user, 2 loggers, 2 records, settings of every kind and of none, a channel of 1, batches of 2, one event outside, fair | `RowsHonest`, `LokiKeeps`, `RecordsArrive` |

All runs pass. `TypeOK` (`SettingsTypeOK`, `AdminTypeOK`) is checked in most of them and
proved for the modules of section 6; it says more than types where there are capacities, mutexes or counters.

Three starts are the smallest number in which a pool is replaced, the new one is
replaced in turn, and a timer of the past is still around; two callers the
smallest in which one waits for the mutex of another. Three jobs allow for one
that runs, one it enqueues and one of a client, and for one of each sort of arguments,
two for a job and its child (the
refinement is proved for any number); a lost connection makes a second worker take
over a job that is still running, a second one leaves two open rows of one job. The in-memory queue needs a job that fails
for ever, one behind it, and one of another type. In the repository three IDs are
the zero one, one that exists and one that does not; two values tell the old
entity from the new one, and the goroutine that adds lists is the only one whose
call spans several critical sections, so that one more that writes is enough for it
to be interrupted. Settings need two keys for transactions to lock them in opposite
order, and bits enough for a value to fit one type and not another. In Auth three
requests are a registration and two that overlap, or two that overlap and a third
that sees the result; what needs more (a block undone, another one done) is proved.
Two changes make the app be replaced while it serves a tab and again while it is
being built; one tab is enough as tabs do not interact. Two clients deadlock over two
rows, and three connections are one more than there are clients. One run of the
daily job, one of its calls that lives on, one other and one request are the largest conflict over the history.
Two records fill a channel of one and make two renderings meet.

The following does not agree with a comment or test of the code, or may surprise
its users. It was met while modelling; the models contain it, and the properties above
are stated so that they say what holds nevertheless. Where a name is given, it is that
of a property in the module which no run checks because the code does not have it.

*Queue in Postgres.* A second registration of a job type that meets an expired start
timer returns nil instead of its error (`postgres.go:278`; `ErrorReported`). Shutdown
before the first start returns at `postgres.go:881` and leaves the timer armed, so that
workers start after it (`ShutdownIsFinal`). When gueron fails to load (`postgres.go:614`)
`isStartInProgress` stays set and no later registration starts anything
(`AdditionRestarts`). What a JobFunc wrote before it panicked is committed, and the job
runs again (541; `EffectOnce` holds without panics only). A JobFunc that returns nil
after a failed statement is retried at once and leaves no trace (560;
`FailuresRecorded`). The life probe reads the length of `gueWorkMap` (694) before it
takes the mutex, and shutdown does not wait for it. Its statement (690) may reach the
database after the one with zero workers, and the pool seems alive. A JobFunc that
calls RegisterJobFunc, Schedule or Shutdown of its own queue while that is restarted
waits for a mutex whose holder waits for the JobFunc (888). A job of an unknown type
leaves its row of the history open, as gue fails it without the finishing hook (774). A job
whose arguments are no JSON object gets no row at all (756), although its failures are
counted; `HistoryComplete` excepts it.

*Queue in memory.* `MemoryQueue.Shutdown` does not wait for JobFuncs that run
(`jobs/jobs.go:80` says that Shutdown does), and a scheduled slice is appended as one job
that has no type (`jobs/inmemory.go:86`) and is dropped.

*Repositories.* When Save has replaced an entity and the store fails, its undoing deletes
the entity (`arepo/inmemory.repository.go:457`; `FailedSaveChangesNothing`). Two calls of
`AddAll` with one ID both find it absent, and the second overwrites what the first has
added (536): `EntityStore` has to allow it. If a list names an ID twice and the store fails,
SaveAll leaves the first of the two values instead of what was there (477), and DeleteByIDs
an empty entity under the zero ID (567). `NextID` counts from zero after a restart
(154); `AllIter` reads the map without the mutex. In Postgres, UpdateAll and AllIter end
the transaction of their use case (`arepo/postgres.repository.go:530`, 791); All reads
beside it over a second connection (257), misses what it has written, and waits for ever
when as many use cases as the pool has connections do so. Tx ignores the error of Begin
(102), so that AllIter panics. Its own transaction, and with it a connection, is lost for good
if the DECLARE fails (712), the context is done (770), or the consumer stops (778); a consumer
that stops at the error of CLOSE panics if COMMIT fails too (793). With an ID twice in a list
AllByIDs is ErrNotFound (285), ContainsIDs false (411), and AddAll adds nothing.
SaveAll and ExistAll panic; a query with groups only returns all rows (658). A panic in a use case never ends
its transaction, and an error of Rollback replaces that of the use case
(`app/tx.decorator.go:34`).

*Settings.* In memory, Register may overwrite what Save stores between its look-up and
its change of a key that was missing (`setting/inmemory.settings.go:23`). Settings of a
key that is named twice is ErrNotFound in Postgres. There it also cuts the keys it returns to
three parts, which may make two keys one, and panics at a key with fewer
(`setting/postgres.settings.go:110`). A text that looks like a boolean
or a number comes back as one: `"1"` unmarshalled into a string is `true`, and so are `t`, `T` and
`TRUE` (`setting/settings.go:284`). `String` of a text with more digits than 64 bits hold,
of `inf` or of `nan` is that of a float (246). NewValue panics at a value of a type that is
defined as a string or a boolean (70, 79).

*Auth.* A superuser that becomes another user, and from there a third one, returns as the
second (`superuser.controller.go:61`). A session that is deleted while a request is under
way is stored again (`pg.session.store.go:116`), and so are the sessions with which a user
was read. A row that has only been written by a use case has no data, and the next
request with its key is refused. If the statement that reads a session fails, the request goes
on with an empty one under the old key (`pg.session.store.go:75`). An error of the look-up of a
login counts as "is free" (`user.postgres.repository.go:92`); the constraint of the table then
decides. If the mail of a registration is not enqueued
(`register-user.usecase.go:93`) the login is taken and cannot be verified. Both settings
are saved as true at each start. A stale save may undo a block, or restore one.

*arrower run.* `WatchFolders` "terminates once the ctx is cancelled"
(`detect-file-changes.business.go:20`), but not while it hands on a file (48): if the loop
has left, neither ends (`WatcherEnds`). A change within the debounce interval of another
is not built. An error of openBrowser makes the command panic and leaves its app running,
and so does a signal that comes before the browser is open, as it cancels that call
(`detect-build-run-app.business.go:54`); after an error of `go mod tidy` or of the start the
binary stays, also if it was the signal that ended `go mod tidy`. An app that SIGTERM or Kill does
not reach keeps its port and shows the old version to whoever asks, and its binary is deleted
all the same (`build-run-app.business.go:141`, 150).

*Administration.* A page divides by a number it has read after it was compared with zero
in another (`list-all-queues.go:56`, `pages/jobs.queue.go:96`). VACUUM FULL of the history
and the daily job wait for each other: the statement of the job for the VACUUM, which
waits for the transaction of the job (`vacuum-job-table.usecase.go:47`); Postgres does not
see it, and no worker starts a job meanwhile. The daily job does not notice that its connection is lost
and goes on, over the pool, beside its next run (`prune-job-history-cron.usecase.go:74`). Days that do not fit into a Duration
(`jobs.controller.go:325`) and gigabytes that do not fit into an integer may empty the
history. A table above its limit loses all finished rows, and one between half of it and all of it
a tenth of them, as the limit is divided by the size as integers (`query.sql:207`); rows of the
time at which pruning begins go with it (198).

*Logging.* Loggers that were derived from one another race for the buffer
(`postgres-handler.go:242`). An error after rendering (203) leaves the buffer as it is, and no
later record can be parsed. A row that Postgres refuses takes its whole batch along, without
an error. What is in the channel or in the batch when the process ends is lost. A failed
transmission to Loki is repeated with the next record, under the labels of that one.
Derived loggers never learn that Loki has become available. A saved level that is no number and
saved users that are no list make every call panic that reads them (`arrower-logger.go:241`, 256).

`CHECK_DEADLOCK FALSE` is set where the system may rest: nobody calls any more,
or all jobs are done.

## 5. Fairness

`JobsHandler!Fairness`: goroutines that can run do (weak fairness). Taking
`h.mu` is strongly fair because `sync.Mutex` hands itself to a waiter after a
millisecond of starvation; the branches of `select` are strongly fair because Go
chooses at random among the ready ones. Timers expire. JobFuncs return and do not call
their own handler, which the package must assume of its users.

`JobQueue!Fairness`: time passes (`Due`), workers make progress once they have a
job. That some worker takes a due job is strongly fair: a job may be locked
whenever a worker looks, and gue's poll orders jobs of one priority by `run_at`, so
newer ones do not overtake it for ever. `MaxErrors` bounds the failures of a job:
"succeeds in the end". Without this assumption a job fails for ever, as it should.

`MemoryQueue!Fairness`: goroutines go on and JobFuncs return; `Tick` and `StopWorkers`
are strongly fair, since `select` chooses at random among what is ready; a job that is
not in `Poison` succeeds if it is run again and again. Nothing is assumed of callers,
of cron's times or of panics.

`Settings!SettingsFairness`: calls that can go on do. The statement of a call (`Apply`) and the
end of a transaction are strongly fair: Postgres hands the lock of a row to one of those
that wait in line for it. A caller ends its transaction. Aborting one of two that wait
for each other is Postgres' `deadlock_timeout`.

`RunPipeline!Fairness`: each of the four goroutines that has something to do does it;
builds, starts and stops come to an end. Nothing is assumed of developers, browsers, the
app, or of the signal; the timer of the debouncing need not expire.

`AdminJobs!AdminFairness`: the daily job, the transactions of workers, and a VACUUM that nothing
holds up go on. When its clock has reached `MaxTime` time stands still, which no liveness
property asks about.

`Logging!Fairness`: goroutines go on and requests to Loki and Postgres are answered, if
only by an error. Taking a mutex and sending to the channel are strongly fair (mutexes are
handed over after a millisecond, senders wait in line), and so is `Receive`, as `select`
chooses at random between the channel and the ticker.

`Auth` and `PostgresRepository` have no liveness properties and assume no fairness: `PoolSuffices`
is a state predicate that excludes the cycles in which all clients wait.

## 6. What is proved

Eight modules `*Proofs`; all obligations are checked by tlapm with Z3, Zenon and LS4, for
any number of threads, starts, jobs, transactions, entities, users, connections, and so on.
Of the constants only the assumptions named in the modules are used. Each safety property
and each refinement that a run checks is stated by a theorem. `JobsProofs` is about
`JobsHandler` and `AdminJobs`, `QueueSettingsProofs` about `MemoryQueue` and `Settings`, which
share no name; each other module is about the one it is named after.

*JobsHandler.* `TypeCorrect`, `MutexCorrect`, `SingleStartCorrect`,
`OnlyKnownPoolCorrect`, `JobsInPoolCorrect`, `QuiescentCorrect`, `WorkMapCorrect`. None of these
properties is inductive alone: that a pool is the known one depends on how far the
call is that shuts it down, and that depends on what the timer has done. The
inductive invariant joins the type, the mutex, the pending start, the known pool
and `Phases`, which says for each phase of a call what is known of the pool
(`wait`: it has been cancelled and `hasStarted` is set; `unregister`: it has ended;
`fn` and `arm`: nothing is started). Each action has one step.

*JobQueue.* `TypeCorrect`, `OwnJobCorrect`, `HistoryCorrect`, `Refinement`,
`EffectOnceCorrect`. The invariant adds to `OwnJob` what a worker's phase says of
its transaction (`WorkerPhase`), that jobs in open transactions are new and belong
to one transaction only (`Fresh`), and that queued jobs were stored and due ones
are queued (`Stored`). For `HistoryCorrect` it says which rows a job has so far, one for each
run but those with `Garbled` arguments, and that the finishing hook finds the row of its own
run and no other. `Refinement` shows under
`"panic" \notin Behaviours` that each step is one of `AtomicJobs` or changes none of
its variables; `EffectOnceCorrect` follows from it and an invariant of the abstract
queue. With panics both are false.

*MemoryQueue.* `TypeCorrect`, `ConservedCorrect`. `Conserved` becomes inductive with
`CallHasJob`: a goroutine has a job exactly while the JobFunc runs. Lemmas say what
concatenation, Append and Tail do to the set of jobs in a slice and to its being
without doubles.

*MemoryRepository.* `TypeCorrect`, `MutexCorrect`, `Refinement`. The invariant joins
the type, the mutex, that a client that works has a legal call (`CallKnown`), that
while it works memory is `before` with the call applied (`Working`), and that a
process that is down holds nothing (`Down`). `UndoneRestores` is the core of
`Refinement`: what each method's undoing gives back from a memory with its change in
it, for lists of any order and with any ID in them as often as one likes.

*Auth.* `TypeCorrect`, `VerifiedCorrect`, `LoginsCorrect` (no two users have one login),
`BlockCorrect`. The invariant says what a request has in hand at each `pc` (`InHand`); that
verified users have shown a token must also hold of the copies in hand, as these are saved
later. `BeginAsks` says with what a request begins, whatever its session store came back with. `LoginsCorrect` needs no more than the constraint of the table, in the step of
`Upsert`. For `BlockCorrect` the invariant `AllAware` says that a request which will save a
user whom the table has as blocked has read the block, or has been marked as one that read
the user before.

*RunPipeline.* `TypeCorrect`, `OneAppCorrect`, `TabsCorrect`, `ExitCorrect`. The bound on builds needs that every build but
the first is for a change that was handed on and not yet counted (`Counted`, `Sent`); `OneApp`
needs that an app that runs is the one the loop can stop, or the one it is starting (`Known`),
or a stray. `TabsCorrect` (`ToldTabsCurrent`): a tab that was told of a change loads an app that has
it, or a stray (`ToldShown`).
Its invariant `Told` follows the change on its way: what the loop is about to announce, and
what is in the channels `hot` and `reloader`, is no newer than the app that runs (`Lives`) or is being
built (`Current`), which no later step makes false as versions only grow (`LoopGrows`).
`ExitCorrect` (`CleanExit`): a binary that is left belongs to the build under way, to the app the
loop knows, or to a build whose `go mod tidy` or start has failed (`Left`).

*PostgresRepository.* `TypeCorrect`, `PoolCorrect`, `UnitsCorrect`. The invariant `Client(c)` says for each
phase of a call which connection and which transaction the client has; with `Shared`, no more
connections are in use than there are. From these follows by a counting argument
(`OneEach`) that, with more connections than clients, one is free when all clients that
need one hold at most one each; the remaining ones would all wait for rows, and a finite set
of clients that all wait for each other has a cycle, which Postgres breaks. It is conditional on no transaction having been lost (`lost`), which only an
AllIter outside of a use case and a panic of SaveAll do. `UnitsCorrect` is
the refinement of `UnitsOfWork`. Its invariant `RInv` adds to `Client` what a transaction and the
place in a method say about each other (`Trace`): a transaction that is not open has no
changes, one outside of a use case only those of UpdateAll, and UpdateAll has written the
entities that are no longer to do (`UpdatedSoFar`), so that its COMMIT is the moment at which
the call as a whole takes effect. Under it each action is one of `UnitsOfWork` or changes
none of its variables (`CallStep` to `UnitStep`).

*Logging.* `TypeCorrect`, `RowsCorrect`, `LokiKeepsAll`. A row is what it claims as the thread that
renders finds its own record in the buffer, unless another one met it: the invariant says
for each phase of rendering what is in the buffer and who may have disturbed it. It also has
the mutexes, the capacity of the channel and of the batch. `LokiKeepsAll` follows from the
types.

*Settings.* `SettingsTypeCorrect`, `ReadsBackCorrect`, `RegisterCorrect` (`RegisterKeeps`), for both
stores. `SInv` says that each row, committed or not, is what some client writes (`ValuesOK`), and
that what a call has seen since it began is still there for it, and in memory is nothing a
Register works on (`SeenOK`). `ReadsBackCorrect` then is a matter of the conversions:
`GoValueText` shows for each kind of Go value, and integers of any width, that the readers give
back what `NewValue` wrote, however its text looks. It rests on the kinds being different
(`KindsAssumption`) and on `GoValues` being values of Go that the kinds can hold.
`SettingsAnswer` is what Settings gives for any keys and any way of cutting them.
`RegisterCorrect` needs `LocksOK` in addition: a row is locked by one client, and
a Register outside of a transaction has changed no committed row when its statement ends.

*AdminJobs.* `AdminTypeCorrect`, `CronThoroughCorrect`, `StatsHonestCorrect`, `PruneCorrect`
(`PruneJustified`). `WorldOK` says that rows of the history are of runs that have ended (`Ran`), so
that no row which the daily job has seen comes back once it is gone; what a step of that
job has reached stays while workers and requests go on, and beside calls that have lost their
connection (`KeptEntries`, `KeptAge`, `KeptSize`).
`BeyondLeaves` and `BeyondOthers` are about the cut-off: how many rows it leaves, and that
enough others are no older than a row it takes. `WrapBound` says when a number survives the
width of an integer. `PageOK` says that the numbers a page has read so far are those of the tables
as long as nothing changed (`calm`); that the numbers per type add up to the number of pending
jobs is the bijection in `SumByType`. For `PruneCorrect`, `ChangeJustified` has one case for each
of the statements that remove rows, and `OnlyPruning` shows that there are no others.

Only model-checked: liveness (`StartHappens`, `CallsReturn`, `ProbesStop`, `JobsFinish`,
`StopsInTheEnd`, `ChangesBuilt`, `ShutdownEnds`, `LocksEnd`, `RecordsArrive`), which is out of the
prover's reach as is ENABLED. No module has a RECURSIVE operator.

## 7. Not modelled

*Parts of modelled components.* NextID and the aliases of Postgres' Count; AllIter of the memory
repository; `jobs`: priorities, several queues per handler, the back-off of gue; conversions of
text to floats beyond their form; what the goroutine of AllIter fetches while the caller of the
iterator sends statements over the same connection ("conn busy"), and calls inside its loop; passwords, devices and addresses of a login; nested use cases
with a transaction; spans and formatting of logs.

*Components.* The users of auth in memory serve tests; generation of source and the hooks of the
command line tool keep no state. The repository of tenants is the memory repository behind a map of tenants;
`TestQueue` and the conformance tests of repositories are assertions. Rendering of templates
and generation of source text are functions of text (the renderer's cache is guarded by one
mutex throughout). Parsing of requests, views, `secret` (masking), the look-up of addresses and
reading of the configuration have no state that outlives a call. The wiring in `dependencies.go`
stops the parts one after the other: `Container.Shutdown` without a Start that has succeeded
dereferences a nil endpoint, and the pool is closed after the queues although a life probe may
still send; both were seen by reading. Third-party code (gue, gueron, pgx, pgxpool, Postgres,
cron, notify) is in the models only as far as the code relies on it, marked external in the map.
