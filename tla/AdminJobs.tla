----------------------------- MODULE AdminJobs -----------------------------
(***************************************************************************)
(* The administration of jobs (contexts/admin): the statistics of queues   *)
(* and lists of finished jobs, which are read by several statements while  *)
(* workers go on, and the pruning of the history by the daily job, by      *)
(* requests and by VACUUM FULL.                                            *)
(*                                                                         *)
(* How a worker runs a job is in JobQueue; here a run is its start, which  *)
(* locks the tables until it ends, and its end, when its row of the        *)
(* history appears with the time of its start. Order, payloads and         *)
(* durations of jobs, the list of pending jobs and the workers on the      *)
(* pages are left out.                                                     *)
(***************************************************************************)
EXTENDS Integers, FiniteSets

CONSTANTS
  Jobs,
  CronJobs,     \* the jobs of type PruneJobHistoryCronCommand
  QueueOf, TypeOf, Types,
  Blank, Default, \* the name of the default queue in the tables, and for people
  MaxLost,      \* bound: calls of a daily job that go on without their run
  MaxRuns,      \* bound: runs of a job that come to an end, 1 without "retries"
  MaxDead,      \* bound: deleted rows that take space
  MaxTime,      \* bound: of the clock
  TimeDay, Half, \* a day, and the width of integers and durations: -Half .. Half - 1
  GB, Empty,    \* sizes are in rows of the history: of a GB, and of a table without rows
  Limit,        \* of a list of finished jobs: 100
  Days,         \* what DeleteHistory and PruneHistory may be given
  Crons,        \* settings of the daily job: a value or Off for each
  Filters,      \* of finished jobs: [queue, type]
  SettingsOf,       \* by set of "viewer", "admin", "cron", "errors", "crashes", "retries",
                \* what happens: the settings of the daily job at the start
  MaxRequests,  \* bound: requests of the administrator
  Off, None

Queues == {QueueOf[j] : j \in Jobs}

\* A call of the JobFunc of a daily job: 0 is that of its run, the others have lost the
\* connection with the transaction of theirs.
Calls == CronJobs \X (0 .. MaxLost)

Registered == [entries |-> Off, age |-> Off, size |-> Off]

ASSUME BoundAssumption ==
  /\ MaxLost \in Nat /\ MaxRuns \in Nat \ {0} /\ MaxDead \in Nat /\ MaxTime \in Nat /\ MaxRequests \in Nat
  /\ TimeDay \in Nat /\ Half \in Nat \ {0}
  /\ GB \in Nat /\ Empty \in Nat \ {0} /\ Limit \in Nat
ASSUME JobAssumption ==
  IsFiniteSet(Jobs) /\ CronJobs \subseteq Jobs /\ TypeOf \in [Jobs -> Types]
ASSUME SettingAssumption ==
  /\ Days \subseteq Int
  /\ Crons \subseteq [entries : Nat \cup {Off}, age : Nat \cup {Off}, size : Nat \cup {Off}]
  /\ Registered \in Crons
  /\ \A c \in DOMAIN SettingsOf : SettingsOf[c] \subseteq Crons
  /\ Off \notin Int
ASSUME NoneAssumption ==
  None \notin Queues \cup {Default} /\ None \notin Crons /\ None \notin [Types -> Nat]

VARIABLES
  now,
  jobs,     \* gue_jobs: [st, errors, at], where at is the start of the run
  history,  \* gue_jobs_history
  dead,     \* rows of it that are deleted and still take space
  setting,  \* SettingAutomaticallyPruneJobHistory
  cron,     \* by call: where it is, and what it has read
  vac,      \* the table that a VACUUM FULL waits for, or None
  cast,     \* what happens in this behaviour
  asked,    \* requests of the administrator so far
  last,     \* the pruning that has just been done
  view,     \* the request of the viewer
  calm,     \* whether nothing has changed since its numbers are being read
  shown     \* its last answer

tables == <<jobs, history, dead>>
viewing == <<view, calm, shown>>
adminVars == <<now, tables, setting, cron, vac, cast, asked, last, viewing>>

Tables == {"gue_jobs", "gue_jobs_history"}

Rows == [job : Jobs, run : Nat, at : 0 .. MaxTime, finished : BOOLEAN, success : BOOLEAN]

Numbers == {"pending", "failed", "processed"}
NoNumbers == [pending |-> -1, failed |-> -1, processed |-> -1, types |-> None]
NoView == [kind |-> "none", queues |-> {}, queue |-> None, got |-> NoNumbers]
NoCron == [step |-> "none", set |-> None, failed |-> {}, seen |-> {}, at |-> 0]

\* A daily job runs exactly while its run has a call. Lost ones may go on beside it.
AdminTypeOK ==
  /\ now \in 0 .. MaxTime
  /\ jobs \in [Jobs -> [st : {"unborn", "pending", "running", "gone"},
                        errors : Nat, at : 0 .. MaxTime]]
  /\ \A j \in Jobs : jobs[j].errors <= MaxRuns
  /\ history \subseteq Rows
  /\ \A r, s \in history : r.job = s.job /\ r.run = s.run => r = s
  /\ dead \in 0 .. MaxDead
  /\ setting \in Crons
  /\ \A c \in Calls :
       /\ cron[c].step \in {"none", "setting", "entries", "age", "size", "end"}
       /\ cron[c].set \in Crons \cup {None}
       /\ cron[c].failed \subseteq {"setting", "entries", "age", "size"}
       /\ cron[c].seen \subseteq Rows
  /\ \A c \in CronJobs : (cron[<<c, 0>>].step # "none") = (jobs[c].st = "running")
  /\ vac \in Tables \cup {None}
  /\ asked \in 0 .. MaxRequests
  /\ view.kind \in {"none", "queue", "list", "finished"}
  /\ view.queues \subseteq Queues \cup {Default}
  /\ view.queue \in Queues \cup {Default, None}
  /\ calm \in BOOLEAN

AdminInit ==
  /\ now = 0
  /\ jobs = [j \in Jobs |-> [st |-> "unborn", errors |-> 0, at |-> 0]]
  /\ history = {} /\ dead = 0
  /\ cast \in DOMAIN SettingsOf /\ setting \in SettingsOf[cast]
  /\ cron = [c \in Calls |-> NoCron]
  /\ vac = None
  /\ asked = 0
  /\ last = None
  /\ view = NoView /\ calm = TRUE /\ shown = None

-----------------------------------------------------------------------------
(* The tables.                                                             *)

\* A statement that waits for the lock of a table that VACUUM FULL waits for.
Locked(table) == vac = table

Finished == {r \in history : r.finished}
Queued(st) == {j \in Jobs : jobs[j].st \in st}

\* A value of int64, and a Duration.
Wrap(x) == ((x + Half) % (2 * Half)) - Half
Quotient(a, b) == IF a < 0 THEN -((-a) \div b) ELSE a \div b

\* time.Now().Add(-1 * time.Duration(days) * timeDay)
Before(days) == now + Wrap(-days * TimeDay)

\* pg_total_relation_size
Size == Empty + Cardinality(history) + dead

\* The rows at and after the cut-off: the time of the row that follows the first
\* `offset` ones in descending order. Mutant: the offset is one too small.
BeyondLess(offset) ==
  {r \in Finished : \E c \in Finished :
     /\ Cardinality({f \in Finished : f.at > c.at}) <= offset - 1
     /\ Cardinality({f \in Finished : f.at >= c.at}) >= offset
     /\ r.at <= c.at}
Beyond(offset) ==
  {r \in Finished : \E c \in Finished :
     /\ Cardinality({f \in Finished : f.at > c.at}) <= offset
     /\ Cardinality({f \in Finished : f.at >= c.at}) > offset
     /\ r.at <= c.at}

\* FLOOR(limit / size * COUNT(*) * 0.9), where limit / size is a whole number.
SizeOffset(value) ==
  LET part == Quotient(Wrap(value * GB), Size) * Cardinality(Finished) * 9
  IN  part \div 10

Smaller(a, b) == IF a < b THEN a ELSE b

Delete(rows) ==
  /\ history' = history \ rows
  /\ dead' = Smaller(MaxDead, dead + Cardinality(rows))

\* Deleted rows may have been made room of in the meantime.
Insert(row) ==
  /\ history' = history \cup {row}
  /\ dead' \in {dead, dead - 1} \cap Nat

-----------------------------------------------------------------------------
(* Workers.                                                                *)

NewJob == [st |-> "pending", errors |-> 0, at |-> 0]

ScheduleJobs(new) ==
  /\ new # {} /\ \A j \in new : jobs[j].st = "unborn"
  /\ ~Locked("gue_jobs")
  /\ jobs' = [j \in Jobs |-> IF j \in new THEN NewJob ELSE jobs[j]]
  /\ last' = None
  /\ UNCHANGED <<now, history, dead, setting, cron, vac, cast>>

\* A worker takes a job: recordStartedJobsToHistory.
Take(j) ==
  /\ jobs[j].st = "pending" /\ jobs[j].errors < (IF "retries" \in cast THEN MaxRuns ELSE 1)
  /\ vac = None /\ (j \in CronJobs => "cron" \in cast)
  /\ jobs' = [jobs EXCEPT ![j].st = "running", ![j].at = now]
  /\ cron' = IF j \in CronJobs
             THEN [cron EXCEPT ![<<j, 0>>] =
                     [NoCron EXCEPT !.step = "setting", !.at = now, !.seen = history]]
             ELSE cron
  /\ last' = None
  /\ UNCHANGED <<now, history, dead, setting, vac, cast>>

\* The JobFunc has returned, or ends with its process. Mutant: it goes on as that of
\* the run.
EndedNot(j) == cron
Ended(j) == IF j \in CronJobs THEN [cron EXCEPT ![<<j, 0>>] = NoCron] ELSE cron

\* It does not notice that the connection is lost.
Lost(j, n) == [cron EXCEPT ![<<j, n>>] = cron[<<j, 0>>], ![<<j, 0>>] = NoCron]

Row(j, finished, success) ==
  [job |-> j, run |-> jobs[j].errors, at |-> jobs[j].at, finished |-> finished, success |-> success]

\* Its transaction commits: recordFinishedJobsToHistory.
Succeed(j) ==
  /\ jobs[j].st = "running"
  /\ j \in CronJobs => cron[<<j, 0>>].step = "end" /\ cron[<<j, 0>>].failed = {}
  /\ jobs' = [jobs EXCEPT ![j].st = "gone", ![j].at = 0]
  /\ Insert(Row(j, TRUE, TRUE))
  /\ cron' = Ended(j)
  /\ last' = None
  /\ UNCHANGED <<now, setting, vac, cast>>

\* The JobFunc fails, or the worker has none for the type of the job: then nobody
\* finishes its row.
FailRun(j) ==
  /\ jobs[j].st = "running"
  /\ j \in CronJobs => cron[<<j, 0>>].step = "end" /\ cron[<<j, 0>>].failed # {}
  /\ jobs' = [jobs EXCEPT ![j].st = "pending", ![j].at = 0, ![j].errors = @ + 1]
  /\ \E finished \in IF j \in CronJobs THEN {TRUE} ELSE BOOLEAN : Insert(Row(j, finished, FALSE))
  /\ cron' = Ended(j)
  /\ last' = None
  /\ UNCHANGED <<now, setting, vac, cast>>

\* The process of the worker ends, or its connection is lost.
Crash(j) ==
  /\ jobs[j].st = "running"
  /\ jobs' = [jobs EXCEPT ![j].st = "pending", ![j].at = 0]
  /\ \/ cron' = Ended(j)
     \/ \E n \in 1 .. MaxLost : j \in CronJobs /\ cron[<<j, n>>] = NoCron /\ cron' = Lost(j, n)
  /\ last' = None
  /\ UNCHANGED <<now, history, dead, setting, vac, cast>>

Tick ==
  /\ now < MaxTime
  /\ now' = now + 1
  /\ last' = None
  /\ UNCHANGED <<tables, setting, cron, vac, cast>>

Work ==
  \/ \E j \in Jobs : Take(j) \/ Succeed(j) \/ FailRun(j) \/ ("crashes" \in cast /\ Crash(j))
  \/ ("viewer" \notin cast /\ Tick)

-----------------------------------------------------------------------------
(* The daily job: pruneJobHistoryCronCommandHandler.                       *)

StepAfter(step) == CASE step = "setting" -> "entries" [] step = "entries" -> "age"
                 [] step = "age" -> "size" [] step = "size" -> "end"

\* Its statements go through the pool, not through the transaction of its run: a call
\* that is lost goes on. Mutant: the first error ends it.
GoOnAtError(c, step, failed) ==
  cron' = [cron EXCEPT ![c].step = IF failed THEN "end" ELSE StepAfter(step),
                       ![c].failed = IF failed THEN @ \cup {step} ELSE @]
GoOn(c, step, failed) ==
  cron' = [cron EXCEPT ![c].step = StepAfter(step),
                       ![c].failed = IF failed THEN @ \cup {step} ELSE @]

\* The setting is read in the transaction of the run.
ReadSetting(c) ==
  /\ cron[c].step = "setting"
  /\ \/ c[2] = 0 /\ cron' = [cron EXCEPT ![c].step = "entries", ![c].set = setting]
     \/ /\ c[2] # 0 \/ "errors" \in cast
        /\ cron' = [cron EXCEPT ![c].step = "end", ![c].failed = {"setting"}]
  /\ last' = None
  /\ UNCHANGED <<now, tables, setting, vac, cast>>

\* The step is not switched on.
Skip(c) ==
  /\ cron[c].step \in {"entries", "age", "size"}
  /\ cron[c].set[cron[c].step] = Off
  /\ GoOn(c, cron[c].step, FALSE)
  /\ last' = None
  /\ UNCHANGED <<now, tables, setting, vac, cast>>

Doing(c, step) ==
  /\ cron[c].step = step /\ cron[c].set[step] # Off
  /\ ~Locked("gue_jobs_history")
  /\ UNCHANGED <<now, jobs, setting, vac, cast>>

Pruning(op, value) == last' = [op |-> op, value |-> value, size |-> Size]

TruncateHistoryEntries(c) ==
  /\ Doing(c, "entries")
  /\ Delete(Beyond(cron[c].set.entries))
  /\ GoOn(c, "entries", FALSE)
  /\ Pruning("entries", cron[c].set.entries)

PruneHistory(c) ==
  /\ Doing(c, "age")
  /\ Delete({r \in history : r.at <= Before(cron[c].set.age)})
  /\ GoOn(c, "age", FALSE)
  /\ Pruning("age", cron[c].set.age)

\* The VACUUM FULL that follows it in query.sql is not in the statement that sqlc has
\* made of it. Mutant: it is, and waits for the transaction of the run.
TruncateHistorySizeVacuums(c) ==
  /\ Doing(c, "size")
  /\ Queued({"running"}) = {}
  /\ SizeOffset(cron[c].set.size) >= 0
  /\ Delete(Beyond(SizeOffset(cron[c].set.size)))
  /\ GoOn(c, "size", FALSE)
  /\ Pruning("size", cron[c].set.size)
TruncateHistorySize(c) ==
  /\ Doing(c, "size")
  /\ SizeOffset(cron[c].set.size) >= 0
  /\ Delete(Beyond(SizeOffset(cron[c].set.size)))
  /\ GoOn(c, "size", FALSE)
  /\ Pruning("size", cron[c].set.size)

\* The database has an error, or refuses a negative OFFSET.
StepFails(c) ==
  \E step \in {"entries", "age", "size"} :
    /\ Doing(c, step)
    /\ "errors" \in cast \/ (step = "size" /\ SizeOffset(cron[c].set.size) < 0)
    /\ GoOn(c, step, TRUE)
    /\ last' = None
    /\ UNCHANGED <<history, dead>>

\* Nobody waits for what a call that is lost returns, or it ends with its process.
LostReturns(c) ==
  /\ c[2] # 0 /\ cron[c].step # "none"
  /\ cron' = [cron EXCEPT ![c] = NoCron]
  /\ last' = None
  /\ UNCHANGED <<now, tables, setting, vac, cast>>

Cron(c) ==
  \/ ReadSetting(c) \/ Skip(c) \/ StepFails(c)
  \/ TruncateHistoryEntries(c) \/ PruneHistory(c) \/ TruncateHistorySize(c)

-----------------------------------------------------------------------------
(* Requests of an administrator.                                           *)

\* UpdateCron
SaveSetting(s) ==
  /\ setting' = s
  /\ last' = None
  /\ UNCHANGED <<now, tables, cron, vac, cast>>

\* DeleteJobCommand: the row of a job that runs is locked for longer than it waits.
DeleteJob(j) ==
  /\ jobs[j].st = "pending" /\ ~Locked("gue_jobs")
  /\ jobs' = [jobs EXCEPT ![j].st = "gone"]
  /\ last' = None
  /\ UNCHANGED <<now, history, dead, setting, cron, vac, cast>>

\* PruneJobHistoryRequest
DeleteHistory(days) ==
  /\ ~Locked("gue_jobs_history")
  /\ Delete({r \in history : r.at <= Before(days)})
  /\ Pruning("age", days)
  /\ UNCHANGED <<now, jobs, setting, cron, vac, cast>>

\* PruneHistory of the controller: the payload of old rows is emptied.
PruneHistoryPayload(q, days) ==
  LET old == {r \in history : QueueOf[r.job] = q /\ r.at <= Before(days)}
  IN  /\ ~Locked("gue_jobs_history")
      /\ dead' = Smaller(MaxDead, dead + Cardinality(old))
      /\ last' = None
      /\ UNCHANGED <<now, jobs, history, setting, cron, vac, cast>>

\* VACUUM FULL waits for the transactions of all runs, and whoever comes later for it.
VacuumJobTable(table) ==
  /\ vac = None
  /\ vac' = table
  /\ last' = None
  /\ UNCHANGED <<now, tables, setting, cron, cast>>

Vacuumed ==
  /\ vac # None /\ Queued({"running"}) = {}
  /\ vac' = None
  /\ dead' = IF vac = "gue_jobs_history" THEN 0 ELSE dead
  /\ last' = None
  /\ UNCHANGED <<now, jobs, history, setting, cron, cast>>

\* The administrator leaves: the context of the request ends the statement.
VacuumCancelled ==
  /\ vac # None
  /\ vac' = None
  /\ last' = None
  /\ UNCHANGED <<now, tables, setting, cron, cast>>

Request ==
  \/ \E s \in Crons : SaveSetting(s)
  \/ \E j \in Jobs : DeleteJob(j)
  \/ \E days \in Days : DeleteHistory(days) \/ \E q \in Queues : PruneHistoryPayload(q, days)
  \/ \E table \in Tables : VacuumJobTable(table)

Administrate ==
  \/ asked < MaxRequests /\ asked' = asked + 1 /\ Request
  \/ UNCHANGED asked /\ (Vacuumed \/ VacuumCancelled)

-----------------------------------------------------------------------------
(* Requests of a viewer.                                                   *)

queueNameToDomain(q) == IF q = Blank THEN Default ELSE q
queueNameFromDomain(n) == IF n = Default THEN Blank ELSE n

In(q, j) == QueueOf[j] = queueNameFromDomain(q)

\* FindAllQueueNames
QueueNames == {queueNameToDomain(QueueOf[j]) :
                 j \in Queued({"pending", "running"}) \cup {r.job : r \in history}}

\* The row of a job that runs is not locked for readers.
PendingIn(q) == {j \in Queued({"pending", "running"}) : In(q, j)}

\* COUNT(DISTINCT job_id)
CountJobs(rows) == Cardinality({r.job : r \in rows})

\* The queries of QueueKPIs. Mutant: StatsFailedJobs counts all queues.
StatsAllQueues(n, q) ==
  CASE n = "pending" -> Cardinality(PendingIn(q))
    [] n = "failed" -> Cardinality({j \in Queued({"pending", "running"}) : jobs[j].errors # 0})
    [] n = "processed" -> CountJobs({r \in history : r.success /\ In(q, r.job)})
Stats(n, q) ==
  CASE n = "pending" -> Cardinality(PendingIn(q))
    [] n = "failed" -> Cardinality({j \in PendingIn(q) : jobs[j].errors # 0})
    [] n = "processed" -> CountJobs({r \in history : r.success /\ In(q, r.job)})

StatsPerType(q) == [t \in Types |-> Cardinality({j \in PendingIn(q) : TypeOf[j] = t})]

\* GetFinishedJobs: a filter by type is ignored without one by queue.
Matching(f) ==
  {r \in Finished : /\ f.queue # None => In(f.queue, r.job)
                    /\ f.queue # None /\ f.type # None => TypeOf[r.job] = f.type}

\* DISTINCT ON (job_id) takes any run of a job, and LIMIT any jobs.
FinishedJobs(f) == Smaller(Limit, CountJobs(Matching(f)))
FinishedJobsTotal(f) == CountJobs(Matching(f))

World == <<now, tables, setting, cron, vac, cast, asked, last>>

ShowQueue(q) ==
  /\ view.kind = "none"
  /\ view' = [NoView EXCEPT !.kind = "queue", !.queue = q]
  /\ calm' = TRUE /\ shown' = None

ListAllQueues ==
  /\ view.kind = "none" /\ vac = None /\ QueueNames # {}
  /\ view' = [NoView EXCEPT !.kind = "list", !.queues = QueueNames]
  /\ calm' = TRUE /\ shown' = None

NextQueue ==
  /\ view.kind = "list" /\ view.queue = None
  /\ \E q \in view.queues :
       view' = [view EXCEPT !.queue = q, !.queues = @ \ {q}, !.got = NoNumbers]
  /\ calm' = TRUE /\ shown' = None

\* One of the queries that QueueKPIs sends at the same time.
Query(n) ==
  /\ view.queue # None /\ view.got[n] = -1
  /\ ~Locked(IF n = "processed" THEN "gue_jobs_history" ELSE "gue_jobs")
  /\ view' = [view EXCEPT !.got[n] = Stats(n, view.queue)]
  /\ UNCHANGED calm /\ shown' = None

QueryTypes ==
  /\ view.queue # None /\ view.got.types = None /\ ~Locked("gue_jobs")
  /\ view' = [view EXCEPT !.got.types = StatsPerType(view.queue)]
  /\ UNCHANGED calm /\ shown' = None

Answer(res) == shown' = [res |-> res, queue |-> view.queue, got |-> view.got, calm |-> calm]

\* One of them fails: the others are cancelled.
QueryFails ==
  /\ view.queue # None
  /\ view' = NoView
  /\ Answer("error") /\ calm' = TRUE

\* queueKpiToStats divides by the number of pending jobs if there are failed ones.
Present ==
  /\ view.queue # None /\ view.got.types # None /\ \A n \in Numbers : view.got[n] # -1
  /\ IF view.got.failed # 0 /\ view.got.pending = 0
     THEN view' = NoView /\ Answer("panic")
     ELSE /\ view' = IF view.queues = {} THEN NoView
                     ELSE [view EXCEPT !.queue = None, !.got = NoNumbers]
          /\ Answer("stats")
  /\ calm' = TRUE

\* The list, and then in a request of its own the total.
ShowFinished(f) ==
  /\ view.kind = "none" /\ ~Locked("gue_jobs_history")
  /\ view' = [NoView EXCEPT !.kind = "finished",
                            !.got = [list |-> FinishedJobs(f), filter |-> f]]
  /\ calm' = TRUE /\ shown' = None

ShowTotal ==
  /\ view.kind = "finished" /\ ~Locked("gue_jobs_history")
  /\ shown' = [res |-> "finished", list |-> view.got.list,
               total |-> FinishedJobsTotal(view.got.filter), calm |-> calm]
  /\ view' = NoView /\ calm' = TRUE

View ==
  \/ \E q \in QueueNames : ShowQueue(q)
  \/ ListAllQueues \/ NextQueue
  \/ \E n \in Numbers : Query(n)
  \/ QueryTypes \/ QueryFails \/ Present
  \/ (\E f \in Filters : ShowFinished(f)) \/ ShowTotal

-----------------------------------------------------------------------------

Change ==
  \/ Work /\ UNCHANGED asked
  \/ (\E new \in SUBSET Jobs : ScheduleJobs(new)) /\ UNCHANGED asked
  \/ (\E c \in Calls : Cron(c) \/ LostReturns(c)) /\ UNCHANGED asked
  \/ ("admin" \in cast /\ Administrate)

\* A change while the viewer's numbers are being read.
Seen == calm' = (view.kind = "none") /\ shown' = None /\ UNCHANGED view

AdminNext ==
  \/ Change /\ Seen
  \/ "viewer" \in cast /\ View /\ UNCHANGED World

Runs(j) == Succeed(j) \/ FailRun(j)

\* Every run gets the time to go on, and JobFuncs return. Nobody has to cancel a
\* VACUUM.
AdminFairness ==
  /\ \A c \in CronJobs : WF_adminVars(Cron(<<c, 0>>) /\ Seen /\ UNCHANGED asked)
  /\ \A j \in Jobs : WF_adminVars(Runs(j) /\ Seen /\ UNCHANGED asked)
  /\ WF_adminVars(Vacuumed /\ Seen /\ UNCHANGED asked)

AdminSpec == AdminInit /\ [][AdminNext]_adminVars /\ AdminFairness

-----------------------------------------------------------------------------
(* Properties.                                                             *)

SameRun(r, s) == r.job = s.job /\ r.run = s.run

Others(r) == Cardinality({f \in Finished \ {r} : f.at >= r.at})

\* A row of the history only goes for a reason: it is as old as was asked for (unless
\* so many days do not fit into a Duration, whose value then is another one); as many
\* other finished rows as are to be kept are no older; or the table is larger than
\* its limit, or all but a tenth of the rows are no older. Only the age takes rows
\* of runs that nobody has finished.
PruneJustified ==
  [][\A r \in history : (\A s \in history' : ~SameRun(r, s)) =>
       /\ last'.op # "age" => r.finished
       /\ CASE last'.op = "age" ->
                 last'.value * TimeDay < Half => now - r.at >= last'.value * TimeDay
            [] last'.op = "entries" -> Others(r) >= last'.value
            [] last'.op = "size" ->
                 last'.value * GB < Half =>
                   \/ Size > last'.value * GB
                   \/ 10 * (Others(r) + 1) > 9 * Cardinality(Finished)]_adminVars

\* When a call of the daily job is at its end, every step that was switched on and did
\* not fail has done its work on the rows that were there at its start, whatever
\* happened to the other steps or to the transaction of the run, and whatever another
\* call, workers and administrators did in the meantime: no more finished rows are left
\* than entries were to be kept; none of them is as old as asked for; and finished rows
\* are only left if the table fits into the size. (Days and sizes are meant that fit
\* into their integers.)
CronThorough ==
  \A c \in Calls : cron[c].step = "end" /\ cron[c].set # None =>
    LET left == {r \in history : \E s \in cron[c].seen : SameRun(r, s)}
        set  == cron[c].set
    IN  /\ set.entries # Off /\ "entries" \notin cron[c].failed =>
             Cardinality(left \cap Finished) <= set.entries
        /\ set.age # Off /\ "age" \notin cron[c].failed /\ set.age * TimeDay < Half =>
             \A r \in left : cron[c].at - r.at < set.age * TimeDay
        /\ set.size # Off /\ "size" \notin cron[c].failed /\ set.size * GB < Half =>
             \/ left \cap Finished = {}
             \/ Cardinality(left \cap Finished) + Empty <= set.size * GB

SumOf(perType) ==
  Cardinality({p \in Types \X (1 .. Cardinality(Jobs)) : p[2] <= perType[p[1]]})

\* The numbers of a page are read by statements that see different states. When
\* nothing changes meanwhile they agree with each other, and the page does not divide
\* by zero.
StatsHonest ==
  shown # None /\ shown.calm =>
    CASE shown.res = "panic" -> FALSE
      [] shown.res = "stats" -> /\ shown.got.failed <= shown.got.pending
                                /\ shown.got.pending = SumOf(shown.got.types)
      [] shown.res = "finished" -> shown.list = Smaller(Limit, shown.total)
      [] OTHER -> TRUE

\* Every run of the daily job ends, and every VACUUM FULL. The exception is that they
\* wait for each other: the statement of the run for the VACUUM, which waits for the
\* transaction of the run.
Meet == vac = "gue_jobs_history" /\ \E c \in CronJobs : jobs[c].st = "running"
LocksEnd ==
  /\ \A c \in CronJobs : jobs[c].st = "running" ~> (jobs[c].st # "running" \/ Meet)
  /\ vac # None ~> (vac = None \/ Meet)
=============================================================================
