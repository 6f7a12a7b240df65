------------------------------ MODULE MemoryQueue ------------------------------
(***************************************************************************)
(* MemoryQueue (jobs/inmemory.go): jobs in a slice, a ticker that starts a *)
(* goroutine for the first of them ten times a second, and cron, which     *)
(* appends scheduled jobs. A goroutine frees the mutex while its JobFunc   *)
(* runs; everything between taking and freeing it is one step here.        *)
(***************************************************************************)
EXTENDS Naturals, FiniteSets, SequencesExt

CONSTANTS
  Jobs,     \* jobs; a scheduled job is a new one whenever it is due
  Types,    \* job types
  TypeOf,   \* the type of a job
  Poison,   \* jobs whose JobFunc always returns an error
  Gors,     \* goroutines of the ticker that exist at the same time
  MaxBatch, \* bound on the length of a slice of jobs
  Faults,   \* "panic": JobFuncs may panic
  NoJob

ASSUME JobsAssumption == NoJob \notin Jobs /\ Poison \subseteq Jobs
ASSUME TypesAssumption == TypeOf \in [Jobs -> Types] /\ Jobs \cap Types = {}
ASSUME BatchAssumption == MaxBatch \in Nat

VARIABLES
  alive,      \* the process has not crashed
  jobs,       \* q.jobs
  workerMap,  \* the keys of q.workerMap
  scheduled,  \* the types of the jobs that cron has entries for
  born,       \* jobs that were enqueued or scheduled at some time
  done,       \* jobs whose JobFunc has returned nil
  dropped,    \* jobs for which nobody had registered a JobFunc
  phase, job, \* what a goroutine does, and its job
  cancelled,  \* q.cancel was called
  ticking,    \* runWorkers has not returned
  cron        \* "new": the goroutine of cron.Run has not begun

queue == <<jobs, workerMap, scheduled, born>>
gors  == <<phase, job, done, dropped>>
life  == <<cancelled, ticking, cron>>
vars  == <<alive, queue, gors, life>>

Init ==
  /\ alive = TRUE
  /\ jobs = <<>> /\ workerMap = {} /\ scheduled = {}
  /\ born = {} /\ done = {} /\ dropped = {}
  /\ phase = [g \in Gors |-> "none"]
  /\ job = [g \in Gors |-> NoJob]
  /\ cancelled = FALSE /\ ticking = TRUE /\ cron = "new"

-----------------------------------------------------------------------------
(* The methods of the queue. JobFuncs may call them, too.                  *)

\* getJobTypeFromType. Mutant: the key is the job, not its type.
JobTypeRaw(j) == j
JobType(j) == TypeOf[j]

Slices ==
  {s \in SeqOf(Jobs \ born, MaxBatch) : s # <<>> /\ IsInjective(s)}

Enqueue(s) ==
  /\ alive
  /\ jobs' = jobs \o s
  /\ born' = born \cup ToSet(s)
  /\ UNCHANGED <<alive, workerMap, scheduled, gors, life>>

\* A JobFunc for the type of j; a second one replaces the first.
RegisterJobFunc(j) ==
  /\ alive
  /\ workerMap' = workerMap \cup {JobType(j)}
  /\ UNCHANGED <<alive, jobs, scheduled, born, gors, life>>

\* A job like j, again and again.
Schedule(j) ==
  /\ alive
  /\ scheduled' = scheduled \cup {TypeOf[j]}
  /\ UNCHANGED <<alive, jobs, workerMap, born, gors, life>>

\* cron.Stop has no effect on a cron whose Run has not begun.
Shutdown ==
  /\ alive /\ ~cancelled
  /\ cancelled' = TRUE
  /\ cron' = IF cron = "running" THEN "stopped" ELSE cron
  /\ UNCHANGED <<alive, queue, gors, ticking>>

-----------------------------------------------------------------------------
(* Cron and the ticker.                                                    *)

CronRun ==
  /\ alive /\ cron = "new"
  /\ cron' = "running"
  /\ UNCHANGED <<alive, queue, gors, cancelled, ticking>>

\* The function that Schedule gives to cron.
CronFire(j) ==
  /\ alive /\ cron = "running" /\ TypeOf[j] \in scheduled /\ j \notin born
  /\ jobs' = Append(jobs, j)
  /\ born' = born \cup {j}
  /\ UNCHANGED <<alive, workerMap, scheduled, gors, life>>

\* select chooses at random when the context is done and the ticker fires.
Tick(g) ==
  /\ alive /\ ticking /\ phase[g] = "none"
  /\ phase' = [phase EXCEPT ![g] = "first"]
  /\ UNCHANGED <<alive, queue, job, done, dropped, life>>

\* Mutant: break instead of return leaves the select, not the loop.
StopWorkersBreak == alive /\ cancelled /\ ticking /\ UNCHANGED vars
StopWorkers ==
  /\ alive /\ cancelled /\ ticking
  /\ ticking' = FALSE
  /\ UNCHANGED <<alive, queue, gors, cancelled, cron>>

-----------------------------------------------------------------------------
(* processFirstJob.                                                        *)

Idle(g) ==
  /\ phase' = [phase EXCEPT ![g] = "none"]
  /\ job' = [job EXCEPT ![g] = NoJob]

\* What stays in the queue. Mutant: the job stays, too.
RestAll == jobs
Rest == Tail(jobs)

TakeNone(g) ==
  /\ alive /\ phase[g] = "first" /\ jobs = <<>>
  /\ Idle(g)
  /\ UNCHANGED <<alive, queue, done, dropped, life>>

\* A job of a type without a JobFunc is lost.
TakeUnknown(g) ==
  /\ alive /\ phase[g] = "first" /\ jobs # <<>> /\ JobType(Head(jobs)) \notin workerMap
  /\ jobs' = Rest
  /\ dropped' = dropped \cup {Head(jobs)}
  /\ Idle(g)
  /\ UNCHANGED <<alive, workerMap, scheduled, born, done, life>>

Take(g) ==
  /\ alive /\ phase[g] = "first" /\ jobs # <<>> /\ JobType(Head(jobs)) \in workerMap
  /\ jobs' = Rest
  /\ job' = [job EXCEPT ![g] = Head(jobs)]
  /\ phase' = [phase EXCEPT ![g] = "call"]
  /\ UNCHANGED <<alive, workerMap, scheduled, born, done, dropped, life>>

Succeed(g) ==
  /\ alive /\ phase[g] = "call" /\ job[g] \notin Poison
  /\ done' = done \cup {job[g]}
  /\ Idle(g)
  /\ UNCHANGED <<alive, queue, dropped, life>>

\* The job goes back on the queue. Mutant: to its front.
PutBackFirst(j) == <<j>> \o jobs
PutBack(j) == Append(jobs, j)

Fail(g) ==
  /\ alive /\ phase[g] = "call"
  /\ jobs' = PutBack(job[g])
  /\ Idle(g)
  /\ UNCHANGED <<alive, workerMap, scheduled, born, done, dropped, life>>

\* The deferred Unlock meets a free mutex: the process ends.
Panic(g) ==
  /\ alive /\ phase[g] = "call" /\ "panic" \in Faults
  /\ alive' = FALSE
  /\ UNCHANGED <<queue, gors, life>>

First(g) == TakeNone(g) \/ TakeUnknown(g) \/ Take(g)

Next ==
  \/ Shutdown \/ CronRun \/ StopWorkers
  \/ \E s \in Slices : Enqueue(s)
  \/ \E j \in Jobs : RegisterJobFunc(j) \/ Schedule(j) \/ CronFire(j)
  \/ \E g \in Gors : Tick(g) \/ First(g) \/ Succeed(g) \/ Fail(g) \/ Panic(g)

Spec == Init /\ [][Next]_vars

\* Goroutines that can run do, JobFuncs return, and one that does not always fail
\* succeeds in the end; the ticker fires, and select does not ignore a branch for
\* ever.
Fairness ==
  /\ WF_vars(CronRun)
  /\ SF_vars(StopWorkers)
  /\ \A g \in Gors :
       /\ SF_vars(Tick(g))
       /\ WF_vars(First(g))
       /\ WF_vars(Succeed(g) \/ Fail(g))
  /\ \A j \in Jobs : SF_vars(\E g \in Gors : job[g] = j /\ Succeed(g))

FairSpec == Spec /\ Fairness

-----------------------------------------------------------------------------
(* Properties.                                                             *)

TypeOK ==
  /\ alive \in BOOLEAN /\ cancelled \in BOOLEAN /\ ticking \in BOOLEAN
  /\ jobs \in Seq(Jobs)
  /\ workerMap \subseteq Types /\ scheduled \subseteq Types
  /\ born \subseteq Jobs /\ done \subseteq Jobs /\ dropped \subseteq Jobs
  /\ phase \in [Gors -> {"none", "first", "call"}]
  /\ job \in [Gors -> Jobs \cup {NoJob}]
  /\ cron \in {"new", "running", "stopped"}

Waiting == ToSet(jobs)
Running == {job[g] : g \in Gors} \ {NoJob}

(* No job is lost or doubled, also while the mutex is free: every one that *)
(* was enqueued waits once, or is run by one goroutine, or has succeeded,  *)
(* or was dropped for lack of a JobFunc.                                   *)
Conserved ==
  /\ born = Waiting \cup Running \cup done \cup dropped
  /\ Waiting \cap Running = {} /\ done \cap dropped = {}
  /\ (Waiting \cup Running) \cap (done \cup dropped) = {}
  /\ IsInjective(jobs)
  /\ \A g, h \in Gors : job[g] = job[h] /\ job[g] # NoJob => g = h

(* A job whose JobFunc is registered is done in the end, also beside jobs  *)
(* that always fail, unless the queue is shut down before.                 *)
JobsFinish ==
  \A j \in Jobs \ Poison :
    (j \in Waiting /\ JobType(j) \in workerMap) ~> (j \in done \/ cancelled \/ ~alive)

(* After Shutdown the goroutines come to an end, and no job is taken any   *)
(* more (Shutdown does not wait for it).                                   *)
StopsInTheEnd == cancelled ~> (~alive \/ [](\A g \in Gors : phase[g] = "none"))

================================================================================
