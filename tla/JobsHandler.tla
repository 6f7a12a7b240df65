------------------------------ MODULE JobsHandler ------------------------------
(***************************************************************************)
(* The life cycle of PostgresJobsHandler (jobs/postgres.go): JobFuncs and  *)
(* schedules are added between restarts of a gue worker pool, a timer      *)
(* starts the pool some time after the last addition, a goroutine per      *)
(* started pool writes life probes, and Shutdown drains the pool.          *)
(*                                                                         *)
(* The threads are the goroutines that call the exported methods, the      *)
(* goroutines of the start timers, the goroutines of the pools, and the    *)
(* workers of a pool, whose JobFuncs may call the methods themselves.      *)
(* What a pool does with one job is the subject of module JobQueue.        *)
(***************************************************************************)
EXTENDS Naturals, FiniteSets

CONSTANTS
  Callers,    \* goroutines that call RegisterJobFunc, Schedule and Shutdown
  Workers,    \* workers of a pool (poolSize of them)
  JobTypes,   \* job types with a JobFunc to register
  Specs,      \* cron specifications handed to Schedule
  BadSpecs,   \* the ones gueron refuses to parse
  Faults,     \* the calls that may return an error: "load", "pool", "unregister"
  Reentrant,  \* whether a JobFunc may call the methods of its own handler
  MaxStarts,  \* bound on the calls of RegisterJobFunc and Schedule
  NoThread    \* nobody holds the mutex

ASSUME ThreadsAssumption ==
  /\ Callers \cap Workers = {}
  /\ NoThread \notin Callers \cup Workers
ASSUME ParametersAssumption ==
  /\ BadSpecs \subseteq Specs
  /\ Faults \subseteq {"load", "pool", "unregister"}
  /\ Reentrant \in BOOLEAN
  /\ MaxStarts \in Nat

VARIABLES
  mu,                 \* the thread that holds h.mu, or NoThread
  hasStarted,         \* h.hasStarted
  isStartInProgress,  \* h.isStartInProgress
  startTimer,         \* h.startTimer: the last timer created, 0 is nil
  timers,             \* the timers of time.AfterFunc, named by the call that
                      \* creates them
  curPool,            \* h.groupWorkerPool and h.shutdownWorkerPool, 0 is nil
  pool,               \* the errgroup goroutine of the pool a timer has started
  cancelled,          \* the pools whose context is cancelled
  probe,              \* the continuouslyRegisterInstance goroutine of a pool
  row,                \* gue_jobs_worker_pool.workers of this instance
  workMap,            \* keys of h.gueWorkMap
  schedules,          \* h.schedules
  scheduled,          \* what gueron accepted
  advertised,         \* rows of gue_jobs_schedule
  job,                \* the pool for which a worker runs a JobFunc, 0 is none
  pc, op, fnErr, ret, \* the method call a thread is in, and what it returned
  calls, callNo       \* calls of RegisterJobFunc and Schedule so far, and the
                      \* number of the one a thread is in

handlerVars == <<hasStarted, isStartInProgress, startTimer, curPool>>
dataVars    == <<workMap, schedules, scheduled, advertised>>
callVars    == <<op, fnErr, ret, calls, callNo>>
vars == <<mu, handlerVars, timers, pool, cancelled, probe, row, dataVars, job,
          pc, callVars>>

Threads == Callers \cup Workers
Starts  == 1..MaxStarts

Registrations == [method : {"register"}, arg : JobTypes]
Schedulings   == [method : {"schedule"}, arg : Specs]
ShutdownCall  == [method |-> "shutdown", arg |-> "none"]
Operations    == Registrations \cup Schedulings \cup {ShutdownCall}

Init ==
  /\ mu = NoThread
  /\ hasStarted = FALSE /\ isStartInProgress = FALSE
  /\ startTimer = 0 /\ curPool = 0
  /\ timers = [t \in Starts |-> "none"]
  /\ pool = [t \in Starts |-> "none"]
  /\ probe = [t \in Starts |-> "none"]
  /\ cancelled = {}
  /\ row = "absent"
  /\ workMap = {} /\ schedules = {} /\ scheduled = {} /\ advertised = {}
  /\ job = [w \in Workers |-> 0]
  /\ pc = [p \in Threads |-> "idle"]
  /\ op = [p \in Threads |-> ShutdownCall]
  /\ fnErr = [p \in Threads |-> FALSE]
  /\ ret = [p \in Threads |-> "ok"]
  /\ calls = 0
  /\ callNo = [p \in Threads |-> 0]

-----------------------------------------------------------------------------
(* The exported methods, run by thread p.                                  *)

Return(p, result) ==
  /\ pc' = [pc EXCEPT ![p] = "idle"]
  /\ ret' = [ret EXCEPT ![p] = result]

\* Mutant of Fail: the error path forgets the mutex.
FailLocked(p) == Return(p, "error") /\ UNCHANGED mu
Fail(p) == Return(p, "error") /\ mu' = NoThread

\* p enters RegisterJobFunc or Schedule with a valid argument, or Shutdown
\* (invalid signatures and job types return before any state is touched).
Call(p, o) ==
  /\ pc[p] = "idle"
  /\ p \in Workers => Reentrant /\ job[p] # 0
  /\ o # ShutdownCall => calls < MaxStarts
  /\ IF o = ShutdownCall
     THEN UNCHANGED <<calls, callNo>>
     ELSE calls' = calls + 1 /\ callNo' = [callNo EXCEPT ![p] = calls + 1]
  /\ op' = [op EXCEPT ![p] = o]
  /\ fnErr' = [fnErr EXCEPT ![p] = FALSE]
  /\ pc' = [pc EXCEPT ![p] = "lock"]
  /\ UNCHANGED <<mu, handlerVars, timers, pool, cancelled, probe, row, dataVars,
                 job, ret>>

\* shutdown does nothing when no pool is started. Mutant: a restart does not shut
\* down.
NeedsShutdownNoRestart(p) == hasStarted /\ op[p] = ShutdownCall
NeedsShutdown(p) == hasStarted

\* h.shutdownWorkerPool(). Mutant: the signal is not sent.
cancelNothing == cancelled
shutdownWorkerPool == cancelled \cup {curPool}

\* h.mu.Lock(); a started pool is told to stop, and Shutdown has nothing to
\* do when none is started.
Lock(p) ==
  /\ pc[p] = "lock" /\ mu = NoThread
  /\ \/ /\ NeedsShutdown(p)
        /\ mu' = p
        /\ cancelled' = shutdownWorkerPool
        /\ pc' = [pc EXCEPT ![p] = "wait"]
        /\ UNCHANGED ret
     \/ /\ ~NeedsShutdown(p) /\ op[p] # ShutdownCall
        /\ mu' = p
        /\ pc' = [pc EXCEPT ![p] = "fn"]
        /\ UNCHANGED <<cancelled, ret>>
     \/ /\ ~NeedsShutdown(p) /\ op[p] = ShutdownCall
        /\ Return(p, "ok")
        /\ UNCHANGED <<mu, cancelled>>
  /\ UNCHANGED <<handlerVars, timers, pool, probe, row, dataVars, job, op,
                 fnErr, calls, callNo>>

\* Mutant of GroupDone: nobody waits.
GroupIgnored(t) == TRUE
GroupDone(t)    == pool[t] = "ended"

\* h.groupWorkerPool.Wait(): the error of the group is returned, and hasStarted
\* stays set.
Wait(p) ==
  /\ pc[p] = "wait"
  /\ \/ /\ GroupDone(curPool)
        /\ pc' = [pc EXCEPT ![p] = "unregister"]
        /\ UNCHANGED <<mu, ret>>
     \/ pool[curPool] = "failed" /\ Fail(p)
  /\ UNCHANGED <<handlerVars, timers, pool, cancelled, probe, row, dataVars, job,
                 op, fnErr, calls, callNo>>

\* UpsertWorkerToPool with zero workers.
Unregister(p) ==
  /\ pc[p] = "unregister"
  /\ \/ /\ row' = "zero"
        /\ hasStarted' = FALSE
        /\ IF op[p] = ShutdownCall
           THEN Return(p, "ok") /\ mu' = NoThread
           ELSE pc' = [pc EXCEPT ![p] = "fn"] /\ UNCHANGED <<mu, ret>>
     \/ /\ "unregister" \in Faults
        /\ Fail(p)
        /\ UNCHANGED <<row, hasStarted>>
  /\ UNCHANGED <<isStartInProgress, startTimer, curPool, timers, pool, cancelled,
                 probe, dataVars, job, op, fnErr, calls, callNo>>

\* The closure of RegisterJobFunc: one JobFunc per job type.
AddJobFunc(p) ==
  /\ op[p] \in Registrations
  /\ workMap' = workMap \cup {op[p].arg}
  /\ fnErr' = [fnErr EXCEPT ![p] = op[p].arg \in workMap]
  /\ UNCHANGED <<schedules, scheduled>>

\* The closure of Schedule: h.schedules is appended to before gueron parses
\* the specification.
AddSchedule(p) ==
  /\ op[p] \in Schedulings
  /\ schedules' = schedules \cup {op[p].arg}
  /\ scheduled' = scheduled \cup ({op[p].arg} \ BadSpecs)
  /\ fnErr' = [fnErr EXCEPT ![p] = op[p].arg \in BadSpecs]
  /\ UNCHANGED workMap

\* fnErr := fn()
Fn(p) ==
  /\ pc[p] = "fn"
  /\ AddJobFunc(p) \/ AddSchedule(p)
  /\ pc' = [pc EXCEPT ![p] = "arm"]
  /\ UNCHANGED <<mu, handlerVars, timers, pool, cancelled, probe, row, advertised,
                 job, op, ret, calls, callNo>>

\* startTimer.Stop() returns whether it stopped the timer before it expired.
Stoppable(t) == timers[t] = "armed"

FnResult(p) == IF fnErr[p] THEN "error" ELSE "ok"

\* The timers after time.AfterFunc has created one for p's call. Mutants: the
\* pending one is not stopped, and it is stopped without another one.
RearmedNoStop(p) == [timers EXCEPT ![callNo[p]] = "armed"]
RearmedNotAtAll(p) == [timers EXCEPT ![startTimer] = "stopped"]
Rearmed(p) ==
  [t \in Starts |-> IF t = callNo[p] THEN "armed"
                   ELSE IF isStartInProgress /\ t = startTimer THEN "stopped"
                   ELSE timers[t]]

\* The rest of executeBetweenRestarts. A start that is in progress is put off:
\* its timer is stopped and a new one created. When its timer has expired, its
\* goroutine will start the workers, and the call returns nil.
Arm(p) ==
  /\ pc[p] = "arm"
  /\ mu' = NoThread
  /\ \/ /\ hasStarted \/ (isStartInProgress /\ ~Stoppable(startTimer))
        /\ Return(p, IF hasStarted THEN FnResult(p) ELSE "ok")
        /\ UNCHANGED <<timers, startTimer, isStartInProgress>>
     \/ /\ ~hasStarted /\ (isStartInProgress => Stoppable(startTimer))
        /\ timers' = Rearmed(p)
        /\ startTimer' = callNo[p]
        /\ isStartInProgress' = TRUE
        /\ Return(p, FnResult(p))
  /\ UNCHANGED <<hasStarted, curPool, pool, cancelled, probe, row, dataVars, job,
                 op, fnErr, calls, callNo>>

-----------------------------------------------------------------------------
(* The start timer.                                                        *)

\* The poll interval has passed: the timer's goroutine calls startWorkers.
Expire(t) ==
  /\ timers[t] = "armed"
  /\ timers' = [timers EXCEPT ![t] = "expired"]
  /\ UNCHANGED <<mu, handlerVars, pool, cancelled, probe, row, dataVars, job, pc,
                 callVars>>

\* startWorkers, from h.mu.Lock() to its return. Its error is only logged.
StartWorkers(t) ==
  /\ timers[t] = "expired" /\ mu = NoThread
  /\ timers' = [timers EXCEPT ![t] = "done"]
  /\ \/ /\ hasStarted \/ "load" \in Faults
        /\ UNCHANGED <<hasStarted, isStartInProgress, curPool, pool, probe>>
     \/ /\ ~hasStarted
        /\ pool' = [pool EXCEPT ![t] = "new"]
        /\ probe' = [probe EXCEPT ![t] = "send"]
        /\ curPool' = t
        /\ hasStarted' = TRUE
        /\ isStartInProgress' = FALSE
  /\ UNCHANGED <<mu, startTimer, cancelled, row, dataVars, job, pc, callVars>>

-----------------------------------------------------------------------------
(* The goroutine of the pool that timer t has started, and its workers.    *)

\* gue.NewWorkerPool
PoolRun(t) ==
  /\ pool[t] = "new"
  /\ \/ /\ pool' = [pool EXCEPT ![t] = "run"]
        /\ UNCHANGED cancelled
     \/ /\ "pool" \in Faults
        /\ pool' = [pool EXCEPT ![t] = "failed"]
        /\ cancelled' = cancelled \cup {t}
  /\ UNCHANGED <<mu, handlerVars, timers, probe, row, dataVars, job, pc, callVars>>

\* Mutant of Idle: nobody waits for the workers.
IdleAlways(t) == TRUE
Idle(t) == \A w \in Workers : job[w] # t

\* workers.Run returns once its context is cancelled and all workers are idle.
PoolEnd(t) ==
  /\ pool[t] = "run" /\ t \in cancelled
  /\ Idle(t)
  /\ pool' = [pool EXCEPT ![t] = "ended"]
  /\ UNCHANGED <<mu, handlerVars, timers, cancelled, probe, row, dataVars, job, pc,
                 callVars>>

JobStart(w, t) ==
  /\ pool[t] = "run" /\ t \notin cancelled
  /\ job[w] = 0
  /\ job' = [job EXCEPT ![w] = t]
  /\ UNCHANGED <<mu, handlerVars, timers, pool, cancelled, probe, row, dataVars, pc,
                 callVars>>

JobEnd(w) ==
  /\ job[w] # 0 /\ pc[w] = "idle"
  /\ job' = [job EXCEPT ![w] = 0]
  /\ UNCHANGED <<mu, handlerVars, timers, pool, cancelled, probe, row, dataVars, pc,
                 callVars>>

-----------------------------------------------------------------------------
(* continuouslyRegisterInstance and registerInstance of pool t.            *)

\* The job types are read from the map and the statement is sent, unless the
\* context is already cancelled.
ProbeSend(t) ==
  /\ probe[t] = "send"
  /\ probe' = [probe EXCEPT ![t] = IF t \in cancelled THEN "lock" ELSE "sent"]
  /\ UNCHANGED <<mu, handlerVars, timers, pool, cancelled, row, dataVars, job, pc,
                 callVars>>

\* UpsertWorkerToPool takes effect, or fails, which is only logged. A statement
\* that a cancellation meets on its way may still take effect.
ProbeSent(t) ==
  /\ probe[t] = "sent"
  /\ probe' = [probe EXCEPT ![t] = "lock"]
  /\ row' \in {row, "live"}
  /\ UNCHANGED <<mu, handlerVars, timers, pool, cancelled, dataVars, job, pc,
                 callVars>>

\* UpsertSchedule of every schedule, under h.mu; failures are only logged.
ProbeSchedules(t) ==
  /\ probe[t] = "lock" /\ mu = NoThread
  /\ probe' = [probe EXCEPT ![t] = "select"]
  /\ \E saved \in SUBSET schedules :
       /\ t \in cancelled => saved = {}
       /\ advertised' = advertised \cup saved
  /\ UNCHANGED <<mu, handlerVars, timers, pool, cancelled, row, workMap, schedules,
                 scheduled, job, pc, callVars>>

\* The ticker; select takes either branch when both are ready.
ProbeTick(t) ==
  /\ probe[t] = "select"
  /\ probe' = [probe EXCEPT ![t] = "send"]
  /\ UNCHANGED <<mu, handlerVars, timers, pool, cancelled, row, dataVars, job, pc,
                 callVars>>

\* Mutant of ProbeStop: the goroutine was given a context that nobody cancels.
ProbeStopNever(t) ==
  /\ probe[t] = "select" /\ FALSE
  /\ UNCHANGED vars

ProbeStop(t) ==
  /\ probe[t] = "select" /\ t \in cancelled
  /\ probe' = [probe EXCEPT ![t] = "gone"]
  /\ UNCHANGED <<mu, handlerVars, timers, pool, cancelled, row, dataVars, job, pc,
                 callVars>>

-----------------------------------------------------------------------------
Method(p) == Lock(p) \/ Wait(p) \/ Unregister(p) \/ Fn(p) \/ Arm(p)
Pool(t)   == PoolRun(t) \/ PoolEnd(t)
Probe(t)  == ProbeSend(t) \/ ProbeSent(t) \/ ProbeSchedules(t) \/ ProbeTick(t)
               \/ ProbeStop(t)

Next ==
  \/ \E p \in Threads : Method(p) \/ \E o \in Operations : Call(p, o)
  \/ \E t \in Starts : Expire(t) \/ StartWorkers(t) \/ Pool(t) \/ Probe(t)
  \/ \E w \in Workers : JobEnd(w) \/ \E t \in Starts : JobStart(w, t)

Spec == Init /\ [][Next]_vars

(* Every goroutine that can run does. sync.Mutex hands itself over to a    *)
(* waiter that has waited too long, and select picks a ready branch at     *)
(* random: strong fairness. JobFuncs return, an assumption about the users *)
(* of the package.                                                         *)
Fairness ==
  /\ \A p \in Threads : SF_vars(Lock(p)) /\ WF_vars(Method(p))
  /\ \A t \in Starts : /\ WF_vars(Expire(t)) /\ SF_vars(StartWorkers(t))
                       /\ WF_vars(Pool(t))
                       /\ WF_vars(ProbeSend(t) \/ ProbeSent(t))
                       /\ SF_vars(ProbeSchedules(t)) /\ SF_vars(ProbeStop(t))
  /\ \A w \in Workers : WF_vars(JobEnd(w))

FairSpec == Spec /\ Fairness

-----------------------------------------------------------------------------
(* Properties.                                                             *)

(* Every variable keeps its type; in particular the timers and pools the   *)
(* handler refers to are ones that a call has created.                     *)
TypeOK ==
  /\ mu \in Threads \cup {NoThread}
  /\ hasStarted \in BOOLEAN /\ isStartInProgress \in BOOLEAN
  /\ startTimer \in 0..MaxStarts /\ curPool \in 0..MaxStarts
  /\ timers \in [Starts -> {"none", "armed", "stopped", "expired", "done"}]
  /\ pool \in [Starts -> {"none", "new", "run", "ended", "failed"}]
  /\ probe \in [Starts -> {"none", "send", "sent", "lock", "select", "gone"}]
  /\ cancelled \subseteq Starts
  /\ row \in {"absent", "live", "zero"}
  /\ workMap \subseteq JobTypes
  /\ schedules \subseteq Specs /\ scheduled \subseteq Specs
  /\ advertised \subseteq Specs
  /\ job \in [Workers -> 0..MaxStarts]
  /\ pc \in [Threads -> {"idle", "lock", "wait", "unregister", "fn", "arm"}]
  /\ op \in [Threads -> Operations]
  /\ fnErr \in [Threads -> BOOLEAN]
  /\ ret \in [Threads -> {"ok", "error"}]
  /\ calls \in 0..MaxStarts
  /\ callNo \in [Threads -> 0..MaxStarts]

Alive(t)   == pool[t] \in {"new", "run"}
Pending(t) == timers[t] \in {"armed", "expired"}
Holding    == {"wait", "unregister", "fn", "arm"}

(* h.mu protects the methods: a thread is between Lock and Unlock exactly  *)
(* while it holds the mutex. In particular shutdown gives it back when the *)
(* pool or its statement fails and when nothing is started.                *)
MutexHeld == \A p \in Threads : pc[p] \in Holding <=> mu = p

(* However calls, timers and pools interleave, a start is pending for at   *)
(* most one timer, the last one created, and only while nothing is         *)
(* started: the error "queue already started" of startWorkers is           *)
(* unreachable.                                                            *)
SingleStart ==
  \A t \in Starts : Pending(t) => t = startTimer /\ isStartInProgress /\ ~hasStarted

(* Restarts never overlap: a pool that may still run jobs is the one the   *)
(* handler knows of, so the next Shutdown or restart waits for it.         *)
OnlyKnownPool == \A t \in Starts : Alive(t) => hasStarted /\ t = curPool

(* JobFuncs and schedules are only added, and a pool is only reported as   *)
(* gone, once all of its jobs have finished (gue wants all workers to be   *)
(* known before the start).                                                *)
Quiescent ==
  \A p \in Threads : pc[p] \in {"unregister", "fn", "arm"} =>
    /\ \A t \in Starts : ~Alive(t)
    /\ \A w \in Workers : job[w] = 0

(* A JobFunc only runs in a pool that has not ended.                       *)
JobsInPool == \A w \in Workers : job[w] # 0 => pool[job[w]] = "run"

(* isStartInProgress promises a timer that will start the workers, unless  *)
(* gueron fails to load (fault "load").                                    *)
StartIsReal == isStartInProgress => Pending(startTimer)

(* A job type that is registered is never lost again, and the map of       *)
(* JobFuncs does not change while workers use it.                          *)
StableWorkMap ==
  [][/\ workMap \subseteq workMap'
     /\ (\E t \in Starts : Alive(t)) => workMap' = workMap]_vars

(* After a RegisterJobFunc or Schedule the queue starts processing         *)
(* automatically (jobs.go:74).                                             *)
StartHappens == isStartInProgress ~> hasStarted

(* Every call returns: nobody waits for the mutex or a pool forever.       *)
CallsReturn == \A p \in Threads : pc[p] # "idle" ~> pc[p] = "idle"

(* The life probe of a pool that was shut down stops.                      *)
ProbesStop == \A t \in Starts : t \in cancelled ~> probe[t] = "gone"

(* What the code's own words promise and the code does not keep, see the   *)
(* README. When executeBetweenRestarts has added a JobFunc or a schedule,  *)
(* the queue is restarted (jobs.go:76): it leaves a start pending.         *)
AdditionRestarts ==
  [][\A p \in Threads : pc[p] = "arm" /\ pc'[p] = "idle" =>
       \E t \in Starts : Pending(t)']_vars

(* The error of a registration reaches the caller (postgres_test.go:247).  *)
ErrorReported ==
  \A p \in Threads : pc[p] = "idle" /\ fnErr[p] => ret[p] = "error"

(* Once every caller's last call is a Shutdown that returned nil, all      *)
(* started jobs have finished (jobs.go:80).                                *)
ShutdownIsFinal ==
  (\A p \in Callers : pc[p] = "idle" /\ op[p] = ShutdownCall /\ ret[p] = "ok") =>
    \A w \in Workers : job[w] = 0

================================================================================
