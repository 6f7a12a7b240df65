------------------------------- MODULE JobQueue --------------------------------
(***************************************************************************)
(* The jobs in the database: Enqueue of PostgresJobsHandler with and       *)
(* without a transaction of the caller, the run of a job by a worker of    *)
(* gue in a transaction of its own with gueWorkerAdapter and the two       *)
(* history hooks (jobs/postgres.go), and the administration of pending     *)
(* jobs (contexts/admin, jobs.postgres.repository.go).                     *)
(*                                                                         *)
(* Workers are the workers of all pools of all instances. A worker holds   *)
(* the row lock of its job as long as its transaction is open, changes in  *)
(* the transaction become visible when it commits, and the connection may  *)
(* be lost at any time (the instance dies, Shutdown cancels the context,   *)
(* the network fails), also while the JobFunc carries on.                  *)
(***************************************************************************)
EXTENDS Naturals, FiniteSets

CONSTANTS
  Jobs,        \* jobs, named by their job_id
  Workers,     \* workers of the pools
  Clients,     \* transactions of the application that enqueue jobs
  Knows,       \* the jobs for whose type the pool of a worker has a JobFunc
  BadArgs,     \* jobs whose arguments do not fit the struct of the JobFunc
  Garbled,     \* the ones among them that are no PersistencePayload at all
  Behaviours,  \* what JobFuncs may do: "panic", "swallow" (return nil after a
               \* statement of theirs has failed)
  MaxErrors,   \* bound on the failed runs of a job
  MaxLosses,   \* bound on the number of lost connections
  NoJob        \* a worker without a job

ASSUME JobsAssumption == NoJob \notin Jobs /\ BadArgs \subseteq Jobs /\ Garbled \subseteq BadArgs
ASSUME KnowsAssumption == Knows \in [Workers -> SUBSET Jobs]
ASSUME BoundsAssumption ==
  /\ Behaviours \subseteq {"panic", "swallow"}
  /\ MaxErrors \in Nat /\ MaxLosses \in Nat

VARIABLES
  queued,   \* rows of gue_jobs
  due,      \* the ones with run_at <= now
  born,     \* jobs that were ever stored in gue_jobs
  errors,   \* gue_jobs.error_count
  effects,  \* how often the changes of a job's JobFunc were committed
  history,  \* rows of gue_jobs_history
  batch,    \* the jobs an application transaction has inserted
  phase, wjob, wrun, \* what a worker does, its job and the error_count it read
  tx,       \* state of a worker's transaction; "failed": a statement failed
  pend,     \* the changes in it
  losses    \* connections lost so far

database == <<queued, due, born, errors, effects, history>>
worker   == <<phase, wjob, wrun, tx, pend>>
vars     == <<database, batch, worker, losses>>

\* hist: the row that was inserted into the history; end: how the finishing hook
\* has marked the run in it.
Nothing == [hist |-> "none", end |-> "none", wrote |-> FALSE, kids |-> {}, fate |-> "none"]

Init ==
  /\ queued = {} /\ due = {} /\ born = {} /\ history = {}
  /\ errors = [j \in Jobs |-> 0]
  /\ effects = [j \in Jobs |-> 0]
  /\ batch = [c \in Clients |-> {}]
  /\ phase = [w \in Workers |-> "idle"]
  /\ wjob = [w \in Workers |-> NoJob]
  /\ wrun = [w \in Workers |-> 0]
  /\ tx = [w \in Workers |-> "none"]
  /\ pend = [w \in Workers |-> Nothing]
  /\ losses = 0

-----------------------------------------------------------------------------
(* Enqueue.                                                                *)

Pending == (UNION {batch[c] : c \in Clients}) \cup (UNION {pend[w].kids : w \in Workers})

\* A batch of new jobs: job_ids are ULIDs.
Batches == {B \in SUBSET (Jobs \ (born \cup Pending)) : B # {}}

\* Without a transaction in the context.
Enqueue(B) ==
  /\ queued' = queued \cup B
  /\ due' = due \cup B
  /\ born' = born \cup B
  /\ UNCHANGED <<errors, effects, history, batch, worker, losses>>

\* With the transaction of client c.
EnqueueTx(c, B) ==
  /\ batch' = [batch EXCEPT ![c] = @ \cup B]
  /\ UNCHANGED <<database, worker, losses>>

CommitTx(c) ==
  /\ batch[c] # {}
  /\ queued' = queued \cup batch[c]
  /\ due' = due \cup batch[c]
  /\ born' = born \cup batch[c]
  /\ batch' = [batch EXCEPT ![c] = {}]
  /\ UNCHANGED <<errors, effects, history, worker, losses>>

RollbackTx(c) ==
  /\ batch[c] # {}
  /\ batch' = [batch EXCEPT ![c] = {}]
  /\ UNCHANGED <<database, worker, losses>>

-----------------------------------------------------------------------------
(* The run of a job.                                                       *)

\* The rows locked FOR UPDATE. Mutant: gue does not lock them.
lockedNone == {}
locked == {wjob[w] : w \in {v \in Workers : tx[v] # "none"}}

MayFail(j) == errors[j] < MaxErrors

\* gue polls a job that nobody else has locked (SKIP LOCKED).
Lock(w, j) ==
  /\ phase[w] = "idle"
  /\ j \in (queued \cap due) \ locked
  /\ MayFail(j) \/ j \in Knows[w] \ BadArgs
  /\ phase' = [phase EXCEPT ![w] = "locked"]
  /\ wjob' = [wjob EXCEPT ![w] = j]
  /\ wrun' = [wrun EXCEPT ![w] = errors[j]]
  /\ tx' = [tx EXCEPT ![w] = "live"]
  /\ UNCHANGED <<database, batch, pend, losses>>

\* The starting hook inserts a row, unless recordGitHashToArgs cannot read the
\* arguments.
Inserted(j) == IF j \in Garbled THEN "none" ELSE "open"

\* recordStartedJobsToHistory, then gueWorkerAdapter up to the call of the
\* JobFunc. Arguments that do not fit fail the run before the savepoint; gue
\* fails a job of an unknown type and calls no finishing hook for it.
Start(w) ==
  /\ phase[w] = "locked"
  /\ \/ /\ tx[w] = "none"
        /\ phase' = [phase EXCEPT ![w] = "returned"]
        /\ UNCHANGED pend
     \/ /\ tx[w] = "live" /\ wjob[w] \notin Knows[w] \ BadArgs
        /\ phase' = [phase EXCEPT ![w] = "returned"]
        /\ pend' = [pend EXCEPT ![w] =
                      [Nothing EXCEPT !.hist = Inserted(wjob[w]), !.fate = "retry",
                         !.end = IF wjob[w] \in Knows[w] THEN "failed" ELSE "none"]]
     \/ /\ tx[w] = "live" /\ wjob[w] \in Knows[w] \ BadArgs
        /\ phase' = [phase EXCEPT ![w] = "running"]
        /\ pend' = [pend EXCEPT ![w].hist = "open"]
  /\ UNCHANGED <<database, batch, wjob, wrun, tx, losses>>

\* The JobFunc writes with the transaction in its context,
Write(w) ==
  /\ phase[w] = "running" /\ tx[w] = "live"
  /\ pend' = [pend EXCEPT ![w].wrote = TRUE]
  /\ UNCHANGED <<database, batch, phase, wjob, wrun, tx, losses>>

\* enqueues other jobs with it,
EnqueueKids(w, B) ==
  /\ phase[w] = "running" /\ tx[w] = "live"
  /\ pend' = [pend EXCEPT ![w].kids = @ \cup B]
  /\ UNCHANGED <<database, batch, phase, wjob, wrun, tx, losses>>

\* or a statement of it fails: Postgres refuses all further ones.
FailStatement(w) ==
  /\ phase[w] = "running" /\ tx[w] = "live" /\ wrun[w] < MaxErrors
  /\ tx' = [tx EXCEPT ![w] = "failed"]
  /\ UNCHANGED <<database, batch, phase, wjob, wrun, pend, losses>>

\* ROLLBACK TO before_worker leaves the row of the history. Mutant: it is not
\* executed.
NoRollback(w) == pend[w]
RollbackToSavepoint(w) == [pend[w] EXCEPT !.wrote = FALSE, !.kids = {}]

\* The finishing hook executes UpdateHistory (see Close), gue deletes or
\* reschedules the job.
Finished(p, s, fate) == [p EXCEPT !.end = s, !.fate = fate]

\* The JobFunc returns nil: RELEASE SAVEPOINT, the finishing hook, and gue
\* deletes the job. In a failed transaction none of this has an effect.
ReturnOk(w) ==
  /\ \/ tx[w] = "live"
     \/ tx[w] = "failed" /\ "swallow" \in Behaviours
  /\ pend' = IF tx[w] = "live"
             THEN [pend EXCEPT ![w] = Finished(@, "ok", "delete")]
             ELSE pend
  /\ UNCHANGED tx

\* It returns an error: back to the savepoint, which heals the transaction.
ReturnErr(w) ==
  /\ tx[w] # "none" /\ wrun[w] < MaxErrors
  /\ tx' = [tx EXCEPT ![w] = "live"]
  /\ pend' = [pend EXCEPT ![w] = Finished(RollbackToSavepoint(w), "failed", "retry")]

\* It panics: gue recovers, the adapter does not go back to the savepoint.
ReturnPanic(w) ==
  /\ "panic" \in Behaviours
  /\ tx[w] # "none" /\ wrun[w] < MaxErrors
  /\ pend' = IF tx[w] = "live"
             THEN [pend EXCEPT ![w] = Finished(@, "failed", "retry")]
             ELSE pend
  /\ UNCHANGED tx

Return(w) ==
  /\ phase[w] = "running"
  /\ phase' = [phase EXCEPT ![w] = "returned"]
  /\ \/ ReturnOk(w) \/ ReturnErr(w) \/ ReturnPanic(w)
     \/ tx[w] = "none" /\ UNCHANGED <<tx, pend>>
  /\ UNCHANGED <<database, batch, wjob, wrun, losses>>

\* The row of gue_jobs_history that w inserts. Mutant: run_count is one off.
RowOneOff(w) == [job |-> wjob[w], run |-> wrun[w] - 1, state |-> "open"]
Row(w) == [job |-> wjob[w], run |-> wrun[w], state |-> "open"]

\* UpdateHistory looks for unfinished rows of its job and run_count; nobody else
\* adds one while the job is locked. Mutant: it takes any unfinished row of the
\* job, also one that a worker of an unknown type has left behind.
CloseAnyRun(w, h) ==
  IF h.job = wjob[w] /\ h.state = "open"
  THEN [h EXCEPT !.state = pend[w].end]
  ELSE h
Close(w, h) ==
  IF h.job = wjob[w] /\ h.run = wrun[w] /\ h.state = "open"
  THEN [h EXCEPT !.state = pend[w].end]
  ELSE h

\* The history as the transaction of w sees it, and as it leaves it.
Seen(w) == history \cup IF pend[w].hist = "open" THEN {Row(w)} ELSE {}
Left(w) == IF pend[w].end = "none" THEN Seen(w) ELSE {Close(w, h) : h \in Seen(w)}

\* The worker is done with its job. Mutant: it leaks the transaction.
IdleLocked(w) ==
  /\ phase' = [phase EXCEPT ![w] = "idle"]
  /\ UNCHANGED <<wjob, wrun, tx, pend>>
Idle(w) ==
  /\ phase' = [phase EXCEPT ![w] = "idle"]
  /\ wjob' = [wjob EXCEPT ![w] = NoJob]
  /\ wrun' = [wrun EXCEPT ![w] = 0]
  /\ tx' = [tx EXCEPT ![w] = "none"]
  /\ pend' = [pend EXCEPT ![w] = Nothing]

\* gue commits the deleted or, with a later run_at, the failed job.
Commit(w) ==
  /\ phase[w] = "returned" /\ tx[w] = "live"
  /\ queued' = pend[w].kids \cup IF pend[w].fate = "delete" THEN queued \ {wjob[w]}
                                 ELSE queued
  /\ due' = pend[w].kids \cup (due \ {wjob[w]})
  /\ born' = born \cup pend[w].kids
  /\ errors' = IF pend[w].fate = "retry"
               THEN [errors EXCEPT ![wjob[w]] = wrun[w] + 1]
               ELSE errors
  /\ effects' = IF pend[w].wrote THEN [effects EXCEPT ![wjob[w]] = @ + 1] ELSE effects
  /\ history' = Left(w)
  /\ Idle(w)
  /\ UNCHANGED <<batch, losses>>

\* A failed or lost transaction ends without a trace.
Rollback(w) ==
  /\ phase[w] = "returned" /\ tx[w] # "live"
  /\ Idle(w)
  /\ UNCHANGED <<database, batch, losses>>

\* The database rolls back and frees the row; the JobFunc does not know. A
\* statement of a hook that fails ends the transaction as little visibly: all
\* later ones are refused and gue cannot commit.
Lose(w) ==
  /\ tx[w] # "none"
  /\ losses < MaxLosses
  /\ losses' = losses + 1
  /\ tx' = [tx EXCEPT ![w] = "none"]
  /\ pend' = [pend EXCEPT ![w] = Nothing]
  /\ UNCHANGED <<database, batch, phase, wjob, wrun>>

-----------------------------------------------------------------------------
(* Time and the administrator.                                             *)

\* run_at of a job that failed, or was rescheduled, has come.
Due(j) ==
  /\ j \in queued \ due
  /\ due' = due \cup {j}
  /\ UNCHANGED <<queued, born, errors, effects, history, batch, worker, losses>>

\* DeleteByID waits for the row lock, at most a second.
DeleteByID(j) ==
  /\ j \in queued \ locked
  /\ queued' = queued \ {j}
  /\ due' = due \ {j}
  /\ UNCHANGED <<born, errors, effects, history, batch, worker, losses>>

\* RunJobAt, to a time that is still to come (an earlier one is Due).
RunJobAt(j) ==
  /\ j \in due \ locked
  /\ due' = due \ {j}
  /\ UNCHANGED <<queued, born, errors, effects, history, batch, worker, losses>>

-----------------------------------------------------------------------------
Process(w) == Start(w) \/ Return(w) \/ Commit(w) \/ Rollback(w)

Next ==
  \/ \E B \in Batches : \/ Enqueue(B)
                        \/ \E c \in Clients : EnqueueTx(c, B)
                        \/ \E w \in Workers : EnqueueKids(w, B)
  \/ \E c \in Clients : CommitTx(c) \/ RollbackTx(c)
  \/ \E w \in Workers : \/ Process(w) \/ Write(w) \/ FailStatement(w) \/ Lose(w)
                        \/ \E j \in Jobs : Lock(w, j)
  \/ \E j \in Jobs : Due(j) \/ DeleteByID(j) \/ RunJobAt(j)

Spec == Init /\ [][Next]_vars

(* Time passes, every worker polls and every JobFunc returns. An idle      *)
(* worker may find every job locked each time it polls, hence SF; a job is *)
(* not overtaken for ever by jobs of its own priority, as the poll orders  *)
(* them by run_at.                                                         *)
Fairness ==
  /\ \A j \in Jobs : WF_vars(Due(j)) /\ SF_vars(\E w \in Workers : Lock(w, j))
  /\ \A w \in Workers : WF_vars(Process(w))

FairSpec == Spec /\ Fairness

-----------------------------------------------------------------------------
(* Properties.                                                             *)

Changes == [hist : {"none", "open"}, end : {"none", "failed", "ok"},
            wrote : BOOLEAN, kids : SUBSET Jobs, fate : {"none", "delete", "retry"}]
Rows == [job : Jobs, run : 0..MaxErrors, state : {"open", "failed", "ok"}]

(* Every variable keeps its type; in particular no job is run more often   *)
(* than it may fail.                                                       *)
TypeOK ==
  /\ queued \subseteq Jobs /\ due \subseteq Jobs /\ born \subseteq Jobs
  /\ errors \in [Jobs -> 0..MaxErrors]
  /\ effects \in [Jobs -> Nat]
  /\ history \subseteq Rows
  /\ batch \in [Clients -> SUBSET Jobs]
  /\ phase \in [Workers -> {"idle", "locked", "running", "returned"}]
  /\ wjob \in [Workers -> Jobs \cup {NoJob}]
  /\ wrun \in [Workers -> 0..MaxErrors]
  /\ tx \in [Workers -> {"none", "live", "failed"}]
  /\ pend \in [Workers -> Changes]
  /\ losses \in 0..MaxLosses

(* While a transaction is open its job is still queued, nobody else works  *)
(* on it, and it has failed as often as the worker believes: neither lost  *)
(* connections nor the administrator take it away.                         *)
OwnJob ==
  \A w \in Workers : tx[w] # "none" =>
    /\ wjob[w] \in queued /\ wrun[w] = errors[wjob[w]]
    /\ \A v \in Workers : tx[v] # "none" /\ wjob[v] = wjob[w] => v = w

Recorded(j) == {h \in history : h.job = j}

(* The history tells the truth: one row for each failed run in order, and  *)
(* one for the successful run exactly of a job that has left the queue; no *)
(* retry, crash or rolled back run adds a row twice or loses one, and no   *)
(* run is marked as the end of another. Of a job whose arguments cannot be *)
(* read there is never a row, however often it fails (postgres.go:756).    *)
HistoryComplete ==
  \A j \in Jobs :
    /\ j \in Garbled => Recorded(j) = {}
    /\ \A g, h \in Recorded(j) : g.run = h.run => g = h
    /\ j \notin Garbled => \A n \in 0..MaxErrors :
         n < errors[j] <=> \E h \in Recorded(j) : h.run = n /\ h.state # "ok"
    /\ \A h \in Recorded(j) : h.state = "ok" => h.run = errors[j] /\ j \notin queued

(* The transactions make the queue the atomic one of AtomicJobs.           *)
Atomic == INSTANCE AtomicJobs
AtomicSpec == Atomic!Spec

(* No crash, rollback or reschedule loses a job: as long as JobFuncs       *)
(* succeed in the end, it leaves the queue.                                *)
JobsFinish == \A j \in Jobs : j \in queued ~> j \notin queued

(* The transaction in the context of the JobFunc keeps the database        *)
(* consistent (postgres.go:506): a job takes effect at most once, and not  *)
(* while it stays queued. It does not hold for JobFuncs that panic.        *)
EffectOnce == Atomic!EffectOnce

(* What the code's own words promise and the code does not keep, see the   *)
(* README.                                                                 *)

(* Failed jobs are recorded in the history (postgres_test.go:834): a run   *)
(* whose connection holds ends with a row for it.                          *)
FailuresRecorded ==
  [][\A w \in Workers :
       phase[w] = "returned" /\ phase'[w] = "idle" /\ tx[w] # "none" =>
         \E h \in history' : h.job = wjob[w] /\ h.run = wrun[w]]_vars

================================================================================
