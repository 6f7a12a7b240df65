------------------------------ MODULE AtomicJobs -------------------------------
(***************************************************************************)
(* What the Postgres queue promises about a job (jobs/jobs.go and the      *)
(* tests of jobs/postgres_test.go): a job that was enqueued is run until   *)
(* it succeeds or an administrator deletes it, what its JobFunc did in the *)
(* database takes effect in the moment the job leaves the queue, a failed  *)
(* run leaves no trace but one in the history. Transactions, locks, lost   *)
(* connections and savepoints are hidden; module JobQueue has them.        *)
(***************************************************************************)
EXTENDS Naturals

CONSTANTS
  Jobs,
  Garbled,  \* jobs whose arguments cannot be read
  MaxErrors

VARIABLES
  queued,   \* jobs waiting in the queue
  born,     \* jobs that were enqueued at some time
  errors,   \* failed runs of a job
  effects,  \* how often what the job's JobFunc does has taken effect
  history   \* finished and failed runs: [job, run, state]

atomicVars == <<queued, born, errors, effects, history>>

Run(j, s) == [job |-> j, run |-> errors[j], state |-> s]

Init ==
  /\ queued = {} /\ born = {} /\ history = {}
  /\ errors = [j \in Jobs |-> 0]
  /\ effects = [j \in Jobs |-> 0]

Enqueue(B) ==
  /\ B \cap born = {}
  /\ queued' = queued \cup B
  /\ born' = born \cup B
  /\ UNCHANGED <<errors, effects, history>>

\* The last run of j, in which its JobFunc may have enqueued the jobs B, and
\* may have written to the database or not.
Complete(j, B) ==
  /\ j \in queued /\ B \cap born = {}
  /\ queued' = (queued \ {j}) \cup B
  /\ born' = born \cup B
  /\ effects' \in {effects, [effects EXCEPT ![j] = @ + 1]}
  /\ history' = history \cup {Run(j, "ok")}
  /\ UNCHANGED errors

\* A run of j whose worker knows its type ends in "failed"; the runs of a job
\* that cannot be read are not recorded.
Fail(j) ==
  /\ j \in queued /\ errors[j] < MaxErrors
  /\ errors' = [errors EXCEPT ![j] = @ + 1]
  /\ \/ /\ j \notin Garbled
        /\ \E s \in {"failed", "open"} : history' = history \cup {Run(j, s)}
     \/ j \in Garbled /\ UNCHANGED history
  /\ UNCHANGED <<queued, born, effects>>

Remove(j) ==
  /\ j \in queued
  /\ queued' = queued \ {j}
  /\ UNCHANGED <<born, errors, effects, history>>

Next ==
  \/ \E B \in SUBSET Jobs : Enqueue(B)
  \/ \E j \in Jobs : Fail(j) \/ Remove(j) \/ \E B \in SUBSET Jobs : Complete(j, B)

Spec == Init /\ [][Next]_atomicVars

-----------------------------------------------------------------------------
(* A job takes effect at most once, and never while it is still queued and *)
(* may be run again.                                                       *)
EffectOnce ==
  \A j \in Jobs : /\ effects[j] \in {0, 1}
                  /\ effects[j] = 1 => j \in born \ queued

================================================================================
