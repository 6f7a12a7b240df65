----------------------------- MODULE JobQueueProofs ----------------------------
(***************************************************************************)
(* Theorems about JobQueue, for any jobs, workers, application             *)
(* transactions, pools and bounds: the history is complete, and unless     *)
(* JobFuncs panic the transactions implement AtomicJobs.                   *)
(***************************************************************************)
EXTENDS JobQueue, TLAPS

(* What is in a worker's transaction, by what the worker does.             *)
WorkerPhase ==
  \A w \in Workers :
    /\ phase[w] = "idle" => tx[w] = "none"
    /\ tx[w] = "none" \/ phase[w] = "locked" => pend[w] = Nothing
    /\ phase[w] = "locked" => wrun[w] < MaxErrors \/ wjob[w] \in Knows[w] \ BadArgs
    /\ phase[w] = "running" /\ tx[w] # "none" =>
         /\ pend[w].hist = "open" /\ pend[w].end = "none" /\ pend[w].fate = "none"
         /\ wjob[w] \notin Garbled
    /\ phase[w] = "returned" /\ tx[w] = "live" =>
         \/ /\ pend[w].hist = "open" /\ pend[w].end = "ok" /\ pend[w].fate = "delete"
            /\ wjob[w] \notin Garbled
         \/ /\ pend[w].hist = Inserted(wjob[w]) /\ pend[w].end \in {"none", "failed"}
            /\ pend[w].fate = "retry" /\ wrun[w] < MaxErrors
            /\ "panic" \notin Behaviours => ~pend[w].wrote /\ pend[w].kids = {}

(* Jobs that are not stored yet are in one transaction at most: a job that *)
(* has left the queue never comes back.                                    *)
Fresh ==
  /\ \A c \in Clients : batch[c] \cap born = {}
  /\ \A w \in Workers : pend[w].kids \cap born = {}
  /\ \A c, d \in Clients : c # d => batch[c] \cap batch[d] = {}
  /\ \A v, w \in Workers : v # w => pend[v].kids \cap pend[w].kids = {}
  /\ \A c \in Clients, w \in Workers : batch[c] \cap pend[w].kids = {}

Stored ==
  /\ queued \subseteq born
  /\ \A h \in history : h.job \in born

IInv == TypeOK /\ OwnJob /\ HistoryComplete /\ WorkerPhase /\ Fresh /\ Stored

LEMMA NothingType == Nothing \in Changes
BY DEF Nothing, Changes

LEMMA DisjointUnion ==
  ASSUME NEW X, NEW Y, NEW Z, X \cap Y = {}, Z \cap Y = {}
  PROVE  (X \cup Z) \cap Y = {} /\ Y \cap (X \cup Z) = {}
OBVIOUS

(* A new batch is disjoint from everything that is not committed yet.      *)
LEMMA NewBatch ==
  ASSUME NEW B \in Batches
  PROVE  /\ B \subseteq Jobs /\ B \cap born = {}
         /\ \A c \in Clients : B \cap batch[c] = {}
         /\ \A w \in Workers : B \cap pend[w].kids = {}
BY DEF Batches, Pending

LEMMA InitIInv == Init => IInv
<1> SUFFICES ASSUME Init PROVE IInv
  OBVIOUS
<1> USE BoundsAssumption DEF Init
<1>1. TypeOK
  BY NothingType DEF TypeOK
<1>2. OwnJob /\ WorkerPhase
  BY DEF OwnJob, WorkerPhase
<1>3. HistoryComplete
  BY DEF HistoryComplete, Recorded
<1>4. Fresh /\ Stored
  BY DEF Fresh, Stored, Nothing
<1> QED
  BY <1>1, <1>2, <1>3, <1>4 DEF IInv

(* Enqueue, in no transaction, in one of the application, and its commit.  *)
LEMMA EnqueueStep ==
  ASSUME IInv, NEW B \in Batches, Enqueue(B)
  PROVE  IInv'
<1> USE DEF IInv, Enqueue, worker
<1>0. /\ B \subseteq Jobs /\ B \cap born = {}
      /\ \A c \in Clients : B \cap batch[c] = {}
      /\ \A v \in Workers : B \cap pend[v].kids = {}
  BY NewBatch
<1>1. TypeOK'
  BY <1>0 DEF TypeOK
<1>2. OwnJob' /\ WorkerPhase'
  BY DEF OwnJob, WorkerPhase, TypeOK
<1>3. HistoryComplete'
  BY <1>0 DEF HistoryComplete, Recorded, Stored
<1>4. Fresh'
  BY <1>0 DEF Fresh
<1>5. Stored'
  BY DEF Stored
<1> QED
  BY <1>1, <1>2, <1>3, <1>4, <1>5

LEMMA EnqueueTxStep ==
  ASSUME IInv, NEW c \in Clients, NEW B \in Batches, EnqueueTx(c, B)
  PROVE  IInv'
<1> USE DEF IInv, EnqueueTx, worker, database
<1>0. /\ B \subseteq Jobs /\ B \cap born = {}
      /\ \A d \in Clients : B \cap batch[d] = {}
      /\ \A v \in Workers : B \cap pend[v].kids = {}
  BY NewBatch
<1>1. TypeOK'
  BY <1>0 DEF TypeOK
<1>2. OwnJob' /\ WorkerPhase' /\ HistoryComplete' /\ Stored'
  BY DEF OwnJob, WorkerPhase, TypeOK, HistoryComplete, Recorded, Stored
<1>3. Fresh'
  BY <1>0 DEF Fresh, TypeOK
<1> QED
  BY <1>1, <1>2, <1>3

LEMMA EndTxStep ==
  ASSUME IInv, NEW c \in Clients, CommitTx(c) \/ RollbackTx(c)
  PROVE  IInv'
<1> USE DEF IInv, CommitTx, RollbackTx, worker, database
<1>1. TypeOK'
  BY DEF TypeOK
<1>2. OwnJob' /\ WorkerPhase'
  BY DEF OwnJob, WorkerPhase, TypeOK
<1>3. HistoryComplete'
  BY DEF HistoryComplete, Recorded, Stored, Fresh
<1>4. Fresh'
  BY DEF Fresh, TypeOK
<1>5. Stored'
  BY DEF Stored
<1> QED
  BY <1>1, <1>2, <1>3, <1>4, <1>5

(* The steps of a worker that stay in its transaction.                     *)
LEMMA LockStep ==
  ASSUME IInv, NEW w \in Workers, NEW j \in Jobs, Lock(w, j)
  PROVE  IInv'
<1> USE DEF IInv, Lock, database
<1>1. TypeOK'
  BY DEF TypeOK
<1>2. OwnJob'
  BY DEF OwnJob, TypeOK, locked
<1>3. WorkerPhase'
  BY DEF WorkerPhase, TypeOK, MayFail
<1>4. HistoryComplete' /\ Fresh' /\ Stored'
  BY DEF HistoryComplete, Recorded, Fresh, Stored
<1> QED
  BY <1>1, <1>2, <1>3, <1>4

LEMMA StartStep ==
  ASSUME IInv, NEW w \in Workers, Start(w)
  PROVE  IInv'
<1> USE DEF IInv, Start, database
<1>0. PICK p \in Changes : pend' = [pend EXCEPT ![w] = p] /\ p.kids = pend[w].kids
  <2>1. pend[w] = Nothing /\ Nothing.kids = {} /\ pend[w] \in Changes
    BY DEF WorkerPhase, TypeOK, Nothing
  <2>2. CASE pend' = pend
    BY <2>1, <2>2 DEF TypeOK
  <2>3. CASE pend' = [pend EXCEPT ![w].hist = "open"]
    <3> DEFINE p == [pend[w] EXCEPT !.hist = "open"]
    <3>1. p \in Changes /\ p.kids = pend[w].kids
      BY <2>1 DEF Changes
    <3>2. pend' = [pend EXCEPT ![w] = p]
      BY <2>3
    <3> QED
      BY <3>1, <3>2
  <2>4. ASSUME NEW h \in {"none", "open"}, NEW e \in {"none", "failed"},
               pend' = [pend EXCEPT ![w] =
                          [Nothing EXCEPT !.hist = h, !.fate = "retry", !.end = e]]
        PROVE  \E p \in Changes : pend' = [pend EXCEPT ![w] = p] /\ p.kids = pend[w].kids
    <3> DEFINE p == [Nothing EXCEPT !.hist = h, !.fate = "retry", !.end = e]
    <3>1. p \in Changes /\ p.kids = {}
      BY DEF Changes, Nothing
    <3>2. pend' = [pend EXCEPT ![w] = p]
      BY <2>4
    <3> QED
      BY <2>1, <3>1, <3>2 DEF Nothing
  <2>5. Inserted(wjob[w]) \in {"none", "open"}
    BY DEF Inserted
  <2> QED
    BY <2>2, <2>3, <2>4, <2>5
<1>1. TypeOK'
  BY <1>0 DEF TypeOK
<1>2. OwnJob' /\ HistoryComplete' /\ Stored'
  BY DEF OwnJob, HistoryComplete, Recorded, Stored
<1>3. WorkerPhase'
  <2>1. pend[w] = Nothing
    BY DEF WorkerPhase
  <2>2. ASSUME NEW v \in Workers, v # w
        PROVE  /\ phase'[v] = phase[v] /\ tx'[v] = tx[v] /\ pend'[v] = pend[v]
               /\ wrun'[v] = wrun[v] /\ wjob'[v] = wjob[v]
    BY <2>2 DEF TypeOK
  <2>3. \/ phase'[w] = "returned" /\ tx[w] = "none" /\ pend'[w] = Nothing
        \/ /\ phase'[w] = "returned" /\ wrun[w] < MaxErrors
           /\ pend'[w].hist = Inserted(wjob[w]) /\ pend'[w].end \in {"none", "failed"}
           /\ pend'[w].fate = "retry" /\ ~pend'[w].wrote /\ pend'[w].kids = {} /\ tx[w] = "live"
        \/ /\ phase'[w] = "running" /\ pend'[w].hist = "open" /\ pend'[w].end = "none"
           /\ pend'[w].fate = "none" /\ tx[w] = "live" /\ wjob[w] \notin Garbled
    <3>1. phase'[w] \in {"returned", "running"} /\ pend[w] \in Changes
      BY DEF TypeOK
    <3>2. CASE tx[w] = "none"
      BY <2>1, <3>2 DEF TypeOK
    <3>3. CASE tx[w] = "live" /\ wjob[w] \in Knows[w] \ BadArgs
      <4>1. pend'[w] = [pend[w] EXCEPT !.hist = "open"]
        BY <3>3 DEF TypeOK
      <4>2. pend'[w].hist = "open" /\ pend'[w].end = "none" /\ pend'[w].fate = "none"
        BY <2>1, <4>1 DEF Nothing
      <4> QED
        BY <3>3, <4>2, JobsAssumption DEF TypeOK
    <3>4. ASSUME NEW e \in {"none", "failed"}, tx[w] = "live",
                 wjob[w] \notin Knows[w] \ BadArgs, phase'[w] = "returned",
                 pend' = [pend EXCEPT ![w] = [Nothing EXCEPT !.hist = Inserted(wjob[w]),
                                                !.fate = "retry", !.end = e]]
          PROVE  /\ wrun[w] < MaxErrors /\ pend'[w].hist = Inserted(wjob[w])
                 /\ pend'[w].end \in {"none", "failed"}
                 /\ pend'[w].fate = "retry" /\ ~pend'[w].wrote /\ pend'[w].kids = {}
      <4>1. pend'[w] = [Nothing EXCEPT !.hist = Inserted(wjob[w]), !.fate = "retry", !.end = e]
        BY <3>4 DEF TypeOK
      <4>2. wrun[w] < MaxErrors
        BY <3>4 DEF WorkerPhase
      <4>3. /\ pend'[w].hist = Inserted(wjob[w]) /\ pend'[w].end = e
            /\ pend'[w].fate = "retry"
            /\ pend'[w].wrote = FALSE /\ pend'[w].kids = {}
        BY <4>1 DEF Nothing
      <4> QED
        BY <4>2, <4>3
    <3>5. phase' = [phase EXCEPT ![w] = "returned"] => phase'[w] = "returned"
      BY DEF TypeOK
    <3> QED
      BY <3>2, <3>3, <3>4, <3>5
  <2> QED
    BY <2>2, <2>3 DEF WorkerPhase
<1>4. Fresh'
  BY <1>0 DEF Fresh, TypeOK
<1> QED
  BY <1>1, <1>2, <1>3, <1>4

LEMMA JobFuncStep ==
  ASSUME IInv, NEW w \in Workers,
         Write(w) \/ FailStatement(w) \/ \E B \in Batches : EnqueueKids(w, B)
  PROVE  IInv'
<1> USE DEF IInv, database
<1>1. CASE Write(w)
  <2> USE <1>1 DEF Write
  <2>0. /\ \A v \in Workers : v # w => pend'[v] = pend[v]
        /\ pend'[w] \in Changes /\ pend'[w].kids = pend[w].kids
        /\ pend'[w].hist = pend[w].hist /\ pend'[w].end = pend[w].end
        /\ pend'[w].fate = pend[w].fate
    <3>1. pend[w] \in Changes /\ pend'[w] = [pend[w] EXCEPT !.wrote = TRUE]
      BY DEF TypeOK
    <3>2. \A v \in Workers : v # w => pend'[v] = pend[v]
      BY DEF TypeOK
    <3>3. ASSUME NEW p \in Changes, NEW q, q = [p EXCEPT !.wrote = TRUE]
          PROVE  /\ q \in Changes /\ q.kids = p.kids /\ q.hist = p.hist
                 /\ q.end = p.end /\ q.fate = p.fate
      BY <3>3, Zenon DEF Changes
    <3> QED
      BY <3>1, <3>2, <3>3
  <2>1. TypeOK'
    BY <2>0 DEF TypeOK
  <2>2. WorkerPhase'
    BY <2>0 DEF WorkerPhase
  <2>3. OwnJob' /\ HistoryComplete' /\ Stored'
    BY DEF OwnJob, HistoryComplete, Recorded, Stored
  <2>4. Fresh'
    BY <2>0 DEF Fresh
  <2> QED
    BY <2>1, <2>2, <2>3, <2>4
<1>2. CASE FailStatement(w)
  <2> USE <1>2 DEF FailStatement
  <2>1. TypeOK' /\ WorkerPhase'
    BY DEF TypeOK, WorkerPhase
  <2>2. OwnJob' /\ HistoryComplete' /\ Fresh' /\ Stored'
    BY DEF OwnJob, TypeOK, HistoryComplete, Recorded, Fresh, Stored
  <2> QED
    BY <2>1, <2>2
<1>3. ASSUME NEW B \in Batches, EnqueueKids(w, B) PROVE IInv'
  <2> USE <1>3 DEF EnqueueKids
  <2>0. /\ B \subseteq Jobs /\ B \cap born = {}
      /\ \A c \in Clients : B \cap batch[c] = {}
      /\ \A v \in Workers : B \cap pend[v].kids = {}
    BY NewBatch
  <2>1. TypeOK' /\ WorkerPhase'
    BY <2>0 DEF TypeOK, WorkerPhase, Changes
  <2>2. OwnJob' /\ HistoryComplete' /\ Stored'
    BY DEF OwnJob, HistoryComplete, Recorded, Stored
  <2>3. /\ \A v \in Workers : v # w => pend'[v] = pend[v]
        /\ pend'[w].kids = pend[w].kids \cup B
    BY DEF TypeOK, Changes
  <2>4. Fresh'
    <3>1. batch' = batch /\ born' = born
      OBVIOUS
    <3>2. \A v \in Workers : pend'[v].kids \cap born' = {}
      BY <2>0, <2>3, <3>1 DEF Fresh
    <3>3. \A c \in Clients, v \in Workers : batch'[c] \cap pend'[v].kids = {}
      BY <2>0, <2>3, <3>1 DEF Fresh
    <3>4. \A u, v \in Workers : u # v => pend'[u].kids \cap pend'[v].kids = {}
      <4> SUFFICES ASSUME NEW u \in Workers, NEW v \in Workers, u # v
                   PROVE  pend'[u].kids \cap pend'[v].kids = {}
        OBVIOUS
      <4>1. pend[u].kids \cap pend[v].kids = {}
        BY DEF Fresh
      <4>2. CASE u = w
        <5>1. pend'[u].kids = pend[u].kids \cup B /\ pend'[v] = pend[v]
          BY <2>3, <4>2
        <5>2. B \cap pend[v].kids = {}
          BY NewBatch
        <5> QED
          BY <4>1, <5>1, <5>2, DisjointUnion
      <4>3. CASE v = w
        <5>1. pend'[v].kids = pend[v].kids \cup B /\ pend'[u] = pend[u]
          BY <2>3, <4>3
        <5>2. B \cap pend[u].kids = {}
          BY NewBatch
        <5> QED
          BY <4>1, <5>1, <5>2, DisjointUnion
      <4> QED
        BY <2>3, <4>1, <4>2, <4>3
    <3> QED
      BY <3>1, <3>2, <3>3, <3>4 DEF Fresh
  <2> QED
    BY <2>1, <2>2, <2>4
<1> QED
  BY <1>1, <1>2, <1>3

LEMMA FinishedIs ==
  ASSUME NEW p \in Changes, NEW e \in {"failed", "ok"}, NEW f \in {"delete", "retry"}
  PROVE  /\ Finished(p, e, f) \in Changes
         /\ Finished(p, e, f).hist = p.hist /\ Finished(p, e, f).end = e
         /\ Finished(p, e, f).fate = f
         /\ Finished(p, e, f).wrote = p.wrote /\ Finished(p, e, f).kids = p.kids
BY DEF Finished, Changes

LEMMA ReturnStep ==
  ASSUME IInv, NEW w \in Workers, Return(w)
  PROVE  IInv'
<1> USE DEF IInv, Return, database
<1>0. pend[w] \in Changes
  BY DEF TypeOK
<1>1. PICK p \in Changes :
        /\ pend' = [pend EXCEPT ![w] = p]
        /\ p.kids \subseteq pend[w].kids
        /\ tx[w] = "none" => p = pend[w]
        /\ tx'[w] = "live" =>
             \/ p.hist = "open" /\ p.end = "ok" /\ p.fate = "delete"
             \/ /\ p.hist = "open" /\ p.end = "failed" /\ p.fate = "retry"
                /\ wrun[w] < MaxErrors
                /\ "panic" \notin Behaviours => ~p.wrote /\ p.kids = {}
  <2>1. tx[w] # "none" => pend[w].hist = "open"
    BY DEF WorkerPhase
  <2>2. CASE pend' = pend /\ tx' = tx /\ tx[w] # "live"
    BY <1>0, <2>2 DEF TypeOK
  <2>3. CASE ReturnOk(w) /\ tx[w] = "live"
    <3> DEFINE p == Finished(pend[w], "ok", "delete")
    <3>1. /\ p \in Changes /\ p.kids = pend[w].kids /\ p.hist = "open"
          /\ p.end = "ok" /\ p.fate = "delete"
      BY <1>0, <2>1, <2>3, FinishedIs
    <3>2. pend' = [pend EXCEPT ![w] = p]
      BY <2>3 DEF ReturnOk
    <3> HIDE DEF p
    <3> QED
      BY <2>3, <3>1, <3>2
  <2>4. CASE ReturnErr(w)
    <3> DEFINE q == RollbackToSavepoint(w)
               p == Finished(q, "failed", "retry")
    <3>1. q \in Changes /\ q.hist = "open" /\ q.wrote = FALSE /\ q.kids = {}
      BY <1>0, <2>1, <2>4 DEF RollbackToSavepoint, Changes, ReturnErr
    <3>2. /\ p \in Changes /\ p.kids = {} /\ p.hist = "open" /\ p.end = "failed"
          /\ p.fate = "retry" /\ p.wrote = FALSE
      BY <3>1, FinishedIs
    <3>3. pend' = [pend EXCEPT ![w] = p] /\ wrun[w] < MaxErrors /\ tx[w] # "none"
      BY <2>4 DEF ReturnErr
    <3> HIDE DEF p
    <3> QED
      BY <3>2, <3>3
  <2>5. CASE ReturnPanic(w) /\ tx[w] = "live"
    <3> DEFINE p == Finished(pend[w], "failed", "retry")
    <3>1. /\ p \in Changes /\ p.kids = pend[w].kids /\ p.hist = "open"
          /\ p.end = "failed" /\ p.fate = "retry"
      BY <1>0, <2>1, <2>5, FinishedIs
    <3>2. pend' = [pend EXCEPT ![w] = p] /\ wrun[w] < MaxErrors /\ "panic" \in Behaviours
      BY <2>5 DEF ReturnPanic
    <3> HIDE DEF p
    <3> QED
      BY <2>5, <3>1, <3>2
  <2> QED
    BY <2>2, <2>3, <2>4, <2>5 DEF ReturnOk, ReturnPanic
<1>2. /\ \A v \in Workers : v # w => /\ phase'[v] = phase[v] /\ tx'[v] = tx[v]
                                     /\ pend'[v] = pend[v]
      /\ phase'[w] = "returned"
      /\ (tx'[w] = "none") <=> (tx[w] = "none")
      /\ tx' \in [Workers -> {"none", "live", "failed"}]
  BY <1>1 DEF TypeOK, ReturnOk, ReturnErr, ReturnPanic
<1>3. pend'[w] = p
  BY <1>1 DEF TypeOK
<1>4. TypeOK'
  BY <1>1, <1>2 DEF TypeOK
<1>5. OwnJob'
  BY <1>2 DEF OwnJob
<1>6. HistoryComplete' /\ Stored'
  BY DEF HistoryComplete, Recorded, Stored
<1>7. WorkerPhase'
  <2>1. tx[w] # "none" => wjob[w] \notin Garbled /\ Inserted(wjob[w]) = "open"
    BY DEF WorkerPhase, Inserted
  <2> QED
    BY <1>1, <1>2, <1>3, <2>1 DEF WorkerPhase
<1>8. Fresh'
  <2>1. \A v \in Workers : pend'[v].kids \subseteq pend[v].kids
    BY <1>1, <1>2, <1>3
  <2> QED
    BY <2>1 DEF Fresh
<1> QED
  BY <1>4, <1>5, <1>6, <1>7, <1>8

(* The end of a run.                                                       *)
LEMMA IdleWorker ==
  ASSUME IInv, NEW w \in Workers, Idle(w)
  PROVE  /\ \A v \in Workers : v # w =>
              /\ phase'[v] = phase[v] /\ wjob'[v] = wjob[v] /\ wrun'[v] = wrun[v]
              /\ tx'[v] = tx[v] /\ pend'[v] = pend[v]
         /\ phase'[w] = "idle" /\ tx'[w] = "none" /\ pend'[w] = Nothing
         /\ phase' \in [Workers -> {"idle", "locked", "running", "returned"}]
         /\ wjob' \in [Workers -> Jobs \cup {NoJob}]
         /\ wrun' \in [Workers -> 0..MaxErrors]
         /\ tx' \in [Workers -> {"none", "live", "failed"}]
         /\ pend' \in [Workers -> Changes]
<1>1. 0 \in 0..MaxErrors
  BY BoundsAssumption
<1> QED
  BY <1>1, NothingType DEF IInv, TypeOK, Idle

(* The finishing hook finds the row of its own run and no other: the       *)
(* history has none for it yet, as the job is locked. A run that could not *)
(* be recorded when it started is not recorded at all.                     *)
LEMMA LeftIs ==
  ASSUME IInv, NEW w \in Workers, phase[w] = "returned", tx[w] = "live",
         NEW j, j = wjob[w]
  PROVE  /\ j \in Garbled => pend[w].fate = "retry" /\ Left(w) = history
         /\ j \notin Garbled =>
              \E s \in IF pend[w].fate = "delete" THEN {"ok"} ELSE {"failed", "open"} :
                Left(w) = history \cup {[job |-> j, run |-> errors[j], state |-> s]}
<1> USE DEF IInv
<1>1. j \in Jobs /\ j \in queued /\ wrun[w] = errors[j] /\ wrun[w] \in 0..MaxErrors
  BY DEF OwnJob, TypeOK
<1>2. \A h \in history : h.job = j => h.run # wrun[w]
  BY <1>1 DEF HistoryComplete, Recorded, TypeOK, Rows
<1>3. \A h \in history : Close(w, h) = h
  BY <1>2 DEF Close
<1>4. CASE j \in Garbled
  <2>1. pend[w].fate = "retry" /\ pend[w].hist = "none"
    BY <1>4 DEF WorkerPhase, Inserted
  <2>2. Seen(w) = history
    BY <2>1 DEF Seen
  <2> QED
    BY <1>3, <1>4, <2>1, <2>2 DEF Left
<1>5. CASE j \notin Garbled
  <2> DEFINE e(s) == [job |-> j, run |-> errors[j], state |-> s]
  <2>1. pend[w].hist = "open"
    BY <1>5 DEF WorkerPhase, Inserted
  <2>2. Seen(w) = history \cup {e("open")}
    BY <1>1, <2>1 DEF Seen, Row
  <2>3. CASE pend[w].end = "none"
    <3>1. pend[w].fate # "delete" /\ Left(w) = history \cup {e("open")}
      BY <2>2, <2>3 DEF Left, WorkerPhase
    <3> QED
      BY <1>5, <3>1
  <2>4. CASE pend[w].end # "none"
    <3>1. Close(w, e("open")) = e(pend[w].end)
      BY <1>1 DEF Close
    <3>2. Left(w) = history \cup {e(pend[w].end)}
      BY <1>3, <2>2, <2>4, <3>1 DEF Left
    <3>3. pend[w].end \in IF pend[w].fate = "delete" THEN {"ok"} ELSE {"failed", "open"}
      BY <2>4 DEF WorkerPhase
    <3> QED
      BY <1>5, <3>2, <3>3
  <2> QED
    BY <2>3, <2>4
<1> QED
  BY <1>4, <1>5

LEMMA CommitStep ==
  ASSUME IInv, NEW w \in Workers, Commit(w)
  PROVE  IInv'
<1> DEFINE kids == pend[w].kids
<1> USE BoundsAssumption DEF IInv
<1>0. PICK j \in Jobs : j = wjob[w]
  BY DEF Commit, OwnJob, TypeOK
<1>1. /\ phase[w] = "returned" /\ tx[w] = "live" /\ Idle(w)
      /\ batch' = batch /\ losses' = losses /\ born' = born \cup kids
  BY DEF Commit
<1>2. /\ pend[w] \in Changes /\ kids \subseteq Jobs /\ kids \cap born = {}
      /\ j \in Jobs /\ j \in queued /\ j \in born
      /\ wrun[w] = errors[j] /\ wrun[w] \in 0..MaxErrors
  BY <1>0, <1>1 DEF OwnJob, TypeOK, Changes, Fresh, Stored
<1>3. \A v \in Workers : v # w /\ tx[v] # "none" => wjob[v] # j
  BY <1>0, <1>1 DEF OwnJob
<1>4. \/ /\ j \notin Garbled
         /\ queued' = kids \cup (queued \ {j}) /\ errors' = errors
         /\ history' = history \cup {[job |-> j, run |-> errors[j], state |-> "ok"]}
      \/ /\ wrun[w] < MaxErrors
         /\ queued' = kids \cup queued
         /\ errors' = [errors EXCEPT ![j] = errors[j] + 1]
         /\ \/ j \in Garbled /\ history' = history
            \/ /\ j \notin Garbled
               /\ \E s \in {"open", "failed"} :
                    history' = history \cup {[job |-> j, run |-> errors[j], state |-> s]}
  <2>1. history' = Left(w)
    BY DEF Commit
  <2>2. CASE pend[w].fate = "delete"
    <3>1. queued' = kids \cup (queued \ {j}) /\ errors' = errors
      BY <1>0, <2>2 DEF Commit
    <3> QED
      BY <1>0, <1>1, <2>1, <2>2, <3>1, LeftIs
  <2>3. CASE pend[w].fate # "delete"
    <3>1. pend[w].fate = "retry" /\ wrun[w] < MaxErrors
      BY <1>1, <2>3 DEF WorkerPhase
    <3>2. queued' = kids \cup queued /\ errors' = [errors EXCEPT ![j] = errors[j] + 1]
      BY <1>0, <1>2, <3>1 DEF Commit
    <3> QED
      BY <1>0, <1>1, <2>1, <2>3, <3>1, <3>2, LeftIs
  <2> QED
    BY <2>2, <2>3
<1>5. TypeOK'
  <2>1. errors' \in [Jobs -> 0..MaxErrors]
    BY <1>2, <1>4 DEF TypeOK
  <2>2. effects' \in [Jobs -> Nat]
    BY <1>0, <1>2 DEF Commit, TypeOK
  <2>3. history' \subseteq Rows
    BY <1>2, <1>4 DEF TypeOK, Rows
  <2>4. queued' \subseteq Jobs /\ born' \subseteq Jobs
    BY <1>1, <1>2, <1>4 DEF TypeOK
  <2>5. due' \subseteq Jobs
    BY <1>2 DEF Commit, TypeOK
  <2> QED
    BY <1>1, <2>1, <2>2, <2>3, <2>4, <2>5, IdleWorker DEF TypeOK
<1>6. OwnJob'
  <2> SUFFICES ASSUME NEW v \in Workers, tx'[v] # "none"
               PROVE  /\ wjob'[v] \in queued' /\ wrun'[v] = errors'[wjob'[v]]
                      /\ \A u \in Workers : tx'[u] # "none" /\ wjob'[u] = wjob'[v] => u = v
    BY DEF OwnJob
  <2>1. v # w /\ tx[v] # "none" /\ wjob'[v] = wjob[v] /\ wrun'[v] = wrun[v]
    BY <1>1, IdleWorker
  <2>2. wjob[v] # j /\ wjob[v] \in queued /\ wrun[v] = errors[wjob[v]]
    BY <1>3, <2>1 DEF OwnJob
  <2>3. wjob[v] \in queued' /\ errors'[wjob[v]] = errors[wjob[v]]
    BY <1>4, <2>2 DEF TypeOK
  <2>4. ASSUME NEW u \in Workers, tx'[u] # "none", wjob'[u] = wjob'[v] PROVE u = v
    <3>1. u # w /\ tx[u] # "none" /\ wjob[u] = wjob[v]
      BY <1>1, <2>1, <2>4, IdleWorker
    <3> QED
      BY <2>1, <3>1 DEF OwnJob
  <2> QED
    BY <2>1, <2>2, <2>3, <2>4
<1>7. HistoryComplete'
  <2> SUFFICES ASSUME NEW i \in Jobs
               PROVE  /\ i \in Garbled => Recorded(i)' = {}
                      /\ \A g, h \in Recorded(i)' : g.run = h.run => g = h
                      /\ i \notin Garbled => \A n \in 0..MaxErrors : n < errors'[i] <=>
                           \E h \in Recorded(i)' : h.run = n /\ h.state # "ok"
                      /\ \A h \in Recorded(i)' : h.state = "ok" =>
                           h.run = errors'[i] /\ i \notin queued'
    BY DEF HistoryComplete
  <2>1. CASE i # j
    <3>1. Recorded(i)' = Recorded(i) /\ errors'[i] = errors[i]
      BY <1>4, <2>1 DEF Recorded, TypeOK
    <3>2. \A h \in Recorded(i) : i \in born
      BY DEF Recorded, Stored
    <3>3. i \in born => (i \in queued' <=> i \in queued)
      BY <1>2, <1>4, <2>1
    <3> QED
      BY <3>1, <3>2, <3>3 DEF HistoryComplete
  <2>3. CASE i = j /\ j \in Garbled
    <3>1. Recorded(j) = {} /\ history' = history
      BY <1>2, <1>4, <2>3 DEF HistoryComplete
    <3>2. Recorded(j)' = {}
      BY <3>1 DEF Recorded
    <3> QED
      BY <2>3, <3>2
  <2>2. CASE i = j /\ j \notin Garbled
    <3>1. \A h \in Recorded(j) : h.state # "ok"
      BY <1>2 DEF HistoryComplete
    <3>2. \A h \in Recorded(j) : h.run < errors[j] /\ h.run \in 0..MaxErrors
      BY <1>2, <2>2, <3>1 DEF HistoryComplete, Recorded, TypeOK, Rows
    <3>3. ASSUME NEW s \in {"open", "failed", "ok"},
                 history' = history \cup {[job |-> j, run |-> errors[j], state |-> s]}
          PROVE  Recorded(j)' = Recorded(j) \cup {[job |-> j, run |-> errors[j], state |-> s]}
      BY <3>3 DEF Recorded
    <3>4. \A g, h \in Recorded(j) : g.run = h.run => g = h
      BY <1>2 DEF HistoryComplete
    <3>5. \A n \in 0..MaxErrors :
            n < errors[j] <=> \E h \in Recorded(j) : h.run = n /\ h.state # "ok"
      BY <1>2, <2>2 DEF HistoryComplete
    <3>6. errors[j] \in 0..MaxErrors
      BY <1>2
    <3>7. CASE /\ queued' = kids \cup (queued \ {j}) /\ errors' = errors
               /\ history' = history \cup {[job |-> j, run |-> errors[j], state |-> "ok"]}
      <4>1. Recorded(j)' = Recorded(j) \cup {[job |-> j, run |-> errors[j], state |-> "ok"]}
        BY <3>3, <3>7
      <4>2. j \notin queued'
        BY <1>2, <3>7
      <4> QED
        BY <2>2, <3>1, <3>2, <3>4, <3>5, <3>6, <3>7, <4>1, <4>2
    <3>8. ASSUME NEW s \in {"open", "failed"},
                 errors' = [errors EXCEPT ![j] = errors[j] + 1],
                 history' = history \cup {[job |-> j, run |-> errors[j], state |-> s]}
          PROVE  /\ \A g, h \in Recorded(j)' : g.run = h.run => g = h
                 /\ \A n \in 0..MaxErrors : n < errors'[j] <=>
                      \E h \in Recorded(j)' : h.run = n /\ h.state # "ok"
                 /\ \A h \in Recorded(j)' : h.state # "ok"
      <4>1. Recorded(j)' = Recorded(j) \cup {[job |-> j, run |-> errors[j], state |-> s]}
        BY <3>3, <3>8
      <4>2. errors'[j] = errors[j] + 1
        BY <1>2, <3>8 DEF TypeOK
      <4> DEFINE e == [job |-> j, run |-> errors[j], state |-> s]
      <4>3. e \in Recorded(j)' /\ e.run = errors[j] /\ e.state # "ok"
        BY <4>1
      <4>4. \A h \in Recorded(j)' : h.state # "ok" /\ (h \in Recorded(j) \/ h = e)
        BY <3>1, <4>1, <4>3
      <4>5. \A g, h \in Recorded(j)' : g.run = h.run => g = h
        BY <3>2, <3>4, <3>6, <4>3, <4>4
      <4>6. ASSUME NEW n \in 0..MaxErrors
            PROVE  n < errors'[j] <=> \E h \in Recorded(j)' : h.run = n /\ h.state # "ok"
        <5>1. n < errors'[j] <=> n < errors[j] \/ n = errors[j]
          BY <3>6, <4>2
        <5>2. CASE n = errors[j]
          BY <4>3, <5>1, <5>2
        <5>3. CASE n # errors[j]
          <6>1. \A h \in Recorded(j)' : h.run = n => h \in Recorded(j)
            BY <4>3, <4>4, <5>3
          <6>2. \A h \in Recorded(j) : h \in Recorded(j)'
            BY <4>1
          <6> QED
            BY <3>5, <5>1, <5>3, <6>1, <6>2
        <5> QED
          BY <5>2, <5>3
      <4> QED
        BY <4>4, <4>5, <4>6
    <3> QED
      BY <1>4, <2>2, <3>7, <3>8
  <2> QED
    BY <2>1, <2>2, <2>3
<1>8. WorkerPhase'
  BY <1>1, IdleWorker DEF WorkerPhase
<1>9. Fresh'
  <2>1. \A v \in Workers : pend'[v].kids = IF v = w THEN {} ELSE pend[v].kids
    <3>1. Nothing.kids = {}
      BY DEF Nothing
    <3> QED
      BY <1>1, <3>1, IdleWorker
  <2> QED
    BY <1>1, <2>1 DEF Fresh
<1>10. Stored'
  BY <1>1, <1>2, <1>4 DEF Stored
<1> QED
  BY <1>5, <1>6, <1>7, <1>8, <1>9, <1>10

LEMMA RollbackStep ==
  ASSUME IInv, NEW w \in Workers, Rollback(w)
  PROVE  IInv'
<1> USE DEF IInv, database
<1>1. /\ Idle(w) /\ batch' = batch /\ losses' = losses /\ queued' = queued /\ due' = due
      /\ born' = born /\ errors' = errors /\ effects' = effects /\ history' = history
  BY DEF Rollback
<1>2. TypeOK'
  BY <1>1, IdleWorker DEF TypeOK
<1>3. OwnJob' /\ WorkerPhase'
  BY <1>1, IdleWorker DEF OwnJob, WorkerPhase
<1>4. HistoryComplete' /\ Stored'
  BY <1>1 DEF HistoryComplete, Recorded, Stored
<1>5. Fresh'
  <2>1. \A v \in Workers : pend'[v].kids = IF v = w THEN {} ELSE pend[v].kids
    <3>1. Nothing.kids = {}
      BY DEF Nothing
    <3> QED
      BY <1>1, <3>1, IdleWorker
  <2> QED
    BY <1>1, <2>1 DEF Fresh
<1> QED
  BY <1>2, <1>3, <1>4, <1>5

LEMMA LoseStep ==
  ASSUME IInv, NEW w \in Workers, Lose(w)
  PROVE  IInv'
<1> USE BoundsAssumption, NothingType DEF IInv, Lose, database
<1>1. TypeOK'
  BY DEF TypeOK
<1>2. \A v \in Workers : /\ tx'[v] = IF v = w THEN "none" ELSE tx[v]
                         /\ pend'[v] = IF v = w THEN Nothing ELSE pend[v]
  BY DEF TypeOK
<1>3. OwnJob' /\ WorkerPhase'
  BY <1>2 DEF OwnJob, WorkerPhase
<1>4. HistoryComplete' /\ Stored'
  BY DEF HistoryComplete, Recorded, Stored
<1>5. Fresh'
  <2>1. \A v \in Workers : pend'[v].kids = IF v = w THEN {} ELSE pend[v].kids
    BY <1>2 DEF Nothing
  <2> QED
    BY <2>1 DEF Fresh
<1> QED
  BY <1>1, <1>3, <1>4, <1>5

LEMMA AdminStep ==
  ASSUME IInv, NEW j \in Jobs, Due(j) \/ DeleteByID(j) \/ RunJobAt(j)
  PROVE  IInv'
<1> USE DEF IInv, Due, DeleteByID, RunJobAt, worker
<1>1. TypeOK' /\ WorkerPhase' /\ Fresh' /\ Stored'
  BY DEF TypeOK, WorkerPhase, Fresh, Stored
<1>2. OwnJob'
  BY DEF OwnJob, locked
<1>3. HistoryComplete'
  BY DEF HistoryComplete, Recorded
<1> QED
  BY <1>1, <1>2, <1>3

LEMMA NextIInv == IInv /\ [Next]_vars => IInv'
<1> SUFFICES ASSUME IInv, [Next]_vars PROVE IInv'
  OBVIOUS
<1>1. ASSUME NEW B \in Batches,
             Enqueue(B) \/ \E c \in Clients : EnqueueTx(c, B)
      PROVE  IInv'
  BY <1>1, EnqueueStep, EnqueueTxStep
<1>2. ASSUME NEW c \in Clients, CommitTx(c) \/ RollbackTx(c) PROVE IInv'
  BY <1>2, EndTxStep
<1>3. ASSUME NEW w \in Workers, Process(w) \/ Lose(w) PROVE IInv'
  BY <1>3, StartStep, ReturnStep, CommitStep, RollbackStep, LoseStep DEF Process
<1>4. ASSUME NEW w \in Workers,
             Write(w) \/ FailStatement(w) \/ \E B \in Batches : EnqueueKids(w, B)
      PROVE  IInv'
  BY <1>4, JobFuncStep
<1>5. ASSUME NEW w \in Workers, NEW j \in Jobs, Lock(w, j) PROVE IInv'
  BY <1>5, LockStep
<1>6. ASSUME NEW j \in Jobs, Due(j) \/ DeleteByID(j) \/ RunJobAt(j) PROVE IInv'
  BY <1>6, AdminStep
<1>7. CASE UNCHANGED vars
  BY <1>7 DEF vars, database, worker, IInv, TypeOK, OwnJob, HistoryComplete, Recorded,
     WorkerPhase, Fresh, Stored
<1> QED
  BY <1>1, <1>2, <1>3, <1>4, <1>5, <1>6, <1>7 DEF Next

LEMMA Invariance == Spec => []IInv
BY InitIInv, NextIInv, PTL DEF Spec

(* Every variable keeps its type: a run_count never exceeds the retries.   *)
THEOREM TypeCorrect == Spec => []TypeOK
<1>1. IInv => TypeOK
  BY DEF IInv
<1> QED
  BY <1>1, Invariance, PTL

(* A worker with an open transaction owns a job that is still queued.      *)
THEOREM OwnJobCorrect == Spec => []OwnJob
<1>1. IInv => OwnJob
  BY DEF IInv
<1> QED
  BY <1>1, Invariance, PTL

(* The history has exactly one row per run that has come to an end, in the *)
(* state in which it ended, of every job whose arguments can be read, and  *)
(* none of the other jobs.                                                 *)
THEOREM HistoryCorrect == Spec => []HistoryComplete
<1>1. IInv => HistoryComplete
  BY DEF IInv
<1> QED
  BY <1>1, Invariance, PTL

(* The refinement. Without panics a failed run leaves only its history.    *)
LEMMA CommitMaps ==
  ASSUME IInv, "panic" \notin Behaviours, NEW w \in Workers, Commit(w)
  PROVE  \E j \in Jobs : Atomic!Fail(j) \/ \E B \in SUBSET Jobs : Atomic!Complete(j, B)
<1> USE DEF IInv
<1>0. PICK j \in Jobs : j = wjob[w]
  BY DEF Commit, OwnJob, TypeOK
<1> DEFINE B == pend[w].kids
<1>1. /\ j \in queued /\ wrun[w] = errors[j] /\ errors \in [Jobs -> 0..MaxErrors]
      /\ B \subseteq Jobs /\ B \cap born = {}
  BY <1>0 DEF Commit, OwnJob, TypeOK, Changes, Fresh
<1>2. /\ phase[w] = "returned" /\ tx[w] = "live" /\ born' = born \cup B
      /\ effects' \in {effects, [effects EXCEPT ![j] = effects[j] + 1]}
  BY <1>0 DEF Commit
<1>3. CASE pend[w].fate = "delete"
  <2>1. history' = history \cup {[job |-> j, run |-> errors[j], state |-> "ok"]}
    BY <1>0, <1>2, <1>3, LeftIs DEF Commit
  <2>2. queued' = (queued \ {j}) \cup B /\ errors' = errors
    BY <1>0, <1>1, <1>3 DEF Commit
  <2>3. Atomic!Complete(j, B)
    BY <1>1, <1>2, <2>1, <2>2 DEF Atomic!Complete, Atomic!Run
  <2> QED
    BY <1>1, <2>3
<1>4. CASE pend[w].fate # "delete"
  <2>1. /\ pend[w].fate = "retry" /\ wrun[w] < MaxErrors /\ ~pend[w].wrote /\ B = {}
    BY <1>2, <1>4 DEF WorkerPhase
  <2>2. /\ queued' = queued /\ effects' = effects /\ born' = born
        /\ errors' = [errors EXCEPT ![j] = errors[j] + 1]
    BY <1>0, <1>1, <2>1 DEF Commit
  <2>3. \/ j \in Garbled /\ history' = history
        \/ /\ j \notin Garbled
           /\ \E s \in {"failed", "open"} :
                history' = history \cup {[job |-> j, run |-> errors[j], state |-> s]}
    BY <1>0, <1>2, <1>4, LeftIs DEF Commit
  <2>4. Atomic!Fail(j)
    BY <1>1, <2>1, <2>2, <2>3 DEF Atomic!Fail, Atomic!Run
  <2> QED
    BY <2>4
<1> QED
  BY <1>3, <1>4

LEMMA StepMaps ==
  ASSUME IInv, "panic" \notin Behaviours, [Next]_vars
  PROVE  [Atomic!Next]_(Atomic!atomicVars)
<1>1. ASSUME NEW B \in Batches, Enqueue(B) PROVE Atomic!Next
  <2>1. B \in SUBSET Jobs /\ Atomic!Enqueue(B)
    BY <1>1, NewBatch DEF Enqueue, Atomic!Enqueue
  <2> QED
    BY <2>1 DEF Atomic!Next
<1>2. ASSUME NEW c \in Clients, CommitTx(c) PROVE Atomic!Next
  <2>1. batch[c] \in SUBSET Jobs /\ Atomic!Enqueue(batch[c])
    BY <1>2 DEF CommitTx, Atomic!Enqueue, IInv, TypeOK, Fresh
  <2> QED
    BY <2>1 DEF Atomic!Next
<1>3. ASSUME NEW w \in Workers, Commit(w) PROVE Atomic!Next
  BY <1>3, CommitMaps DEF Atomic!Next
<1>4. ASSUME NEW j \in Jobs, DeleteByID(j) PROVE Atomic!Next
  <2>1. Atomic!Remove(j)
    BY <1>4 DEF DeleteByID, Atomic!Remove
  <2> QED
    BY <2>1 DEF Atomic!Next
<1>5. \/ \E B \in Batches : Enqueue(B)
      \/ \E c \in Clients : CommitTx(c)
      \/ \E w \in Workers : Commit(w)
      \/ \E j \in Jobs : DeleteByID(j)
      \/ UNCHANGED <<queued, born, errors, effects, history>>
  BY DEF Next, Process, vars, database, EnqueueTx, EnqueueKids, RollbackTx, Start, Return,
     Rollback, Write, FailStatement, Lose, Lock, Due, RunJobAt
<1> QED
  BY <1>1, <1>2, <1>3, <1>4, <1>5 DEF Atomic!atomicVars

(* Enqueue, the workers' transactions with their savepoints and locks, and *)
(* the administration implement the atomic queue, whatever connections are *)
(* lost, as long as no JobFunc panics.                                     *)
THEOREM Refinement ==
  ASSUME "panic" \notin Behaviours
  PROVE  Spec => AtomicSpec
<1>1. Init => Atomic!Init
  BY DEF Init, Atomic!Init
<1>2. IInv /\ [Next]_vars => [Atomic!Next]_(Atomic!atomicVars)
  BY StepMaps
<1> QED
  BY <1>1, <1>2, Invariance, PTL DEF Spec, AtomicSpec, Atomic!Spec

(* What the JobFunc of a job has written takes effect at most once, and    *)
(* never while the job is still queued.                                    *)
THEOREM EffectOnceCorrect ==
  ASSUME "panic" \notin Behaviours
  PROVE  Spec => []EffectOnce
<1> DEFINE Inv == /\ EffectOnce
                  /\ effects \in [Jobs -> Nat]
                  /\ queued \subseteq born
<1> USE DEF EffectOnce, Atomic!EffectOnce
<1>1. Atomic!Init => Inv
  BY DEF Atomic!Init
<1>2. ASSUME Inv, [Atomic!Next]_(Atomic!atomicVars) PROVE Inv'
  <2>1. ASSUME NEW B \in SUBSET Jobs, Atomic!Enqueue(B) PROVE Inv'
    BY <1>2, <2>1 DEF Atomic!Enqueue
  <2>2. ASSUME NEW j \in Jobs, NEW B \in SUBSET Jobs, Atomic!Complete(j, B) PROVE Inv'
    BY <1>2, <2>2 DEF Atomic!Complete
  <2>3. ASSUME NEW j \in Jobs, Atomic!Fail(j) \/ Atomic!Remove(j) PROVE Inv'
    BY <1>2, <2>3 DEF Atomic!Fail, Atomic!Remove
  <2>4. CASE UNCHANGED Atomic!atomicVars
    BY <1>2, <2>4 DEF Atomic!atomicVars
  <2> QED
    BY <1>2, <2>1, <2>2, <2>3, <2>4 DEF Atomic!Next
<1>3. Atomic!Spec => []EffectOnce
  <2>1. Inv => EffectOnce
    OBVIOUS
  <2> HIDE DEF Inv
  <2> QED
    BY <1>1, <1>2, <2>1, PTL DEF Atomic!Spec
<1> QED
  BY <1>3, Refinement DEF AtomicSpec

================================================================================
