------------------------- MODULE QueueSettingsProofs -------------------------
(***************************************************************************)
(* Theorems about two small components that share no constant, variable or *)
(* definition: that the queue in memory neither loses nor doubles a job    *)
(* (MemoryQueue); and, from "Values" on, that settings are read as they    *)
(* were written and kept by Register, for any keys, clients, Go values and *)
(* widths of an integer (Settings).                                        *)
(***************************************************************************)
EXTENDS MemoryQueue, Settings, SequenceTheorems, FiniteSetTheorems, TLAPS

(* A goroutine has a job exactly while its JobFunc runs.                   *)
CallHasJob == \A g \in Gors : phase[g] = "call" <=> job[g] # NoJob

IInv == TypeOK /\ CallHasJob /\ Conserved

-----------------------------------------------------------------------------
(* What the operations on the slice do to the jobs in it.                  *)

LEMMA ConcatElems ==
  ASSUME NEW S, NEW s \in Seq(S), NEW t \in Seq(S)
  PROVE  /\ s \o t \in Seq(S)
         /\ ToSet(s \o t) = ToSet(s) \cup ToSet(t)
         /\ IsInjective(s) /\ IsInjective(t) /\ ToSet(s) \cap ToSet(t) = {} => IsInjective(s \o t)
<1> DEFINE u == s \o t
<1>1. /\ Len(s) \in Nat /\ DOMAIN s = 1 .. Len(s)
      /\ Len(t) \in Nat /\ DOMAIN t = 1 .. Len(t)
  BY LenProperties
<1>2. /\ u \in Seq(S)
      /\ Len(u) = Len(s) + Len(t)
      /\ \A i \in 1 .. Len(s) + Len(t) : u[i] = IF i <= Len(s) THEN s[i] ELSE t[i - Len(s)]
  BY ConcatProperties
<1>3. DOMAIN u = 1 .. Len(s) + Len(t)
  BY <1>2, LenProperties
<1> HIDE DEF u
<1>4. \A i \in DOMAIN s : i \in DOMAIN u /\ u[i] = s[i]
  BY <1>1, <1>2, <1>3
<1>5. \A i \in DOMAIN t : i + Len(s) \in DOMAIN u /\ u[i + Len(s)] = t[i]
  <2> SUFFICES ASSUME NEW i \in DOMAIN t
               PROVE  i + Len(s) \in DOMAIN u /\ u[i + Len(s)] = t[i]
    OBVIOUS
  <2>1. i \in Nat /\ 1 <= i /\ i <= Len(t)
    BY <1>1
  <2>2. /\ i + Len(s) \in 1 .. Len(s) + Len(t)
        /\ ~(i + Len(s) <= Len(s))
        /\ (i + Len(s)) - Len(s) = i
    BY <2>1, <1>1
  <2> QED
    BY <2>2, <1>2, <1>3
<1>6. \A i \in DOMAIN u :
        \/ i \in DOMAIN s /\ u[i] = s[i]
        \/ i - Len(s) \in DOMAIN t /\ u[i] = t[i - Len(s)] /\ i \notin DOMAIN s
  BY <1>1, <1>2, <1>3
<1>7. ToSet(u) = ToSet(s) \cup ToSet(t)
  BY <1>4, <1>5, <1>6 DEF ToSet
<1>8. ASSUME IsInjective(s), IsInjective(t), ToSet(s) \cap ToSet(t) = {}
      PROVE  IsInjective(u)
  <2> SUFFICES ASSUME NEW m \in DOMAIN u, NEW n \in DOMAIN u, u[m] = u[n]
               PROVE  m = n
    BY DEF IsInjective
  <2>1. m \in Int /\ n \in Int
    BY <1>3, <1>1
  <2>2. CASE m \in DOMAIN s /\ n \in DOMAIN s
    BY <2>2, <1>4, <1>8 DEF IsInjective
  <2>3. CASE m \notin DOMAIN s /\ n \notin DOMAIN s
    <3>1. m - Len(s) = n - Len(s)
      BY <2>3, <1>6, <1>8 DEF IsInjective
    <3> QED
      BY <3>1, <2>1, <1>1
  <2>4. CASE m \in DOMAIN s /\ n \notin DOMAIN s
    BY <2>4, <1>6, <1>8 DEF ToSet
  <2>5. CASE m \notin DOMAIN s /\ n \in DOMAIN s
    BY <2>5, <1>6, <1>8 DEF ToSet
  <2> QED
    BY <2>2, <2>3, <2>4, <2>5
<1> QED
  BY <1>2, <1>7, <1>8 DEF u

LEMMA SingleElems ==
  ASSUME NEW S, NEW e \in S
  PROVE  <<e>> \in Seq(S) /\ ToSet(<<e>>) = {e} /\ IsInjective(<<e>>)
BY DEF ToSet, IsInjective

LEMMA AppendElems ==
  ASSUME NEW S, NEW s \in Seq(S), NEW e \in S
  PROVE  /\ Append(s, e) \in Seq(S)
         /\ ToSet(Append(s, e)) = ToSet(s) \cup {e}
         /\ IsInjective(s) /\ e \notin ToSet(s) => IsInjective(Append(s, e))
<1> DEFINE t == <<e>>
<1>1. Append(s, e) = s \o t
  OBVIOUS
<1>2. t \in Seq(S) /\ ToSet(t) = {e} /\ IsInjective(t)
  BY SingleElems
<1> HIDE DEF t
<1> QED
  BY <1>1, <1>2, ConcatElems

LEMMA TailElems ==
  ASSUME NEW S, NEW s \in Seq(S), s # <<>>, IsInjective(s)
  PROVE  /\ Head(s) \in S /\ Tail(s) \in Seq(S)
         /\ ToSet(s) = ToSet(Tail(s)) \cup {Head(s)}
         /\ Head(s) \notin ToSet(Tail(s))
         /\ IsInjective(Tail(s))
<1>1. s = <<Head(s)>> \o Tail(s)
  OBVIOUS
<1>2. /\ Head(s) \in S /\ Tail(s) \in Seq(S)
      /\ Len(Tail(s)) = Len(s) - 1
      /\ \A i \in 1 .. Len(Tail(s)) : Tail(s)[i] = s[i + 1]
  BY HeadTailProperties
<1>3. /\ Len(s) \in Nat /\ DOMAIN s = 1 .. Len(s) /\ 1 \in DOMAIN s
      /\ DOMAIN Tail(s) = 1 .. Len(Tail(s)) /\ Head(s) = s[1]
  BY <1>2, LenProperties, EmptySeq
<1>4. ToSet(s) = ToSet(Tail(s)) \cup {Head(s)}
  <2> DEFINE h == <<Head(s)>>
             t == Tail(s)
  <2>1. ToSet(h) = {Head(s)} /\ h \in Seq(S) /\ t \in Seq(S) /\ s = h \o t
    BY <1>1, <1>2, SingleElems
  <2>2. ToSet(h \o t) = ToSet(h) \cup ToSet(t)
    <3> HIDE DEF h, t
    <3> QED
      BY <2>1, ConcatElems
  <2> QED
    BY <2>1, <2>2
<1>5. \A i \in DOMAIN Tail(s) : i \in Nat /\ i + 1 \in DOMAIN s /\ i + 1 # 1 /\ Tail(s)[i] = s[i + 1]
  BY <1>2, <1>3
<1>6. Head(s) \notin ToSet(Tail(s))
  BY <1>3, <1>5 DEF ToSet, IsInjective
<1>7. IsInjective(Tail(s))
  <2> SUFFICES ASSUME NEW m \in DOMAIN Tail(s), NEW n \in DOMAIN Tail(s), Tail(s)[m] = Tail(s)[n]
               PROVE  m = n
    BY DEF IsInjective
  <2>1. m + 1 = n + 1
    BY <1>5 DEF IsInjective
  <2> QED
    BY <2>1, <1>5
<1> QED
  BY <1>2, <1>4, <1>6, <1>7

LEMMA SliceType ==
  ASSUME NEW s \in Slices
  PROVE  s \in Seq(Jobs) /\ ToSet(s) \subseteq Jobs \ born /\ IsInjective(s)
<1>1. PICK m \in 0 .. MaxBatch : s \in [1 .. m -> Jobs \ born]
  BY DEF Slices, SeqOf
<1>2. m \in Nat
  BY BatchAssumption
<1>3. s \in Seq(Jobs \ born)
  BY <1>1, <1>2, SeqDef
<1>4. s \in Seq(Jobs)
  BY <1>3, SeqMonotonic
<1>5. ToSet(s) \subseteq Jobs \ born
  BY <1>1 DEF ToSet
<1>6. IsInjective(s)
  BY DEF Slices, IsInjective
<1> QED
  BY <1>4, <1>5, <1>6

-----------------------------------------------------------------------------
(* What goes on and off a goroutine.                                       *)

LEMMA IdleRunning ==
  ASSUME IInv, NEW g \in Gors, Idle(g)
  PROVE  /\ Running' = Running \ {job[g]}
         /\ phase' \in [Gors -> {"none", "first", "call"}]
         /\ job' \in [Gors -> Jobs \cup {NoJob}]
         /\ CallHasJob'
         /\ \A h, i \in Gors : job'[h] = job'[i] /\ job'[h] # NoJob => h = i
<1>1. /\ phase' \in [Gors -> {"none", "first", "call"}]
      /\ job' \in [Gors -> Jobs \cup {NoJob}]
  BY DEF IInv, TypeOK, Idle
<1>2. /\ job'[g] = NoJob /\ phase'[g] = "none"
      /\ \A h \in Gors : h # g => job'[h] = job[h] /\ phase'[h] = phase[h]
  BY DEF IInv, TypeOK, Idle
<1>3. \A h, i \in Gors : job'[h] = job'[i] /\ job'[h] # NoJob => h = i
  BY <1>2 DEF IInv, Conserved
<1>4. Running' = Running \ {job[g]}
  BY <1>2 DEF Running, IInv, Conserved
<1>5. CallHasJob'
  BY <1>2 DEF IInv, CallHasJob
<1> QED
  BY <1>1, <1>3, <1>4, <1>5

LEMMA InitIInv == Init => IInv
<1> SUFFICES ASSUME Init PROVE IInv
  OBVIOUS
<1>1. TypeOK
  <2>1. jobs \in Seq(Jobs)
    BY EmptySeq DEF Init
  <2> QED
    BY <2>1 DEF Init, TypeOK
<1>2. CallHasJob
  BY DEF Init, CallHasJob
<1>3. Waiting = {} /\ Running = {}
  BY DEF Init, Waiting, Running, ToSet
<1>4. Conserved
  BY <1>3 DEF Init, Conserved, IsInjective
<1> QED
  BY <1>1, <1>2, <1>4 DEF IInv

\* Jobs that are new are appended to the slice.
LEMMA AddIInv ==
  ASSUME IInv, NEW s \in Seq(Jobs), ToSet(s) \subseteq Jobs \ born, IsInjective(s),
         jobs' = jobs \o s, born' = born \cup ToSet(s),
         UNCHANGED <<alive, workerMap, scheduled, gors, life>>
  PROVE  IInv'
<1> USE DEF IInv
<1>1. Waiting = ToSet(jobs) /\ Waiting' = ToSet(jobs')
  BY DEF Waiting, ToSet
<1>2. IsInjective(jobs) /\ ToSet(jobs) \cap ToSet(s) = {}
  BY <1>1 DEF Conserved, IsInjective
<1>3. jobs' \in Seq(Jobs) /\ ToSet(jobs') = ToSet(jobs) \cup ToSet(s) /\ IsInjective(jobs')
  BY <1>2, ConcatElems DEF TypeOK
<1>4. Running' = Running
  BY DEF Running, gors
<1>5. TypeOK'
  BY <1>3 DEF TypeOK, gors, life
<1>6. CallHasJob'
  BY DEF CallHasJob, gors
<1>7. Conserved'
  <2>1. /\ born' = (Waiting \cup Running \cup done \cup dropped)'
        /\ (Waiting \cap Running = {} /\ done \cap dropped = {})'
        /\ ((Waiting \cup Running) \cap (done \cup dropped) = {})'
    BY <1>1, <1>3, <1>4 DEF Conserved, gors
  <2>2. IsInjective(jobs')
    BY <1>3 DEF IsInjective
  <2>3. (\A g, h \in Gors : job[g] = job[h] /\ job[g] # NoJob => g = h)'
    BY DEF Conserved, gors
  <2> QED
    BY <2>1, <2>2, <2>3 DEF Conserved
<1> QED
  BY <1>5, <1>6, <1>7

\* A step that leaves the jobs alone.
LEMMA OtherIInv ==
  ASSUME IInv, TypeOK', CallHasJob', UNCHANGED <<jobs, born, job, done, dropped>>
  PROVE  IInv'
<1>1. Waiting' = Waiting /\ Running' = Running
  BY DEF Waiting, Running
<1> QED
  BY <1>1 DEF IInv, Conserved

LEMMA NextIInv ==
  ASSUME IInv, [Next]_vars
  PROVE  IInv'
<1> USE DEF IInv
<1>a. /\ Waiting = ToSet(jobs) /\ Waiting' = ToSet(jobs')
      /\ IsInjective(jobs) /\ jobs \in Seq(Jobs)
  BY DEF Waiting, ToSet, IsInjective, Conserved, TypeOK
<1>1. ASSUME NEW s \in Slices, Enqueue(s) PROVE IInv'
  <2>1. born' = born \cup ToSet(s)
    BY <1>1 DEF Enqueue, ToSet
  <2> QED
    BY <1>1, <2>1, SliceType, AddIInv DEF Enqueue
<1>2. ASSUME NEW j \in Jobs, RegisterJobFunc(j) PROVE IInv'
  <2>1. JobType(j) \in Types
    BY TypesAssumption DEF JobType
  <2>2. TypeOK'
    BY <1>2, <2>1 DEF RegisterJobFunc, TypeOK, gors, life
  <2> QED
    BY <1>2, <2>2, OtherIInv DEF RegisterJobFunc, CallHasJob, gors, life
<1>3. ASSUME NEW j \in Jobs, Schedule(j) PROVE IInv'
  <2>1. TypeOK'
    BY <1>3, TypesAssumption DEF Schedule, TypeOK, gors, life
  <2> QED
    BY <1>3, <2>1, OtherIInv DEF Schedule, CallHasJob, gors, life
<1>4. CASE Shutdown
  <2>1. TypeOK'
    BY <1>4 DEF Shutdown, TypeOK, queue, gors
  <2> QED
    BY <1>4, <2>1, OtherIInv DEF Shutdown, CallHasJob, queue, gors
<1>5. CASE CronRun
  <2>1. TypeOK'
    BY <1>5 DEF CronRun, TypeOK, queue, gors
  <2> QED
    BY <1>5, <2>1, OtherIInv DEF CronRun, CallHasJob, queue, gors
<1>6. CASE StopWorkers
  <2>1. TypeOK'
    BY <1>6 DEF StopWorkers, TypeOK, queue, gors
  <2> QED
    BY <1>6, <2>1, OtherIInv DEF StopWorkers, CallHasJob, queue, gors
<1>7. ASSUME NEW j \in Jobs, CronFire(j) PROVE IInv'
  <2> DEFINE t == <<j>>
  <2>1. t \in Seq(Jobs) /\ ToSet(t) = {j} /\ IsInjective(t)
    BY SingleElems
  <2>2. jobs' = jobs \o t
    BY <1>7, <1>a DEF CronFire
  <2> HIDE DEF t
  <2> QED
    BY <1>7, <2>1, <2>2, AddIInv DEF CronFire
<1>8. ASSUME NEW g \in Gors, Tick(g) PROVE IInv'
  <2>1. TypeOK'
    BY <1>8 DEF Tick, TypeOK, queue, life
  <2>2. CallHasJob'
    BY <1>8 DEF Tick, TypeOK, CallHasJob
  <2> QED
    BY <1>8, <2>1, <2>2, OtherIInv DEF Tick, queue
<1>9. ASSUME NEW g \in Gors, TakeNone(g) PROVE IInv'
  <2>1. job[g] = NoJob /\ NoJob \notin Running
    BY <1>9 DEF TakeNone, CallHasJob, Running
  <2>2. Waiting' = Waiting /\ Running' = Running
    BY <1>9, <2>1, IdleRunning DEF TakeNone, queue, Waiting
  <2>3. TypeOK'
    BY <1>9, IdleRunning DEF TakeNone, TypeOK, queue, life
  <2>4. (\A h, i \in Gors : job[h] = job[i] /\ job[h] # NoJob => h = i)' /\ CallHasJob'
    BY <1>9, IdleRunning DEF TakeNone
  <2>5. Conserved'
    BY <1>9, <2>2, <2>4 DEF TakeNone, Conserved, queue
  <2> QED
    BY <2>3, <2>4, <2>5
<1>b. ASSUME jobs # <<>>, jobs' = Rest
      PROVE  /\ Head(jobs) \in Jobs /\ jobs' \in Seq(Jobs) /\ IsInjective(jobs')
             /\ Waiting = Waiting' \cup {Head(jobs)} /\ Head(jobs) \notin Waiting'
  BY <1>b, <1>a, TailElems DEF Rest
<1>10. ASSUME NEW g \in Gors, TakeUnknown(g) PROVE IInv'
  <2>1. job[g] = NoJob /\ NoJob \notin Running
    BY <1>10 DEF TakeUnknown, CallHasJob, Running
  <2>2. Running' = Running
    <3>1. Idle(g)
      BY <1>10 DEF TakeUnknown
    <3>2. Running' = Running \ {job[g]}
      BY <3>1, IdleRunning
    <3> QED
      BY <3>2, <2>1
  <2>3. /\ Head(jobs) \in Jobs /\ jobs' \in Seq(Jobs) /\ IsInjective(jobs')
        /\ Waiting = Waiting' \cup {Head(jobs)} /\ Head(jobs) \notin Waiting'
    BY <1>10, <1>b DEF TakeUnknown
  <2>4. TypeOK'
    BY <1>10, <2>3, IdleRunning DEF TakeUnknown, TypeOK, life
  <2>5. (\A h, i \in Gors : job[h] = job[i] /\ job[h] # NoJob => h = i)' /\ CallHasJob'
    BY <1>10, IdleRunning DEF TakeUnknown
  <2>6. IsInjective(jobs')
    BY <2>3 DEF IsInjective
  <2>7. /\ born' = (Waiting \cup Running \cup done \cup dropped)'
        /\ (Waiting \cap Running = {} /\ done \cap dropped = {})'
        /\ ((Waiting \cup Running) \cap (done \cup dropped) = {})'
    BY <1>10, <2>2, <2>3 DEF TakeUnknown, Conserved
  <2> QED
    BY <2>4, <2>5, <2>6, <2>7 DEF Conserved
<1>11. ASSUME NEW g \in Gors, Take(g) PROVE IInv'
  <2> DEFINE j == Head(jobs)
  <2>1. job[g] = NoJob
    BY <1>11 DEF Take, CallHasJob
  <2>2. /\ j \in Jobs /\ jobs' \in Seq(Jobs) /\ IsInjective(jobs')
        /\ Waiting = Waiting' \cup {j} /\ j \notin Waiting'
    BY <1>11, <1>b DEF Take
  <2>3. j # NoJob /\ j \notin Running
    BY <2>2, JobsAssumption DEF Conserved
  <2>4. /\ job'[g] = j /\ phase'[g] = "call"
        /\ \A h \in Gors : h # g => job'[h] = job[h] /\ phase'[h] = phase[h]
    BY <1>11 DEF Take, TypeOK
  <2>5. TypeOK'
    BY <1>11, <2>2 DEF Take, TypeOK, life
  <2> HIDE DEF j
  <2>6. Running' = Running \cup {j}
    BY <2>1, <2>3, <2>4 DEF Running
  <2>7. CallHasJob'
    BY <2>3, <2>4 DEF CallHasJob
  <2>8. (\A h, i \in Gors : job[h] = job[i] /\ job[h] # NoJob => h = i)'
    BY <2>3, <2>4 DEF Conserved, Running
  <2>9. IsInjective(jobs')
    BY <2>2 DEF IsInjective
  <2>10. /\ born' = (Waiting \cup Running \cup done \cup dropped)'
         /\ (Waiting \cap Running = {} /\ done \cap dropped = {})'
         /\ ((Waiting \cup Running) \cap (done \cup dropped) = {})'
    BY <1>11, <2>2, <2>3, <2>6 DEF Take, Conserved
  <2> QED
    BY <2>5, <2>7, <2>8, <2>9, <2>10 DEF Conserved
<1>c. ASSUME NEW g \in Gors, phase[g] = "call"
      PROVE  job[g] \in Jobs /\ job[g] \in Running /\ job[g] \notin Waiting
  BY <1>c DEF CallHasJob, TypeOK, Running, Conserved
<1>12. ASSUME NEW g \in Gors, Succeed(g) PROVE IInv'
  <2>1. job[g] \in Jobs /\ job[g] \in Running /\ job[g] \notin Waiting
    BY <1>12, <1>c DEF Succeed
  <2>2. Running' = Running \ {job[g]} /\ Waiting' = Waiting
    BY <1>12, IdleRunning DEF Succeed, queue, Waiting
  <2>3. TypeOK'
    BY <1>12, <2>1, IdleRunning DEF Succeed, TypeOK, queue, life
  <2>4. (\A h, i \in Gors : job[h] = job[i] /\ job[h] # NoJob => h = i)' /\ CallHasJob'
    BY <1>12, IdleRunning DEF Succeed
  <2>5. Conserved'
    BY <1>12, <2>1, <2>2, <2>4 DEF Succeed, Conserved, queue
  <2> QED
    BY <2>3, <2>4, <2>5
<1>13. ASSUME NEW g \in Gors, Fail(g) PROVE IInv'
  <2>1. job[g] \in Jobs /\ job[g] \in Running /\ job[g] \notin Waiting
    BY <1>13, <1>c DEF Fail
  <2>2. Running' = Running \ {job[g]}
    BY <1>13, IdleRunning DEF Fail
  <2>3. jobs' \in Seq(Jobs) /\ Waiting' = Waiting \cup {job[g]} /\ IsInjective(jobs')
    BY <1>13, <1>a, <2>1, AppendElems DEF Fail, PutBack
  <2>4. TypeOK'
    BY <1>13, <2>3, IdleRunning DEF Fail, TypeOK, life
  <2>5. (\A h, i \in Gors : job[h] = job[i] /\ job[h] # NoJob => h = i)' /\ CallHasJob'
    BY <1>13, IdleRunning DEF Fail
  <2>6. IsInjective(jobs')
    BY <2>3 DEF IsInjective
  <2>7. /\ born' = (Waiting \cup Running \cup done \cup dropped)'
        /\ (Waiting \cap Running = {} /\ done \cap dropped = {})'
        /\ ((Waiting \cup Running) \cap (done \cup dropped) = {})'
    BY <1>13, <2>1, <2>2, <2>3 DEF Fail, Conserved
  <2> QED
    BY <2>4, <2>5, <2>6, <2>7 DEF Conserved
<1>14. ASSUME NEW g \in Gors, Panic(g) PROVE IInv'
  <2>1. TypeOK'
    BY <1>14 DEF Panic, TypeOK, queue, gors, life
  <2> QED
    BY <1>14, <2>1, OtherIInv DEF Panic, CallHasJob, queue, gors
<1>15. CASE UNCHANGED vars
  <2>1. TypeOK'
    BY <1>15 DEF vars, TypeOK, queue, gors, life
  <2> QED
    BY <1>15, <2>1, OtherIInv DEF vars, CallHasJob, queue, gors
<1> QED
  BY <1>1, <1>2, <1>3, <1>4, <1>5, <1>6, <1>7, <1>8, <1>9, <1>10, <1>11, <1>12, <1>13, <1>14, <1>15
  DEF Next, First

-----------------------------------------------------------------------------
(* Theorems.                                                               *)

(* The inductive invariant holds in every state of the queue in memory.    *)
THEOREM InvariantHolds == Spec => []IInv
<1>1. Init => IInv
  BY InitIInv
<1>2. IInv /\ [Next]_vars => IInv'
  BY NextIInv
<1> QED
  BY <1>1, <1>2, PTL DEF Spec

(* The queue's variables have their types; only types with a JobFunc are   *)
(* keys of the map (jobs/inmemory.go:93).                                   *)
THEOREM TypeCorrect == Spec => []TypeOK
<1>1. IInv => TypeOK
  BY DEF IInv
<1> QED
  BY <1>1, InvariantHolds, PTL

(* No job is lost or doubled by any number of goroutines that take jobs,   *)
(* run them without the mutex and put failed ones back                      *)
(* (jobs/inmemory.go:143-182).                                              *)
THEOREM ConservedCorrect == Spec => []Conserved
<1>1. IInv => Conserved
  BY DEF IInv
<1> QED
  BY <1>1, InvariantHolds, PTL

-----------------------------------------------------------------------------
(* Values.                                                                 *)

LEMMA BoolReads ==
  ASSUME NEW v \in Texts
  PROVE  /\ v.form \in {"padded", "frac", "exp", "cents", "infinite", "stamp", "json", "word",
                       "clock", "lostclock"} => ~Bool(v).ok
         /\ v.form = "num" /\ v.n \notin {0, 1} => ~Bool(v).ok
         /\ v.form = "num" /\ v.n \in {0, 1} => Bool(v) = Ok(v.n)
         /\ v.form = "truth" => Bool(v) = Ok(v.n)
         /\ v.form = "empty" => Bool(v) = Ok(0)
BY DEF Bool, Ok, Invalid

(* A value is read back as the type that was written, whatever its text    *)
(* looks like. No text is the stamp of a time, which would become another  *)
(* value when it is read from the database.                                *)
LEMMA GoValueText ==
  ASSUME NEW val, IsGoValue(val)
  PROVE  /\ NewValue(val) \in Texts
         /\ NewValue(GoString(NewValue(val))) = NewValue(val)
         /\ ReadsBackAs(val, NewValue(val))
<1> DEFINE v == NewValue(val)
           kinds == IntKinds \cup UintKinds
<1>1. "string" \notin kinds /\ "bool" \notin kinds /\ "float" \notin kinds /\ "time" \notin kinds
      /\ "struct" \notin kinds /\ "nil" \notin kinds /\ "func" \notin kinds
  BY KindsAssumption DEF OtherKinds
<1>2. ASSUME v \in Texts
      PROVE  \A kind \in kinds :
               Integer(kind, v).ok /\ v.form \in {"num", "padded"} => Integer(kind, v).x = v.n
  <2>1. v.form \in {"num", "padded"} /\ Bool(v).ok => Bool(v).x = v.n
    BY <1>2, BoolReads DEF Ok
  <2> HIDE DEF v
  <2> QED
    BY <2>1 DEF Integer, Ok, Invalid
<1>3. CASE IsText(val.x) /\ val = GoString(val.x)
  <2>1. val.kind = "string" /\ val.x \in Texts
    BY <1>3 DEF GoString, IsText
  <2>2. v = IF val.x.form = "stamp" THEN Clock(val.x.n, TRUE) ELSE val.x
    BY <2>1 DEF NewValue
  <2>3. Clock(val.x.n, TRUE) \in Texts /\ Clock(val.x.n, TRUE).form = "clock" /\ Clock(val.x.n, TRUE).n = val.x.n
    BY <2>1 DEF Clock, Texts, Forms
  <2>4. v \in Texts /\ v.form # "stamp"
    BY <2>1, <2>2, <2>3
  <2>5. val.x.form = "stamp" => v.form = "clock" /\ v.n = val.x.n
    BY <2>2, <2>3
  <2>6. val.x.form # "stamp" => v = val.x
    BY <2>2
  <2>7. val.x = [form |-> val.x.form, n |-> val.x.n]
    BY <2>1 DEF Texts
  <2> HIDE DEF v
  <2>8. NewValue(GoString(v)) = v
    BY <2>4 DEF NewValue, GoString
  <2>9. ASSUME \/ val.x.form \in {"empty", "json", "word", "stamp", "truth", "spelled"}
               \/ val.x.form = "num" /\ InWord(val.x.n)
        PROVE  String(v) = val.x
    <3>1. CASE val.x.form \in {"empty", "json", "word", "truth", "spelled"}
      BY <2>6, <3>1 DEF String
    <3>2. CASE val.x.form = "stamp"
      BY <2>5, <2>7, <3>2 DEF String, Stamp
    <3>3. CASE val.x.form = "num" /\ InWord(val.x.n)
      BY <2>6, <2>7, <3>3 DEF String, Num
    <3> QED
      BY <2>9, <3>1, <3>2, <3>3
  <2>10. ASSUME val.x.form \in {"empty", "json", "word", "stamp", "truth"}, NEW kind \in IntKinds
         PROVE  UnmarshalString(v, Empty, kind) = val.x
    <3>1. CASE val.x.form = "empty"
      <4>1. val.x = Empty /\ v = Empty
        BY <1>3, <2>6, <2>7, <3>1 DEF IsText, Empty
      <4>2. Bool(v).ok
        BY <2>4, <3>1, <4>1, BoolReads DEF Ok
      <4> QED
        BY <3>1, <4>1, <4>2 DEF UnmarshalString
    <3>2. CASE val.x.form = "truth"
      <4>1. Bool(v) = Ok(v.n) /\ v.n \in {0, 1} /\ v.form = "truth"
        BY <1>3, <2>1, <2>6, <3>2, BoolReads DEF IsText
      <4>2. UnmarshalString(v, Empty, kind) = Truth(v.n = 1)
        BY <4>1 DEF UnmarshalString, Ok
      <4> QED
        BY <2>6, <2>7, <3>2, <4>1, <4>2 DEF Truth
    <3>3. CASE val.x.form \in {"json", "word", "stamp"}
      <4>1. v.form \in {"json", "word", "clock"}
        BY <2>5, <2>6, <3>3
      <4>2. ~Bool(v).ok /\ ~Integer(kind, v).ok /\ ~Float(v).ok
        BY <2>4, <4>1, BoolReads DEF Integer, Float, Invalid
      <4>3. UnmarshalString(v, Empty, kind) = IF v.form = "clock" THEN Stamp(v.n) ELSE v
        BY <4>1, <4>2 DEF UnmarshalString
      <4> QED
        BY <2>5, <2>6, <2>7, <3>3, <4>1, <4>3 DEF Stamp
    <3> QED
      BY <2>10, <3>1, <3>2, <3>3
  <2> QED
    BY <1>1, <1>2, <2>1, <2>4, <2>8, <2>9, <2>10 DEF ReadsBackAs, v
<1>4. ASSUME val.kind # "string", val.x \in Texts, val.x.form # "stamp"
      PROVE  v = val.x /\ v \in Texts /\ NewValue(GoString(v)) = v
  BY <1>4 DEF NewValue, GoString
<1>5. CASE val \in {GoBool(TRUE), GoBool(FALSE)}
  <2>1. /\ val.kind = "bool" /\ val.x.form = "truth" /\ val.x.n \in {0, 1} /\ val.x \in Texts
    BY <1>5 DEF GoBool, Truth, Texts, Forms
  <2>2. v = val.x /\ v \in Texts /\ NewValue(GoString(v)) = v
    BY <1>4, <2>1
  <2>3. Bool(v) = Ok(v.n)
    BY <2>1, <2>2, BoolReads
  <2> HIDE DEF v
  <2> QED
    BY <1>1, <1>2, <2>1, <2>2, <2>3 DEF ReadsBackAs, v
<1>6. CASE val \in {GoNil, GoFunc}
  <2>1. val.kind \in {"nil", "func"} /\ val.x.form = "empty" /\ val.x \in Texts
    BY <1>6 DEF GoNil, GoFunc, Empty, Texts, Forms
  <2>2. v = val.x /\ v \in Texts /\ NewValue(GoString(v)) = v
    BY <1>4, <2>1
  <2> HIDE DEF v
  <2> QED
    BY <1>1, <1>2, <2>1, <2>2 DEF ReadsBackAs, v
<1>7. CASE val.kind \in kinds /\ val = GoInt(val.kind, val.x.n) /\ val.x.n \in Int /\ InRange(val.kind, val.x.n)
  <2>1. val.x.form = "num" /\ val.x \in Texts
    BY <1>7 DEF GoInt, Num, Texts, Forms
  <2>2. v = val.x /\ v \in Texts /\ NewValue(GoString(v)) = v
    BY <1>1, <1>4, <1>7, <2>1
  <2> HIDE DEF v
  <2>3. Integer(val.kind, v) = Ok(val.x.n)
    <3>1. CASE v.n \in {0, 1}
      <4>1. Bool(v) = Ok(v.n)
        BY <2>1, <2>2, <3>1, BoolReads
      <4>2. Bool(v).ok
        BY <4>1 DEF Ok
      <4>3. Integer(val.kind, v) = Bool(v)
        BY <4>2 DEF Integer
      <4> QED
        BY <2>2, <4>1, <4>3
    <3>2. CASE v.n \notin {0, 1}
      BY <1>7, <2>1, <2>2, <3>2, BoolReads DEF Integer
    <3> QED
      BY <3>1, <3>2
  <2> QED
    BY <1>1, <1>2, <1>7, <2>2, <2>3 DEF ReadsBackAs, v
<1>8. CASE IsFloatText(val.x) /\ val = GoFloat(val.x)
  <2>0. val.x \in Texts /\ val.x.form \in {"num", "frac", "exp", "infinite"}
        /\ (val.x.form = "num" => Rounded(val.x.n) = val.x.n)
    BY <1>8 DEF IsFloatText, IsText
  <2>1. val.kind = "float"
    BY <1>8 DEF GoFloat
  <2>2. v = val.x /\ v \in Texts /\ NewValue(GoString(v)) = v
    BY <1>4, <2>0, <2>1
  <2> HIDE DEF v
  <2>3. \/ val.x.form = "num" /\ Float(v) = Ok(2 * val.x.n)
        \/ val.x.form = "frac" /\ Float(v) = Ok(2 * val.x.n + 1)
        \/ val.x.form = "exp" /\ Float(v) = Ok(val.x.n)
        \/ val.x.form = "infinite" /\ Float(v) = NotFinite(val.x.n)
    <3>1. CASE v.form = "num" /\ v.n \in {0, 1}
      <4>1. Bool(v) = Ok(v.n)
        BY <2>2, <3>1, BoolReads
      <4>2. Bool(v).ok /\ Bool(v).x = v.n
        BY <4>1 DEF Ok
      <4>3. Float(v) = Ok(2 * v.n)
        BY <3>1, <4>2 DEF Float
      <4> QED
        BY <2>2, <3>1, <4>3
    <3>2. CASE v.form = "num" /\ v.n \notin {0, 1}
      BY <2>0, <2>2, <3>2, BoolReads DEF Float
    <3>3. CASE v.form = "frac"
      BY <2>2, <3>3, BoolReads DEF Float
    <3>4. CASE v.form = "exp"
      BY <2>2, <3>4, BoolReads DEF Float
    <3>5. CASE v.form = "infinite"
      BY <2>2, <3>5, BoolReads DEF Float
    <3> QED
      BY <2>0, <2>2, <3>1, <3>2, <3>3, <3>4, <3>5
  <2> QED
    BY <1>1, <1>2, <2>1, <2>2, <2>3 DEF ReadsBackAs, v
<1>9. CASE val.x.n \in Int /\ val \in {GoTime(val.x.n, TRUE), GoTime(val.x.n, FALSE)}
  <2>1. val.kind = "time" /\ val.x \in Texts /\ val.x.form \in {"clock", "lostclock"}
    BY <1>9 DEF GoTime, Clock, Texts, Forms
  <2>2. v = val.x /\ v \in Texts /\ NewValue(GoString(v)) = v
    BY <1>4, <2>1
  <2> HIDE DEF v
  <2>3. val.x.form = "clock" => Time(v) = Ok(val.x.n) /\ UnmarshalStruct(v, 0) = Ok(val.x.n)
    BY <2>2 DEF Time, UnmarshalStruct
  <2> QED
    BY <1>1, <1>2, <2>1, <2>2, <2>3 DEF ReadsBackAs, v
<1>10. CASE val.x.n \in Int /\ val = GoStruct(val.x.n)
  <2>1. val.kind = "struct" /\ val.x \in Texts /\ val.x.form = "json"
    BY <1>10 DEF GoStruct, Json, Texts, Forms
  <2>2. v = val.x /\ v \in Texts /\ NewValue(GoString(v)) = v
    BY <1>4, <2>1
  <2> HIDE DEF v
  <2> QED
    BY <1>1, <1>2, <2>1, <2>2 DEF ReadsBackAs, v
<1> HIDE DEF v
<1> QED
  BY <1>3, <1>5, <1>6, <1>7, <1>8, <1>9, <1>10 DEF IsGoValue

-----------------------------------------------------------------------------
(* The invariant.                                                          *)

OpRecords ==
  [name : {"idle", "register", "save", "delete"},
   todo : SUBSET Keys, next : Keys \cup {Nobody}, seen : SUBSET Keys]

Written == {NewValue(says[d]) : d \in Clients}

(* Every row is a value that somebody writes, committed or not; and what a *)
(* client writes stays the same.                                           *)
ValuesOK ==
  /\ \A c \in Clients : says[c] \in GoValues[c]
  /\ stored \in [Keys -> Written \cup {None}]
  /\ pend \in [Clients -> [Keys -> Written \cup {Same, Gone}]]

CallsOK ==
  /\ backend \in {"memory", "postgres"}
  /\ tx \in [Clients -> {"none", "open", "failed"}]
  /\ op \in [Clients -> OpRecords]
  /\ says \in [Clients -> UNION {GoValues[c] : c \in Clients}]

(* What a call has seen since it began is there, and in memory a Register  *)
(* does not work on it: it had looked before it took the mutex to write.   *)
SeenOK ==
  \A c \in Clients :
    /\ \A k \in op[c].seen : View(c, k) # None
    /\ backend = "memory" => /\ \A k \in Keys : pend[c][k] = Same
                             /\ op[c].name = "register" => op[c].next \notin op[c].seen

SInv == ValuesOK /\ CallsOK /\ SeenOK

LEMMA WrittenText ==
  ASSUME ValuesOK
  PROVE  /\ Written \subseteq Texts
         /\ \A d \in Clients : /\ NewValue(says[d]) \in Written
                               /\ ReadsBackAs(says[d], NewValue(says[d]))
         /\ \A w \in Written : NewValue(GoString(w)) = w
         /\ None \notin Texts /\ Same \notin Texts /\ Gone \notin Texts
         /\ None # Same /\ None # Gone /\ Same # Gone
<1>1. \A d \in Clients : IsGoValue(says[d])
  BY SettingsAssumption DEF ValuesOK
<1>2. \A d \in Clients : /\ NewValue(says[d]) \in Texts
                         /\ NewValue(GoString(NewValue(says[d]))) = NewValue(says[d])
                         /\ ReadsBackAs(says[d], NewValue(says[d]))
  BY <1>1, GoValueText
<1>3. /\ None.form = "none" /\ Same.form = "same" /\ Gone.form = "gone"
      /\ \A t \in Texts : t.form \notin {"none", "same", "gone"}
  BY DEF None, Same, Gone, Texts, Forms
<1> QED
  BY <1>2, <1>3 DEF Written

LEMMA ViewOf ==
  ASSUME NEW c, NEW k
  PROVE  /\ pend[c][k] = Same => View(c, k) = stored[k]
         /\ pend[c][k] = Gone => View(c, k) = None
         /\ pend[c][k] \notin {Same, Gone} => View(c, k) = pend[c][k]
<1>1. Same # Gone
  BY DEF Same, Gone
<1> QED
  BY <1>1 DEF View

LEMMA NoCallRecord ==
  NoCall \in OpRecords /\ NoCall.seen = {} /\ NoCall.name = "idle" /\ NoCall.next = Nobody
BY DEF NoCall, OpRecords

(* What the calls have seen stays while it is only forgotten, and no row   *)
(* of it goes.                                                             *)
LEMMA SeenKeeps ==
  ASSUME SInv, ValuesOK', CallsOK', backend' = backend,
         \A d \in Clients : op'[d].seen \subseteq op[d].seen,
         \A d \in Clients : op'[d].next \in {op[d].next, Nobody} /\ op'[d].name \in {op[d].name, "idle"},
         \A d \in Clients : \A j \in op'[d].seen : View(d, j) # None => View(d, j)' # None,
         backend = "memory" => \A d \in Clients : \A j \in Keys : pend'[d][j] = Same
  PROVE  SInv'
<1>1. ASSUME NEW d \in Clients
      PROVE  /\ \A k \in op'[d].seen : View(d, k)' # None
             /\ backend' = "memory" => /\ \A k \in Keys : pend'[d][k] = Same
                                       /\ op'[d].name = "register" => op'[d].next \notin op'[d].seen
  <2>1. Nobody \notin op'[d].seen
    BY SettingsAssumption DEF CallsOK, OpRecords
  <2>2. /\ \A k \in op[d].seen : View(d, k) # None
        /\ backend = "memory" /\ op[d].name = "register" => op[d].next \notin op[d].seen
    BY DEF SInv, SeenOK
  <2>3. \A k \in op'[d].seen : View(d, k)' # None
    BY <2>2
  <2>4. backend' = "memory" => \A k \in Keys : pend'[d][k] = Same
    OBVIOUS
  <2>5. backend' = "memory" /\ op'[d].name = "register" => op'[d].next \notin op'[d].seen
    BY <2>1, <2>2
  <2> QED
    BY <2>3, <2>4, <2>5
<1>2. SeenOK'
  BY <1>1 DEF SeenOK
<1> QED
  BY <1>2 DEF SInv

LEMMA Dropped ==
  ASSUME op \in [Clients -> OpRecords], NEW c \in Clients, NEW k, Drop(c, k)
  PROVE  /\ op' \in [Clients -> OpRecords]
         /\ op'[c].seen = op[c].seen \ {k} /\ op'[c].next = Nobody /\ op'[c].name = op[c].name
         /\ \A d \in Clients \ {c} : op'[d] = op[d]
<1> DEFINE new == [op[c] EXCEPT !.todo = @ \ {k}, !.seen = @ \ {k}, !.next = Nobody]
<1>1. op' = [op EXCEPT ![c] = new]
  BY DEF Drop
<1>2. /\ new \in OpRecords /\ new.seen = op[c].seen \ {k} /\ new.next = Nobody
      /\ new.name = op[c].name
  BY DEF OpRecords
<1> HIDE DEF new
<1> QED
  BY <1>1, <1>2

-----------------------------------------------------------------------------
(* Its steps.                                                              *)

LEMMA CallStep ==
  ASSUME SInv, NEW c \in Clients, Call(c)
  PROVE  SInv'
<1>1. PICK name \in {"register", "save", "delete"}, ks \in SUBSET Keys :
        op' = [op EXCEPT ![c] = [name |-> name, todo |-> ks, next |-> Nobody, seen |-> Found(c, ks)]]
  BY DEF Call
<1>2. UNCHANGED <<backend, stored, pend, tx, says>>
  BY DEF Call
<1>3. PICK rec : rec = [name |-> name, todo |-> ks, next |-> Nobody, seen |-> Found(c, ks)]
  OBVIOUS
<1>4. /\ rec \in OpRecords /\ rec.next = Nobody /\ rec.seen = Found(c, ks) /\ rec.seen \subseteq Keys
  BY <1>3 DEF OpRecords, Found
<1>5. /\ op' \in [Clients -> OpRecords] /\ op'[c] = rec
      /\ \A d \in Clients \ {c} : op'[d] = op[d]
  BY <1>1, <1>3, <1>4 DEF SInv, CallsOK
<1>6. ValuesOK' /\ CallsOK'
  BY <1>2, <1>5 DEF SInv, ValuesOK, CallsOK, Written
<1>7. \A d \in Clients : \A k \in Keys : View(d, k)' = View(d, k)
  BY <1>2 DEF View
<1>8. ASSUME NEW d \in Clients
      PROVE  /\ \A k \in op'[d].seen : View(d, k)' # None
             /\ backend' = "memory" => /\ \A k \in Keys : pend'[d][k] = Same
                                       /\ op'[d].name = "register" => op'[d].next \notin op'[d].seen
  <2>1. CASE d = c
    <3>1. \A k \in op'[c].seen : View(c, k) # None /\ k \in Keys
      BY <1>4, <1>5 DEF Found
    <3>2. Nobody \notin op'[c].seen
      BY <1>4, <1>5, SettingsAssumption
    <3> QED
      BY <1>2, <1>4, <1>5, <1>7, <2>1, <3>1, <3>2 DEF SInv, SeenOK
  <2>2. CASE d # c
    <3>1. op'[d] = op[d] /\ op[d].seen \subseteq Keys
      BY <1>5, <2>2 DEF SInv, CallsOK, OpRecords
    <3> QED
      BY <1>2, <1>7, <3>1 DEF SInv, SeenOK
  <2> QED
    BY <2>1, <2>2
<1>9. SeenOK'
  BY <1>8 DEF SeenOK
<1> QED
  BY <1>6, <1>9 DEF SInv

LEMMA PickStep ==
  ASSUME SInv, NEW c \in Clients, NEW k \in Keys, Pick(c, k)
  PROVE  SInv'
<1>1. UNCHANGED <<backend, stored, pend, tx, says>>
  BY DEF Pick
<1>2. \A d \in Clients : \A j \in Keys : View(d, j)' = View(d, j)
  BY <1>1 DEF View
<1>3. op \in [Clients -> OpRecords] /\ \A d \in Clients : op[d].seen \subseteq Keys
  BY DEF SInv, CallsOK, OpRecords
<1>4. CASE Drop(c, k)
  <2>1. /\ op' \in [Clients -> OpRecords]
        /\ \A d \in Clients : /\ op'[d].seen \subseteq op[d].seen
                              /\ op'[d].next \in {op[d].next, Nobody} /\ op'[d].name = op[d].name
    BY <1>3, <1>4, Dropped
  <2>2. ValuesOK' /\ CallsOK'
    BY <1>1, <2>1 DEF SInv, ValuesOK, CallsOK, Written
  <2>3. \A d \in Clients : \A j \in op'[d].seen : View(d, j) # None => View(d, j)' # None
    BY <1>2, <1>3, <2>1
  <2>4. backend = "memory" => \A d \in Clients : \A j \in Keys : pend'[d][j] = Same
    BY <1>1 DEF SInv, SeenOK
  <2> QED
    BY <1>1, <2>1, <2>2, <2>3, <2>4, SeenKeeps
<1>5. CASE /\ ~(backend = "memory" /\ op[c].name = "register" /\ stored[k] # None)
           /\ op' = [op EXCEPT ![c].next = k]
  <2>1. /\ op' \in [Clients -> OpRecords] /\ op'[c].next = k
        /\ op'[c].seen = op[c].seen /\ op'[c].name = op[c].name
        /\ \A d \in Clients \ {c} : op'[d] = op[d]
    BY <1>3, <1>5 DEF OpRecords
  <2>2. ValuesOK' /\ CallsOK'
    BY <1>1, <2>1 DEF SInv, ValuesOK, CallsOK, Written
  <2>3. \A d \in Clients : \A j \in op'[d].seen : View(d, j)' # None
    BY <1>2, <1>3, <2>1 DEF SInv, SeenOK
  <2>4. backend = "memory" => View(c, k) = stored[k]
    BY ViewOf DEF SInv, SeenOK
  <2>5. backend = "memory" /\ op[c].name = "register" => k \notin op[c].seen
    BY <1>5, <2>4 DEF SInv, SeenOK
  <2>6. SeenOK'
    BY <1>1, <2>1, <2>3, <2>5 DEF SInv, SeenOK
  <2> QED
    BY <2>2, <2>6 DEF SInv
<1> QED
  BY <1>4, <1>5 DEF Pick

LEMMA ApplyInMemoryStep ==
  ASSUME SInv, NEW c \in Clients, NEW k \in Keys, k = op[c].next, ApplyInMemory(c, k),
         UNCHANGED <<backend, tx, says>>
  PROVE  SInv'
<1>1. PICK v : v = IF op[c].name = "delete" THEN None ELSE NewValue(says[c])
  OBVIOUS
<1>2. PICK ks : ks = IF op[c].name = "delete" THEN {k} ELSE {}
  OBVIOUS
<1>3. v \in Written \cup {None} /\ (v = None => k \in ks)
  BY <1>1, <1>2, WrittenText DEF SInv
<1>4. /\ backend = "memory" /\ pend' = pend /\ stored' = [stored EXCEPT ![k] = v]
      /\ op' = [Unseen(ks) EXCEPT ![c] =
                  [op[c] EXCEPT !.todo = @ \ {k}, !.seen = @ \ {k}, !.next = Nobody]]
  BY <1>1, <1>2 DEF ApplyInMemory
<1>5. op \in [Clients -> OpRecords]
  BY DEF SInv, CallsOK
<1>6. ASSUME NEW r \in OpRecords
      PROVE  /\ [r EXCEPT !.seen = @ \ ks] \in OpRecords
             /\ [r EXCEPT !.seen = @ \ ks].seen = r.seen \ ks
             /\ [r EXCEPT !.seen = @ \ ks].next = r.next /\ [r EXCEPT !.seen = @ \ ks].name = r.name
  BY DEF OpRecords
<1>7. PICK mine : mine = [op[c] EXCEPT !.todo = @ \ {k}, !.seen = @ \ {k}, !.next = Nobody]
  OBVIOUS
<1>8. /\ mine \in OpRecords /\ mine.seen = op[c].seen \ {k} /\ mine.next = Nobody
      /\ mine.name = op[c].name
  BY <1>5, <1>7 DEF OpRecords
<1>9. /\ op' \in [Clients -> OpRecords] /\ op'[c] = mine
      /\ \A d \in Clients \ {c} : op'[d] = [op[d] EXCEPT !.seen = @ \ ks]
  BY <1>4, <1>5, <1>6, <1>7, <1>8 DEF Unseen
<1>10. \A d \in Clients : /\ op'[d].seen \subseteq op[d].seen \ ks
                          /\ op'[d].next \in {op[d].next, Nobody} /\ op'[d].name = op[d].name
  <2>1. ks \subseteq {k}
    BY <1>2
  <2>2. op'[c].seen \subseteq op[c].seen \ ks /\ op'[c].next = Nobody /\ op'[c].name = op[c].name
    BY <1>8, <1>9, <2>1
  <2>3. ASSUME NEW d \in Clients \ {c}
        PROVE  op'[d].seen = op[d].seen \ ks /\ op'[d].next = op[d].next /\ op'[d].name = op[d].name
    BY <1>5, <1>6, <1>9
  <2> QED
    BY <2>2, <2>3
<1>11. ValuesOK' /\ CallsOK'
  BY <1>3, <1>4, <1>9 DEF SInv, ValuesOK, CallsOK, Written
<1>12. \A d \in Clients : \A j \in op'[d].seen : View(d, j) # None => View(d, j)' # None
  <2> SUFFICES ASSUME NEW d \in Clients, NEW j \in op'[d].seen, View(d, j) # None
               PROVE  View(d, j)' # None
    OBVIOUS
  <2>1. j \in Keys /\ j \notin ks
    BY <1>5, <1>9, <1>10 DEF OpRecords
  <2>2. pend[d][j] = Same
    BY <1>4, <2>1 DEF SInv, SeenOK
  <2>3. View(d, j) = stored[j] /\ View(d, j)' = stored'[j]
    <3>1. Same # Gone
      BY DEF Same, Gone
    <3> QED
      BY <1>4, <2>2, <3>1 DEF View
  <2> QED
    BY <1>3, <1>4, <2>1, <2>3 DEF SInv, ValuesOK
<1>13. \A d \in Clients : \A j \in Keys : pend'[d][j] = Same
  BY <1>4 DEF SInv, SeenOK
<1> QED
  BY <1>10, <1>11, <1>12, <1>13, SeenKeeps

LEMMA ApplyInTableStep ==
  ASSUME SInv, NEW c \in Clients, NEW k \in Keys, ApplyInTable(c, k),
         UNCHANGED <<backend, tx, says>>
  PROVE  SInv'
<1>1. backend = "postgres" /\ stored' = stored /\ Drop(c, k)
  BY DEF ApplyInTable
<1>2. op \in [Clients -> OpRecords] /\ pend \in [Clients -> [Keys -> Written \cup {Same, Gone}]]
  BY DEF SInv, CallsOK, ValuesOK
<1>3. PICK v \in Written : v = NewValue(says[c])
  BY WrittenText DEF SInv
<1>4. /\ pend' \in [Clients -> [Keys -> Written \cup {Same, Gone}]]
      /\ \A d \in Clients : \A j \in Keys : d # c \/ j # k => pend'[d][j] = pend[d][j]
  <2>1. \/ pend' = pend
        \/ pend' = [pend EXCEPT ![c][k] = Gone]
        \/ pend' = [pend EXCEPT ![c][k] = v]
    BY <1>3 DEF ApplyInTable, DeleteSetting, UpsertSetting
  <2>2. ASSUME NEW w \in Written \cup {Same, Gone}, pend' = [pend EXCEPT ![c][k] = w]
        PROVE  /\ pend' \in [Clients -> [Keys -> Written \cup {Same, Gone}]]
               /\ \A d \in Clients : \A j \in Keys : d # c \/ j # k => pend'[d][j] = pend[d][j]
    BY <1>2, <2>2
  <2> QED
    BY <1>2, <2>1, <2>2
<1>5. /\ op' \in [Clients -> OpRecords]
      /\ op'[c].seen = op[c].seen \ {k}
      /\ \A d \in Clients : /\ op'[d].seen \subseteq op[d].seen
                            /\ op'[d].next \in {op[d].next, Nobody} /\ op'[d].name = op[d].name
  BY <1>1, <1>2, Dropped
<1>6. ValuesOK' /\ CallsOK'
  BY <1>1, <1>4, <1>5 DEF SInv, ValuesOK, CallsOK, Written
<1>7. \A d \in Clients : \A j \in op'[d].seen : View(d, j) # None => View(d, j)' # None
  <2> SUFFICES ASSUME NEW d \in Clients, NEW j \in op'[d].seen PROVE View(d, j)' = View(d, j)
    OBVIOUS
  <2>1. j \in Keys /\ (d = c => j # k)
    BY <1>5 DEF OpRecords
  <2>2. pend'[d][j] = pend[d][j]
    BY <1>4, <2>1
  <2> QED
    BY <1>1, <2>2 DEF View
<1> QED
  BY <1>1, <1>5, <1>6, <1>7, SeenKeeps

LEMMA ApplyStep ==
  ASSUME SInv, NEW c \in Clients, Apply(c)
  PROVE  SInv'
<1>1. PICK k \in Keys : k = op[c].next
  BY DEF Apply, SInv, CallsOK, OpRecords
<1> QED
  BY <1>1, ApplyInMemoryStep, ApplyInTableStep DEF Apply

(* The end of a call outside a transaction, and of a transaction.          *)
LEMMA PublishStep ==
  ASSUME SInv, NEW c \in Clients, NEW ops \in [Clients -> OpRecords],
         \A d \in Clients : ops[d] = op[d] \/ ops[d] = NoCall,
         Publish(c, ops), UNCHANGED <<backend, says>>,
         tx' \in [Clients -> {"none", "open", "failed"}]
  PROVE  SInv'
<1>1. PICK ks : ks = {k \in Keys : pend[c][k] = Gone}
  OBVIOUS
<1>2. /\ stored' = Applied(c, stored) /\ pend' = [pend EXCEPT ![c] = Unchanged]
      /\ op' = [d \in Clients |-> [ops[d] EXCEPT !.seen = @ \ ks]]
  BY <1>1 DEF Publish
<1>3. /\ stored \in [Keys -> Written \cup {None}]
      /\ pend \in [Clients -> [Keys -> Written \cup {Same, Gone}]]
  BY DEF SInv, ValuesOK
<1>4. Unchanged \in [Keys -> Written \cup {Same, Gone}] /\ \A k \in Keys : Unchanged[k] = Same
  BY DEF Unchanged
<1>5. pend' \in [Clients -> [Keys -> Written \cup {Same, Gone}]]
  BY <1>2, <1>3, <1>4
<1>6. \A k \in Keys : stored'[k] = View(c, k)
  BY <1>2 DEF Applied, View
<1>7. stored' \in [Keys -> Written \cup {None}]
  <2>1. \A k \in Keys : View(c, k) \in Written \cup {None}
    BY <1>3, ViewOf
  <2>2. stored' = [k \in Keys |-> stored'[k]]
    BY <1>2 DEF Applied
  <2> QED
    BY <1>6, <2>1, <2>2
<1>8. ASSUME NEW r \in OpRecords
      PROVE  /\ [r EXCEPT !.seen = @ \ ks] \in OpRecords
             /\ [r EXCEPT !.seen = @ \ ks].seen = r.seen \ ks
             /\ [r EXCEPT !.seen = @ \ ks].next = r.next /\ [r EXCEPT !.seen = @ \ ks].name = r.name
  BY DEF OpRecords
<1>9. /\ op' \in [Clients -> OpRecords]
      /\ \A d \in Clients : /\ op'[d].seen = ops[d].seen \ ks
                            /\ op'[d].next = ops[d].next /\ op'[d].name = ops[d].name
  BY <1>2, <1>8
<1>10. \A d \in Clients : /\ op'[d].seen \subseteq op[d].seen \ ks
                          /\ op'[d].next \in {op[d].next, Nobody}
                          /\ op'[d].name \in {op[d].name, "idle"}
  BY <1>9, NoCallRecord
<1>11. ValuesOK' /\ CallsOK'
  BY <1>5, <1>7, <1>9 DEF SInv, ValuesOK, CallsOK, Written
<1>12. \A d \in Clients : \A j \in op'[d].seen : View(d, j) # None => View(d, j)' # None
  <2> SUFFICES ASSUME NEW d \in Clients, NEW j \in op'[d].seen, View(d, j) # None
               PROVE  View(d, j)' # None
    OBVIOUS
  <2>1. j \in Keys /\ pend[c][j] # Gone
    BY <1>1, <1>9, <1>10 DEF OpRecords
  <2>2. Same # Gone
    BY DEF Same, Gone
  <2>3. CASE d = c
    <3>1. View(c, j)' = stored'[j]
      BY <1>2, <1>3, <1>4, <2>1, <2>2 DEF View
    <3> QED
      BY <1>6, <2>1, <2>3, <3>1
  <2>4. CASE d # c /\ pend[d][j] = Same
    <3>1. View(d, j)' = stored'[j] /\ View(d, j) = stored[j]
      BY <1>2, <1>3, <2>2, <2>4 DEF View
    <3>2. View(c, j) = IF pend[c][j] = Same THEN stored[j] ELSE pend[c][j]
      BY <2>1, ViewOf
    <3>3. pend[c][j] # Same => pend[c][j] \in Written
      BY <1>3, <2>1
    <3> QED
      BY <1>6, <2>1, <3>1, <3>2, <3>3, WrittenText DEF SInv
  <2>5. CASE d # c /\ pend[d][j] # Same
    <3>1. View(d, j)' = View(d, j)
      BY <1>2, <1>3, <2>5 DEF View
    <3> QED
      BY <3>1
  <2> QED
    BY <2>3, <2>4, <2>5
<1>13. backend = "memory" => \A d \in Clients : \A j \in Keys : pend'[d][j] = Same
  BY <1>2, <1>3, <1>4 DEF SInv, SeenOK
<1> QED
  BY <1>10, <1>11, <1>12, <1>13, SeenKeeps

LEMMA FinishStep ==
  ASSUME SInv, NEW c \in Clients, Finish(c)
  PROVE  SInv'
<1>1. UNCHANGED <<backend, tx, says>> /\ op \in [Clients -> OpRecords]
      /\ tx \in [Clients -> {"none", "open", "failed"}]
  BY DEF Finish, SInv, CallsOK
<1>2. PICK ops : ops = [op EXCEPT ![c] = NoCall]
  OBVIOUS
<1>3. /\ ops \in [Clients -> OpRecords] /\ ops[c] = NoCall
      /\ \A d \in Clients : ops[d] = op[d] \/ ops[d] = NoCall
  BY <1>1, <1>2, NoCallRecord
<1>4. CASE Publish(c, ops)
  BY <1>1, <1>3, <1>4, PublishStep
<1>5. CASE op' = ops /\ UNCHANGED <<stored, pend>>
  <2>1. ValuesOK' /\ CallsOK'
    BY <1>1, <1>3, <1>5 DEF SInv, ValuesOK, CallsOK, Written
  <2>2. \A d \in Clients : /\ op'[d].seen \subseteq op[d].seen
                           /\ op'[d].next \in {op[d].next, Nobody}
                           /\ op'[d].name \in {op[d].name, "idle"}
    BY <1>3, <1>5, NoCallRecord
  <2>3. \A d \in Clients : \A j \in op'[d].seen : View(d, j) # None => View(d, j)' # None
    BY <1>5 DEF View
  <2>4. backend = "memory" => \A d \in Clients : \A j \in Keys : pend'[d][j] = Same
    BY <1>5 DEF SInv, SeenOK
  <2> QED
    BY <1>1, <2>1, <2>2, <2>3, <2>4, SeenKeeps
<1> QED
  BY <1>2, <1>4, <1>5 DEF Finish

(* The changes of a transaction are given up.                              *)
LEMMA GiveUpStep ==
  ASSUME SInv, NEW c \in Clients, pend' = [pend EXCEPT ![c] = Unchanged],
         op' = [op EXCEPT ![c] = NoCall],
         UNCHANGED <<backend, stored, says>>, tx' \in [Clients -> {"none", "open", "failed"}]
  PROVE  SInv'
<1>1. /\ op \in [Clients -> OpRecords]
      /\ pend \in [Clients -> [Keys -> Written \cup {Same, Gone}]]
  BY DEF SInv, CallsOK, ValuesOK
<1>2. Unchanged \in [Keys -> Written \cup {Same, Gone}] /\ \A k \in Keys : Unchanged[k] = Same
  BY DEF Unchanged
<1>3. /\ pend' \in [Clients -> [Keys -> Written \cup {Same, Gone}]] /\ pend'[c] = Unchanged
      /\ \A d \in Clients \ {c} : pend'[d] = pend[d]
  BY <1>1, <1>2
<1>4. /\ op' \in [Clients -> OpRecords] /\ op'[c] = NoCall
      /\ \A d \in Clients \ {c} : op'[d] = op[d]
  BY <1>1, NoCallRecord
<1>5. ValuesOK' /\ CallsOK'
  BY <1>3, <1>4 DEF SInv, ValuesOK, CallsOK, Written
<1>6. \A d \in Clients : /\ op'[d].seen \subseteq op[d].seen
                         /\ op'[d].next \in {op[d].next, Nobody}
                         /\ op'[d].name \in {op[d].name, "idle"}
  BY <1>4, NoCallRecord
<1>7. \A d \in Clients : \A j \in op'[d].seen : View(d, j) # None => View(d, j)' # None
  BY <1>3, <1>4, NoCallRecord DEF View
<1>8. backend = "memory" => \A d \in Clients : \A j \in Keys : pend'[d][j] = Same
  BY <1>2, <1>3 DEF SInv, SeenOK
<1> QED
  BY <1>5, <1>6, <1>7, <1>8, SeenKeeps

LEMMA TransactionStep ==
  ASSUME SInv, NEW c \in Clients, Abort(c) \/ Begin(c) \/ Commit(c) \/ Rollback(c)
  PROVE  SInv'
<1>1. /\ op \in [Clients -> OpRecords] /\ tx \in [Clients -> {"none", "open", "failed"}]
  BY DEF SInv, CallsOK
<1>2. CASE Abort(c)
  <2>1. tx' \in [Clients -> {"none", "open", "failed"}]
    BY <1>1, <1>2 DEF Abort
  <2> QED
    BY <1>2, <2>1, GiveUpStep DEF Abort
<1>3. CASE Begin(c)
  <2>1. tx' \in [Clients -> {"none", "open", "failed"}] /\ UNCHANGED <<backend, stored, pend, op, says>>
    BY <1>1, <1>3 DEF Begin
  <2>2. ValuesOK' /\ CallsOK' /\ SeenOK'
    BY <2>1 DEF SInv, ValuesOK, CallsOK, SeenOK, View, Written
  <2> QED
    BY <2>2 DEF SInv
<1>4. CASE Commit(c)
  <2>1. tx' \in [Clients -> {"none", "open", "failed"}] /\ Publish(c, op) /\ UNCHANGED <<backend, says>>
    BY <1>1, <1>4 DEF Commit
  <2> QED
    BY <1>1, <2>1, PublishStep
<1>5. CASE Rollback(c)
  <2>1. tx' \in [Clients -> {"none", "open", "failed"}] /\ op' = [op EXCEPT ![c] = NoCall]
    BY <1>1, <1>5 DEF Rollback
  <2> QED
    BY <1>5, <2>1, GiveUpStep DEF Rollback
<1> QED
  BY <1>2, <1>3, <1>4, <1>5

LEMMA RestartStep ==
  ASSUME SInv, Restart
  PROVE  SInv'
<1>1. /\ stored' = IF backend = "memory" THEN [k \in Keys |-> None] ELSE stored
      /\ pend' = [c \in Clients |-> Unchanged] /\ tx' = [c \in Clients |-> "none"]
      /\ op' = [c \in Clients |-> NoCall] /\ UNCHANGED <<backend, says>>
  BY DEF Restart
<1>2. Unchanged \in [Keys -> Written \cup {Same, Gone}] /\ \A k \in Keys : Unchanged[k] = Same
  BY DEF Unchanged
<1>3. ValuesOK'
  BY <1>1, <1>2 DEF SInv, ValuesOK, Written
<1>4. CallsOK'
  BY <1>1, NoCallRecord DEF SInv, CallsOK
<1>5. SeenOK'
  BY <1>1, <1>2, NoCallRecord DEF SeenOK
<1> QED
  BY <1>3, <1>4, <1>5 DEF SInv

LEMMA SInvInit == SettingsInit => SInv
<1> SUFFICES ASSUME SettingsInit PROVE SInv
  OBVIOUS
<1>1. /\ stored = [k \in Keys |-> None] /\ pend = [c \in Clients |-> [k \in Keys |-> Same]]
      /\ tx = [c \in Clients |-> "none"] /\ op = [c \in Clients |-> NoCall]
      /\ backend \in {"memory", "postgres"}
      /\ says \in [Clients -> UNION {GoValues[c] : c \in Clients}]
      /\ \A c \in Clients : says[c] \in GoValues[c]
  BY DEF SettingsInit
<1>2. ValuesOK
  BY <1>1 DEF ValuesOK
<1>3. CallsOK
  BY <1>1, NoCallRecord DEF CallsOK
<1>4. SeenOK
  BY <1>1, NoCallRecord DEF SeenOK
<1> QED
  BY <1>2, <1>3, <1>4 DEF SInv

LEMMA SInvNext == SInv /\ [SettingsNext]_settingsVars => SInv'
<1> SUFFICES ASSUME SInv, [SettingsNext]_settingsVars PROVE SInv'
  OBVIOUS
<1>1. CASE UNCHANGED settingsVars
  BY <1>1 DEF settingsVars, SInv, ValuesOK, CallsOK, SeenOK, View, Written
<1>2. CASE SettingsNext
  BY <1>2, CallStep, PickStep, ApplyStep, FinishStep, TransactionStep, RestartStep DEF SettingsNext
<1> QED
  BY <1>1, <1>2

LEMMA SettingsInvariance == SettingsSpec => []SInv
BY SInvInit, SInvNext, PTL DEF SettingsSpec

(* The map or the table of the settings holds texts, and calls and         *)
(* transactions keep their types (setting.Value, settings.sql).            *)
THEOREM SettingsTypeCorrect == SettingsSpec => []SettingsTypeOK
<1>1. ASSUME SInv PROVE SettingsTypeOK
  <2>1. Written \subseteq Texts
    BY <1>1, WrittenText DEF SInv
  <2>2. stored \in [Keys -> Texts \cup {None}] /\ pend \in [Clients -> [Keys -> Texts \cup {Same, Gone}]]
    BY <1>1, <2>1 DEF SInv, ValuesOK
  <2> QED
    BY <1>1, <2>2 DEF SInv, CallsOK, OpRecords, SettingsTypeOK
<1> QED
  BY <1>1, SettingsInvariance, PTL

(* If the database has the keys of all settings under their own name,      *)
(* Settings finds those that there are; and however it cuts keys, it gives *)
(* an error if one of them is missing.                                     *)
LEMMA SettingsAnswer ==
  ASSUME NEW c \in Clients, NEW ks \in SUBSET Keys, NEW cut \in [Keys -> CutKeys \cup {Nobody}]
  PROVE  LET answer == Settings(c, ks, Cardinality(ks), cut)
         IN  /\ answer.res = "ok" => Found(c, ks) = ks
             /\ Proper(ks, cut) => /\ answer.res = "ok" <=> Found(c, ks) = ks
                                   /\ answer.res # "panic" /\ answer.keys = Found(c, ks)
<1> DEFINE found == Found(c, ks)
           keys  == {cut[k] : k \in found}
           n     == Cardinality(ks)
           table == SettingsInTable(c, ks, n, cut)
<1>1. found \subseteq ks
  BY DEF Found
<1>2. IsFiniteSet(ks) /\ IsFiniteSet(found)
  BY <1>1, SettingsAssumption, FS_Subset
<1>3. Cardinality(found) <= n /\ Cardinality(found) \in Nat /\ n \in Nat
      /\ (Cardinality(found) = n => found = ks)
  BY <1>1, <1>2, FS_Subset, FS_CardinalityType
<1>4. IsFiniteSet(keys) /\ Cardinality(keys) <= Cardinality(found) /\ Cardinality(keys) \in Nat
  <2>1. [k \in found |-> cut[k]] \in Surjection(found, keys)
    BY DEF Surjection
  <2> QED
    BY <1>2, <2>1, FS_Surjection, FS_CardinalityType
<1>5. CASE backend = "memory"
  BY <1>5 DEF Settings, SettingsInMemory
<1>6. CASE backend # "memory"
  <2>1. Settings(c, ks, n, cut) = table
    BY <1>6 DEF Settings
  <2>2. table.res = "ok" <=> Nobody \notin keys /\ Cardinality(keys) = n
    BY DEF SettingsInTable
  <2>3. table.res = "ok" => found = ks
    BY <1>3, <1>4, <2>2
  <2>4. ASSUME Proper(ks, cut)
        PROVE  keys = found /\ Nobody \notin keys
    <3>1. keys = found
      BY <1>1, <2>4 DEF Proper
    <3> QED
      BY <1>1, <3>1, SettingsAssumption
  <2>5. Nobody \notin keys => table.keys = keys /\ table.res \in {"ok", "not found"}
    BY DEF SettingsInTable
  <2> HIDE DEF found, keys, n, table
  <2>6. ASSUME Proper(ks, cut)
        PROVE  /\ table.res = "ok" <=> found = ks
               /\ table.res # "panic" /\ table.keys = found
    <3>1. found = ks => Cardinality(keys) = n
      BY <2>4, <2>6 DEF n
    <3> QED
      BY <2>2, <2>3, <2>4, <2>5, <2>6, <3>1
  <2> QED
    BY <2>1, <2>3, <2>6 DEF found, n
<1> QED
  BY <1>5, <1>6

(* What is read is what somebody has written, of the type it had, for      *)
(* every value that Go has and every width of an integer; and Settings     *)
(* gives an error if a key is missing, and if all keys have three parts    *)
(* for no other reason (inmemory.settings.go, postgres.settings.go, the    *)
(* readers of settings.go).                                                *)
THEOREM ReadsBackCorrect == SettingsSpec => []ReadsBack
<1>1. ASSUME SInv PROVE ReadsBack
  <2>1. ASSUME NEW c \in Clients, NEW k \in Keys, View(c, k) # None
        PROVE  \E d \in Clients : /\ Setting(c, k) = NewValue(says[d])
                                  /\ ReadsBackAs(says[d], Setting(c, k))
    <3>1. View(c, k) \in Written
      BY <1>1, <2>1, ViewOf DEF SInv, ValuesOK
    <3>2. PICK d \in Clients : View(c, k) = NewValue(says[d])
      BY <3>1 DEF Written
    <3>3. Setting(c, k) = View(c, k)
      BY <1>1, <2>1, <3>1, WrittenText DEF SInv, Setting
    <3> QED
      BY <1>1, <3>2, <3>3, WrittenText DEF SInv
  <2>2. AllKept
    BY SettingsAssumption, GoValueText DEF AllKept, Kept
  <2> QED
    BY <2>1, <2>2, SettingsAnswer DEF ReadsBack
<1> QED
  BY <1>1, SettingsInvariance, PTL

-----------------------------------------------------------------------------
(* A row is locked by one client at a time, a client without a call or a   *)
(* transaction has changed nothing, and a Register without a transaction   *)
(* has changed no row that is committed.                                   *)
LocksOK ==
  /\ \A c \in Clients : op[c].name = "idle" => op[c] = NoCall
  /\ \A c, d \in Clients, k \in Keys : pend[c][k] # Same /\ pend[d][k] # Same => c = d
  /\ \A c \in Clients, k \in Keys : tx[c] = "none" /\ pend[c][k] # Same =>
       op[c].name # "idle" /\ (op[c].name = "register" => stored[k] = None)

LInv == SInv /\ LocksOK

LEMMA LocksInit == SettingsInit => LocksOK
BY NoCallRecord DEF SettingsInit, LocksOK

LEMMA LocksCall ==
  ASSUME LInv, NEW c \in Clients, Call(c)
  PROVE  LocksOK'
<1>1. /\ UNCHANGED <<backend, stored, pend, tx, says>> /\ op[c] = NoCall
      /\ \E name \in {"register", "save", "delete"}, ks \in SUBSET Keys :
           op' = [op EXCEPT ![c] = [name |-> name, todo |-> ks, next |-> Nobody,
                                    seen |-> Found(c, ks)]]
  BY DEF Call
<1>2. op \in [Clients -> OpRecords]
  BY DEF LInv, SInv, CallsOK
<1>3. op'[c].name # "idle" /\ \A d \in Clients \ {c} : op'[d] = op[d]
  BY <1>1, <1>2
<1>4. \A k \in Keys : tx[c] = "none" => pend[c][k] = Same
  BY <1>1, NoCallRecord DEF LInv, LocksOK
<1> QED
  BY <1>1, <1>3, <1>4 DEF LInv, LocksOK

LEMMA LocksPick ==
  ASSUME LInv, NEW c \in Clients, NEW k \in Keys, Pick(c, k)
  PROVE  LocksOK'
<1>1. UNCHANGED <<backend, stored, pend, tx, says>> /\ k \in op[c].todo
  BY DEF Pick
<1>2. op \in [Clients -> OpRecords]
  BY DEF LInv, SInv, CallsOK
<1>3. op[c].name # "idle"
  BY <1>1 DEF LInv, LocksOK, NoCall
<1>4. op'[c].name = op[c].name /\ \A d \in Clients \ {c} : op'[d] = op[d]
  BY <1>2 DEF Pick, Drop, OpRecords
<1> QED
  BY <1>1, <1>3, <1>4 DEF LInv, LocksOK

LEMMA LocksApply ==
  ASSUME LInv, NEW c \in Clients, Apply(c)
  PROVE  LocksOK'
<1>1. PICK k \in Keys : k = op[c].next /\ k # Nobody
  BY DEF Apply, LInv, SInv, CallsOK, OpRecords
<1>2. op \in [Clients -> OpRecords] /\ pend \in [Clients -> [Keys -> Written \cup {Same, Gone}]]
  BY DEF LInv, SInv, CallsOK, ValuesOK
<1>3. op[c].name # "idle"
  BY <1>1 DEF LInv, LocksOK, NoCall
<1>4. CASE ApplyInMemory(c, k)
  <2>1. PICK ks : op' = [Unseen(ks) EXCEPT ![c] =
                           [op[c] EXCEPT !.todo = @ \ {k}, !.seen = @ \ {k}, !.next = Nobody]]
    BY <1>4 DEF ApplyInMemory
  <2>2. /\ op'[c].name = op[c].name
        /\ \A d \in Clients \ {c} : op'[d] = [op[d] EXCEPT !.seen = @ \ ks]
    BY <1>2, <2>1 DEF Unseen, OpRecords
  <2>3. ASSUME NEW d \in Clients \ {c}, op'[d].name = "idle" PROVE op'[d] = NoCall
    <3>1. op[d].name = "idle"
      BY <1>2, <2>2, <2>3 DEF OpRecords
    <3>2. op[d] = NoCall
      BY <3>1 DEF LInv, LocksOK
    <3> QED
      BY <2>2, <3>2 DEF NoCall
  <2>4. \A d \in Clients, j \in Keys : pend'[d][j] = Same
    BY <1>4 DEF ApplyInMemory, LInv, SInv, SeenOK
  <2> QED
    BY <1>3, <2>2, <2>3, <2>4 DEF LocksOK
<1>5. CASE ApplyInTable(c, k)
  <2>1. stored' = stored /\ tx' = tx
    BY <1>5 DEF ApplyInTable, Apply
  <2>2. op'[c].name = op[c].name /\ \A d \in Clients \ {c} : op'[d] = op[d]
    BY <1>2, <1>5 DEF ApplyInTable, Drop, OpRecords
  <2>3. \A d \in Clients \ {c} : pend[d][k] = Same
    BY <1>5 DEF ApplyInTable, Locked
  <2>4. /\ \A d \in Clients, j \in Keys : d # c \/ j # k => pend'[d][j] = pend[d][j]
        /\ pend'[c][k] = pend[c][k] \/ (op[c].name = "register" => View(c, k) = None)
    <3>1. \/ pend' = pend
          \/ pend' = [pend EXCEPT ![c][k] = Gone] /\ op[c].name = "delete"
          \/ pend' = [pend EXCEPT ![c][k] = NewValue(says[c])] /\ ~Conflicts(c, k)
      BY <1>5 DEF ApplyInTable, DeleteSetting, UpsertSetting
    <3> QED
      BY <1>2, <3>1 DEF Conflicts
  <2>5. op[c].name = "register" /\ tx[c] = "none" /\ View(c, k) = None => stored[k] = None
    <3>1. pend[c][k] = Same => View(c, k) = stored[k]
      BY DEF View, Same, Gone
    <3> QED
      BY <3>1 DEF LInv, LocksOK
  <2> QED
    BY <1>3, <2>1, <2>2, <2>3, <2>4, <2>5 DEF LInv, LocksOK
<1> QED
  BY <1>1, <1>4, <1>5 DEF Apply

(* What c has changed is published or given up, and its call ends.         *)
LEMMA LocksFreed ==
  ASSUME LInv, NEW c \in Clients, pend' = [pend EXCEPT ![c] = Unchanged],
         \A d \in Clients \ {c} : tx'[d] = tx[d],
         \A k \in Keys : stored'[k] # stored[k] => pend[c][k] # Same,
         op'[c] = NoCall,
         \A d \in Clients \ {c} : /\ op'[d].name = op[d].name
                                  /\ op[d] = NoCall => op'[d] = NoCall
  PROVE  LocksOK'
<1>1. pend \in [Clients -> [Keys -> Written \cup {Same, Gone}]]
  BY DEF LInv, SInv, ValuesOK
<1>2. /\ \A k \in Keys : pend'[c][k] = Same
      /\ \A d \in Clients \ {c} : pend'[d] = pend[d]
  BY <1>1 DEF Unchanged
<1>3. \A d \in Clients : op'[d].name = "idle" => op'[d] = NoCall
  BY DEF LInv, LocksOK
<1>4. \A d, e \in Clients, k \in Keys : pend'[d][k] # Same /\ pend'[e][k] # Same => d = e
  BY <1>2 DEF LInv, LocksOK
<1>5. ASSUME NEW d \in Clients, NEW k \in Keys, tx'[d] = "none", pend'[d][k] # Same
      PROVE  op'[d].name # "idle" /\ (op'[d].name = "register" => stored'[k] = None)
  <2>1. d # c /\ pend[d][k] # Same /\ tx[d] = "none"
    BY <1>2, <1>5
  <2>2. op[d].name # "idle" /\ (op[d].name = "register" => stored[k] = None)
    BY <2>1 DEF LInv, LocksOK
  <2>3. stored'[k] = stored[k]
    BY <2>1 DEF LInv, LocksOK
  <2> QED
    BY <2>1, <2>2, <2>3
<1> QED
  BY <1>3, <1>4, <1>5 DEF LocksOK

LEMMA LocksPublish ==
  ASSUME LInv, NEW c \in Clients, NEW ops, ops = op \/ ops = [op EXCEPT ![c] = NoCall],
         op[c] = NoCall \/ ops[c] = NoCall, Publish(c, ops),
         \A d \in Clients \ {c} : tx'[d] = tx[d]
  PROVE  LocksOK'
<1>1. PICK ks : ks = {k \in Keys : pend[c][k] = Gone}
  OBVIOUS
<1>2. /\ stored' = Applied(c, stored) /\ pend' = [pend EXCEPT ![c] = Unchanged]
      /\ op' = [d \in Clients |-> [ops[d] EXCEPT !.seen = @ \ ks]]
  BY <1>1 DEF Publish
<1>3. op \in [Clients -> OpRecords] /\ stored \in [Keys -> Written \cup {None}]
  BY DEF LInv, SInv, CallsOK, ValuesOK
<1>4. ops[c] = NoCall /\ \A d \in Clients \ {c} : ops[d] = op[d]
  BY <1>3
<1>5. [NoCall EXCEPT !.seen = @ \ ks] = NoCall
  BY DEF NoCall
<1>6. op'[c] = NoCall
  BY <1>2, <1>4, <1>5
<1>7. \A d \in Clients \ {c} : op'[d].name = op[d].name /\ (op[d] = NoCall => op'[d] = NoCall)
  BY <1>2, <1>3, <1>4, <1>5 DEF OpRecords
<1>8. \A k \in Keys : stored'[k] # stored[k] => pend[c][k] # Same
  BY <1>2 DEF Applied, Same, Gone
<1> QED
  BY <1>2, <1>6, <1>7, <1>8, LocksFreed

LEMMA LocksFinish ==
  ASSUME LInv, NEW c \in Clients, Finish(c)
  PROVE  LocksOK'
<1>1. CASE tx[c] = "none"
  <2>1. Publish(c, [op EXCEPT ![c] = NoCall]) /\ tx' = tx
    BY <1>1 DEF Finish
  <2>2. [op EXCEPT ![c] = NoCall][c] = NoCall
    BY DEF LInv, SInv, CallsOK
  <2> QED
    BY <2>1, <2>2, LocksPublish
<1>2. CASE tx[c] # "none"
  <2>1. op' = [op EXCEPT ![c] = NoCall] /\ UNCHANGED <<stored, pend, tx>>
    BY <1>2 DEF Finish
  <2>2. op'[c] = NoCall /\ \A d \in Clients \ {c} : op'[d] = op[d]
    BY <2>1 DEF LInv, SInv, CallsOK
  <2> QED
    BY <1>2, <2>1, <2>2 DEF LInv, LocksOK
<1> QED
  BY <1>1, <1>2

LEMMA LocksTransaction ==
  ASSUME LInv, NEW c \in Clients, Abort(c) \/ Begin(c) \/ Commit(c) \/ Rollback(c)
  PROVE  LocksOK'
<1>1. op \in [Clients -> OpRecords] /\ tx \in [Clients -> {"none", "open", "failed"}]
  BY DEF LInv, SInv, CallsOK
<1>2. CASE Begin(c)
  <2>1. UNCHANGED <<stored, pend, op>> /\ \A d \in Clients : tx'[d] = "none" => tx[d] = "none"
    BY <1>1, <1>2 DEF Begin
  <2> QED
    BY <2>1 DEF LInv, LocksOK
<1>3. CASE Commit(c)
  <2>1. op[c] = NoCall /\ Publish(c, op) /\ \A d \in Clients \ {c} : tx'[d] = tx[d]
    BY <1>1, <1>3 DEF Commit
  <2> QED
    BY <2>1, LocksPublish
<1>4. CASE Abort(c) \/ Rollback(c)
  <2>1. pend' = [pend EXCEPT ![c] = Unchanged] /\ stored' = stored
    BY <1>4 DEF Abort, Rollback
  <2>2. \A d \in Clients \ {c} : tx'[d] = tx[d]
    BY <1>1, <1>4 DEF Abort, Rollback
  <2>3. op'[c] = NoCall /\ \A d \in Clients \ {c} : op'[d] = op[d]
    BY <1>1, <1>4 DEF Abort, Rollback
  <2> QED
    BY <2>1, <2>2, <2>3, LocksFreed
<1> QED
  BY <1>2, <1>3, <1>4

LEMMA LocksNext == LInv /\ [SettingsNext]_settingsVars => LocksOK'
<1> SUFFICES ASSUME LInv, [SettingsNext]_settingsVars PROVE LocksOK'
  OBVIOUS
<1>1. CASE UNCHANGED settingsVars
  BY <1>1 DEF settingsVars, LInv, LocksOK
<1>2. CASE Restart
  BY <1>2 DEF Restart, LocksOK, Unchanged
<1>3. CASE \E c \in Clients : Call(c) \/ (\E k \in Keys : Pick(c, k)) \/ Apply(c) \/ Finish(c)
  BY <1>3, LocksCall, LocksPick, LocksApply, LocksFinish
<1>4. CASE \E c \in Clients : Abort(c) \/ Begin(c) \/ Commit(c) \/ Rollback(c)
  BY <1>4, LocksTransaction
<1> QED
  BY <1>1, <1>2, <1>3, <1>4 DEF SettingsNext

LEMMA LocksInvariance == SettingsSpec => []LInv
<1>1. SettingsInit => LInv
  BY SInvInit, LocksInit DEF LInv
<1>2. LInv /\ [SettingsNext]_settingsVars => LInv'
  BY SInvNext, LocksNext DEF LInv
<1> QED
  BY <1>1, <1>2, PTL DEF SettingsSpec

(* Register leaves alone what was there when it was called and has not     *)
(* been deleted since, although in memory it looks first and takes the     *)
(* mutex again to write; and in the database its statement overwrites      *)
(* nothing that is there when it commits, whoever has saved it meanwhile   *)
(* (Settings, "Existing settings are unchanged").                          *)
THEOREM RegisterCorrect == SettingsSpec => RegisterKeeps
<1> DEFINE Keeps(c, k) ==
      op[c].name = "register" =>
       /\ Apply(c) /\ op[c].next = k /\ k \in op[c].seen =>
            IF backend = "memory" THEN stored'[k] = stored[k]
                                  ELSE pend'[c][k] = pend[c][k]
       /\ Finish(c) /\ tx[c] = "none" /\ stored[k] # None =>
            stored'[k] = stored[k]
<1>1. ASSUME LInv, NEW c \in Clients, NEW k \in Keys, op[c].name = "register",
             Apply(c), op[c].next = k, k \in op[c].seen
      PROVE  IF backend = "memory" THEN stored'[k] = stored[k] ELSE pend'[c][k] = pend[c][k]
  <2>1. backend # "memory"
    BY <1>1 DEF LInv, SInv, SeenOK
  <2>2. Conflicts(c, k)
    BY <1>1 DEF LInv, SInv, SeenOK, Conflicts
  <2>3. ApplyInTable(c, k)
    BY <1>1, <2>1 DEF Apply, ApplyInMemory
  <2>4. pend' = pend
    BY <2>2, <2>3 DEF ApplyInTable
  <2> QED
    BY <2>1, <2>4
<1>2. ASSUME LInv, NEW c \in Clients, NEW k \in Keys, op[c].name = "register",
             Finish(c), tx[c] = "none", stored[k] # None
      PROVE  stored'[k] = stored[k]
  <2>1. pend[c][k] = Same
    BY <1>2 DEF LInv, LocksOK
  <2>2. stored' = Applied(c, stored)
    BY <1>2 DEF Finish, Publish
  <2>3. Same # Gone
    BY DEF Same, Gone
  <2> QED
    BY <2>1, <2>2, <2>3 DEF Applied
<1>3. LInv => \A c \in Clients, k \in Keys : Keeps(c, k)
  BY <1>1, <1>2
<1>4. LInv /\ [SettingsNext]_settingsVars =>
        [\A c \in Clients, k \in Keys : Keeps(c, k)]_settingsVars
  BY <1>3
<1> QED
  BY <1>4, LocksInvariance, PTL DEF SettingsSpec, RegisterKeeps
=============================================================================
