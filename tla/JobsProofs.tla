------------------------------ MODULE JobsProofs ------------------------------
(***************************************************************************)
(* Theorems about the jobs that the program runs: about the handler that   *)
(* starts and stops their workers (JobsHandler), for every number of       *)
(* callers, workers, job types, schedules and starts, with any of the      *)
(* faults and with JobFuncs that call back; and about what administrators  *)
(* do and see of them (AdminJobs), for every set of jobs, queues and       *)
(* settings, and every width of an int.                                    *)
(*                                                                         *)
(* The two share no constant, variable or definition: the first part is    *)
(* about JobsHandler, and from "Numbers and the cut-off" on it is about    *)
(* AdminJobs.                                                              *)
(***************************************************************************)
EXTENDS JobsHandler, AdminJobs, FiniteSetTheorems, FunctionTheorems, TLAPS

(* What the phase of a call says about the handler. The invariants of      *)
(* JobsHandler are not inductive without it: Unregister may only clear     *)
(* hasStarted because the group has ended, and a pool is only started      *)
(* because nobody between Lock and Unlock relies on its absence.           *)
Phases ==
  /\ hasStarted => curPool \in Starts
  /\ \A p \in Threads : pc[p] \in {"wait", "unregister"} => hasStarted
  /\ \A p \in Threads : pc[p] = "unregister" => pool[curPool] = "ended"
  /\ \A p \in Threads : pc[p] \in {"fn", "arm"} => ~hasStarted

IInv == TypeOK /\ MutexHeld /\ SingleStart /\ OnlyKnownPool /\ JobsInPool /\ Phases

LEMMA InitIInv == Init => IInv
<1> SUFFICES ASSUME Init PROVE IInv
  OBVIOUS
<1> USE ThreadsAssumption, ParametersAssumption DEF Init
<1>1. TypeOK
  <2>1. op \in [Threads -> Operations]
    BY DEF Operations
  <2>2. 0 \in 0..MaxStarts
    OBVIOUS
  <2>3. /\ timers \in [Starts -> {"none", "armed", "stopped", "expired", "done"}]
        /\ pool \in [Starts -> {"none", "new", "run", "ended", "failed"}]
        /\ probe \in [Starts -> {"none", "send", "sent", "lock", "select", "gone"}]
    OBVIOUS
  <2>4. /\ pc \in [Threads -> {"idle", "lock", "wait", "unregister", "fn", "arm"}]
        /\ fnErr \in [Threads -> BOOLEAN] /\ ret \in [Threads -> {"ok", "error"}]
    OBVIOUS
  <2>5. job \in [Workers -> 0..MaxStarts] /\ callNo \in [Threads -> 0..MaxStarts]
    BY <2>2
  <2> QED
    BY <2>1, <2>2, <2>3, <2>4, <2>5 DEF TypeOK
<1>2. MutexHeld
  BY DEF MutexHeld, Threads, Holding
<1>3. SingleStart /\ OnlyKnownPool /\ JobsInPool /\ Phases
  BY DEF SingleStart, OnlyKnownPool, JobsInPool, Phases, Pending, Alive, Starts
<1> QED
  BY <1>1, <1>2, <1>3 DEF IInv

(* One lemma per group of actions; each conjunct of IInv is a step.        *)
LEMMA CallStep ==
  ASSUME IInv, NEW p \in Threads, NEW o \in Operations, Call(p, o)
  PROVE  IInv'
<1> USE ThreadsAssumption, ParametersAssumption DEF IInv, Call, handlerVars, dataVars
<1>1. TypeOK'
  BY DEF TypeOK
<1>2. MutexHeld'
  BY DEF MutexHeld, TypeOK, Holding
<1>3. SingleStart' /\ OnlyKnownPool' /\ JobsInPool'
  BY DEF SingleStart, OnlyKnownPool, JobsInPool, Pending, Alive
<1>4. Phases'
  BY DEF Phases, TypeOK
<1> QED
  BY <1>1, <1>2, <1>3, <1>4

LEMMA LockStep ==
  ASSUME IInv, NEW p \in Threads, Lock(p)
  PROVE  IInv'
<1> USE ThreadsAssumption, ParametersAssumption
    DEF IInv, Lock, Return, NeedsShutdown, shutdownWorkerPool, handlerVars, dataVars
<1>1. TypeOK'
  BY DEF TypeOK, Phases
<1>2. MutexHeld'
  BY DEF MutexHeld, TypeOK, Holding, Threads
<1>3. SingleStart' /\ OnlyKnownPool' /\ JobsInPool'
  BY DEF SingleStart, OnlyKnownPool, JobsInPool, Pending, Alive
<1>4. Phases'
  BY DEF Phases, TypeOK
<1> QED
  BY <1>1, <1>2, <1>3, <1>4

LEMMA WaitStep ==
  ASSUME IInv, NEW p \in Threads, Wait(p)
  PROVE  IInv'
<1> USE ThreadsAssumption, ParametersAssumption
    DEF IInv, Wait, Fail, Return, GroupDone, handlerVars, dataVars
<1>1. TypeOK'
  BY DEF TypeOK
<1>2. MutexHeld'
  BY DEF MutexHeld, TypeOK, Holding, Threads
<1>3. SingleStart' /\ OnlyKnownPool' /\ JobsInPool'
  BY DEF SingleStart, OnlyKnownPool, JobsInPool, Pending, Alive
<1>4. Phases'
  BY DEF Phases, TypeOK
<1> QED
  BY <1>1, <1>2, <1>3, <1>4

LEMMA UnregisterStep ==
  ASSUME IInv, NEW p \in Threads, Unregister(p)
  PROVE  IInv'
<1> USE ThreadsAssumption, ParametersAssumption
    DEF IInv, Unregister, Fail, Return, handlerVars, dataVars
<1>1. TypeOK'
  <2>1. /\ mu' \in Threads \cup {NoThread} /\ hasStarted' \in BOOLEAN
        /\ row' \in {"absent", "live", "zero"}
    BY DEF TypeOK
  <2>2. /\ pc' \in [Threads -> {"idle", "lock", "wait", "unregister", "fn", "arm"}]
        /\ ret' \in [Threads -> {"ok", "error"}]
    BY DEF TypeOK
  <2> QED
    BY <2>1, <2>2 DEF TypeOK
<1>2. MutexHeld'
  BY DEF MutexHeld, TypeOK, Holding, Threads
<1>3. SingleStart' /\ JobsInPool'
  BY DEF SingleStart, JobsInPool, Pending, Phases
<1>4. OnlyKnownPool'
  BY DEF OnlyKnownPool, Alive, Phases
<1>5. \A q \in Threads : q # p => pc[q] \notin Holding
  BY DEF MutexHeld, Holding
<1>6. Phases'
  BY <1>5 DEF Phases, TypeOK, Holding
<1> QED
  BY <1>1, <1>2, <1>3, <1>4, <1>6

LEMMA FnStep ==
  ASSUME IInv, NEW p \in Threads, Fn(p)
  PROVE  IInv'
<1> USE ThreadsAssumption, ParametersAssumption
    DEF IInv, Fn, AddJobFunc, AddSchedule, handlerVars
<1>1. TypeOK'
  <2>1. op[p] \in Operations
    BY DEF TypeOK
  <2>2. workMap' \subseteq JobTypes
    BY <2>1 DEF TypeOK, Registrations
  <2>3. schedules' \subseteq Specs /\ scheduled' \subseteq Specs
    BY <2>1 DEF TypeOK, Schedulings
  <2>4. PICK e \in BOOLEAN : fnErr' = [fnErr EXCEPT ![p] = e]
    <3>1. CASE AddJobFunc(p)
      <4>1. (op[p].arg \in workMap) \in BOOLEAN
        OBVIOUS
      <4> QED
        BY <3>1, <4>1, Zenon
    <3>2. CASE AddSchedule(p)
      <4>1. (op[p].arg \in BadSpecs) \in BOOLEAN
        OBVIOUS
      <4> QED
        BY <3>2, <4>1, Zenon
    <3> QED
      BY <3>1, <3>2
  <2>5. fnErr' \in [Threads -> BOOLEAN]
    BY <2>4 DEF TypeOK
  <2>6. pc' \in [Threads -> {"idle", "lock", "wait", "unregister", "fn", "arm"}]
    BY DEF TypeOK
  <2> QED
    BY <2>2, <2>3, <2>5, <2>6 DEF TypeOK
<1>2. MutexHeld'
  BY DEF MutexHeld, TypeOK, Holding, Threads
<1>3. SingleStart' /\ OnlyKnownPool' /\ JobsInPool'
  BY DEF SingleStart, OnlyKnownPool, JobsInPool, Pending, Alive
<1>4. Phases'
  BY DEF Phases, TypeOK
<1> QED
  BY <1>1, <1>2, <1>3, <1>4

LEMMA ArmStep ==
  ASSUME IInv, NEW p \in Threads, Arm(p)
  PROVE  IInv'
<1> USE ThreadsAssumption, ParametersAssumption
    DEF IInv, Arm, Return, FnResult, Rearmed, Stoppable, handlerVars, dataVars
<1>1. TypeOK'
  <2>1. timers' \in [Starts -> {"none", "armed", "stopped", "expired", "done"}]
    BY DEF TypeOK
  <2>2. pc' \in [Threads -> {"idle", "lock", "wait", "unregister", "fn", "arm"}]
    BY DEF TypeOK
  <2>3. ret' \in [Threads -> {"ok", "error"}]
    BY DEF TypeOK
  <2>4. startTimer' \in 0..MaxStarts
    BY DEF TypeOK
  <2> QED
    BY <2>1, <2>2, <2>3, <2>4 DEF TypeOK
<1>2. MutexHeld'
  BY DEF MutexHeld, TypeOK, Holding, Threads
<1>3. SingleStart'
  BY DEF SingleStart, Pending, TypeOK
<1>4. OnlyKnownPool' /\ JobsInPool'
  BY DEF OnlyKnownPool, JobsInPool, Alive
<1>5. Phases'
  BY DEF Phases, TypeOK
<1> QED
  BY <1>1, <1>2, <1>3, <1>4, <1>5

LEMMA TimerStep ==
  ASSUME IInv, NEW t \in Starts, Expire(t) \/ StartWorkers(t)
  PROVE  IInv'
<1> USE ThreadsAssumption, ParametersAssumption DEF IInv, handlerVars, dataVars, callVars
<1>1. CASE Expire(t)
  <2>1. TypeOK'
    BY <1>1 DEF TypeOK, Expire
  <2>2. MutexHeld' /\ OnlyKnownPool' /\ JobsInPool' /\ Phases'
    BY <1>1 DEF Expire, MutexHeld, OnlyKnownPool, JobsInPool, Phases, Alive
  <2>3. SingleStart'
    BY <1>1 DEF Expire, SingleStart, Pending, TypeOK
  <2> QED
    BY <2>1, <2>2, <2>3
<1>2. CASE StartWorkers(t)
  <2> USE DEF StartWorkers
  <2>1. TypeOK'
    <3>1. t \in 0..MaxStarts
      BY DEF Starts
    <3>2. timers' \in [Starts -> {"none", "armed", "stopped", "expired", "done"}]
      BY <1>2 DEF TypeOK
    <3>3. pool' \in [Starts -> {"none", "new", "run", "ended", "failed"}]
      BY <1>2 DEF TypeOK
    <3>4. probe' \in [Starts -> {"none", "send", "sent", "lock", "select", "gone"}]
      BY <1>2 DEF TypeOK
    <3>5. /\ hasStarted' \in BOOLEAN /\ isStartInProgress' \in BOOLEAN
          /\ curPool' \in 0..MaxStarts
      BY <1>2, <3>1 DEF TypeOK
    <3> QED
      BY <1>2, <3>2, <3>3, <3>4, <3>5 DEF TypeOK
  <2>2. MutexHeld'
    BY <1>2 DEF MutexHeld
  <2>3. \A s \in Starts : s # t => ~Pending(s)
    BY <1>2 DEF SingleStart, Pending
  <2>4. SingleStart'
    BY <1>2, <2>3 DEF SingleStart, Pending, TypeOK
  <2>5. OnlyKnownPool'
    BY <1>2 DEF OnlyKnownPool, Alive, TypeOK
  <2>6. JobsInPool'
    BY <1>2 DEF JobsInPool, OnlyKnownPool, Alive, TypeOK, Starts
  <2>7. Phases'
    BY <1>2 DEF Phases, MutexHeld, Holding, Threads
  <2> QED
    BY <2>1, <2>2, <2>4, <2>5, <2>6, <2>7
<1> QED
  BY <1>1, <1>2

LEMMA PoolStep ==
  ASSUME IInv, NEW t \in Starts, Pool(t)
  PROVE  IInv'
<1> USE ThreadsAssumption, ParametersAssumption
    DEF IInv, Pool, PoolRun, PoolEnd, Idle, handlerVars, dataVars, callVars
<1>1. TypeOK'
  BY DEF TypeOK
<1>2. MutexHeld' /\ SingleStart'
  BY DEF MutexHeld, SingleStart, Pending
<1>3. OnlyKnownPool'
  BY DEF OnlyKnownPool, Alive, TypeOK
<1>4. JobsInPool'
  <2>1. CASE PoolRun(t)
    <3> SUFFICES ASSUME NEW w \in Workers, job[w] # 0 PROVE pool'[job[w]] = "run"
      BY <2>1 DEF JobsInPool
    <3>1. pool[job[w]] = "run" /\ job[w] # t /\ job[w] \in Starts
      BY <2>1 DEF JobsInPool, TypeOK, Starts
    <3> QED
      BY <2>1, <3>1 DEF TypeOK
  <2>2. CASE PoolEnd(t)
    BY <2>2 DEF JobsInPool, TypeOK
  <2> QED
    BY <2>1, <2>2
<1>5. Phases'
  BY DEF Phases, TypeOK
<1> QED
  BY <1>1, <1>2, <1>3, <1>4, <1>5

LEMMA ProbeStep ==
  ASSUME IInv, NEW t \in Starts, Probe(t)
  PROVE  IInv'
<1> USE DEF IInv, Probe, ProbeSend, ProbeSent, ProbeSchedules, ProbeTick, ProbeStop,
            handlerVars, dataVars, callVars
<1>1. TypeOK'
  BY DEF TypeOK
<1>2. MutexHeld' /\ SingleStart' /\ OnlyKnownPool' /\ JobsInPool' /\ Phases'
  BY DEF MutexHeld, SingleStart, Pending, OnlyKnownPool, Alive, JobsInPool, Phases
<1> QED
  BY <1>1, <1>2

LEMMA JobStep ==
  ASSUME IInv, NEW w \in Workers, JobEnd(w) \/ \E t \in Starts : JobStart(w, t)
  PROVE  IInv'
<1> USE ThreadsAssumption DEF IInv, JobEnd, JobStart, handlerVars, dataVars, callVars
<1>1. TypeOK'
  <2>1. \A t \in Starts : t \in 0..MaxStarts
    BY ParametersAssumption DEF Starts
  <2>2. job' \in [Workers -> 0..MaxStarts]
    BY <2>1, ParametersAssumption DEF TypeOK
  <2> QED
    BY <2>2 DEF TypeOK
<1>2. MutexHeld' /\ SingleStart' /\ OnlyKnownPool' /\ Phases'
  BY DEF MutexHeld, SingleStart, Pending, OnlyKnownPool, Alive, Phases
<1>3. JobsInPool'
  BY DEF JobsInPool, TypeOK
<1> QED
  BY <1>1, <1>2, <1>3

LEMMA NextIInv == IInv /\ [Next]_vars => IInv'
<1> SUFFICES ASSUME IInv, [Next]_vars PROVE IInv'
  OBVIOUS
<1>1. ASSUME NEW p \in Threads, Method(p) PROVE IInv'
  BY <1>1, LockStep, WaitStep, UnregisterStep, FnStep, ArmStep DEF Method
<1>2. ASSUME NEW p \in Threads, NEW o \in Operations, Call(p, o) PROVE IInv'
  BY <1>2, CallStep
<1>3. ASSUME NEW t \in Starts, Expire(t) \/ StartWorkers(t) PROVE IInv'
  BY <1>3, TimerStep
<1>4. ASSUME NEW t \in Starts, Pool(t) \/ Probe(t) PROVE IInv'
  BY <1>4, PoolStep, ProbeStep
<1>5. ASSUME NEW w \in Workers, JobEnd(w) \/ \E t \in Starts : JobStart(w, t)
      PROVE  IInv'
  BY <1>5, JobStep
<1>6. CASE UNCHANGED vars
  BY <1>6 DEF vars, handlerVars, dataVars, callVars, IInv, TypeOK, MutexHeld,
     SingleStart, OnlyKnownPool, JobsInPool, Phases, Pending, Alive
<1> QED
  BY <1>1, <1>2, <1>3, <1>4, <1>5, <1>6 DEF Next

LEMMA Invariance == Spec => []IInv
BY InitIInv, NextIInv, PTL DEF Spec

(* Every variable keeps its type; in particular the timer a call creates,  *)
(* the pool a start creates and the pool that is cancelled exist.          *)
THEOREM TypeCorrect == Spec => []TypeOK
<1>1. IInv => TypeOK
  BY DEF IInv
<1> QED
  BY <1>1, Invariance, PTL

(* h.mu is held exactly by the thread between Lock and Unlock.             *)
THEOREM MutexCorrect == Spec => []MutexHeld
<1>1. IInv => MutexHeld
  BY DEF IInv
<1> QED
  BY <1>1, Invariance, PTL

(* At most one start is pending and none while a pool is started, so       *)
(* startWorkers never meets a queue that has already started.              *)
THEOREM SingleStartCorrect == Spec => []SingleStart
<1>1. IInv => SingleStart
  BY DEF IInv
<1> QED
  BY <1>1, Invariance, PTL

(* No pool runs that the handler does not know of: restarts do not overlap.*)
THEOREM OnlyKnownPoolCorrect == Spec => []OnlyKnownPool
<1>1. IInv => OnlyKnownPool
  BY DEF IInv
<1> QED
  BY <1>1, Invariance, PTL

(* A JobFunc that runs belongs to a pool that has not ended.                *)
THEOREM JobsInPoolCorrect == Spec => []JobsInPool
<1>1. IInv => JobsInPool
  BY DEF IInv
<1> QED
  BY <1>1, Invariance, PTL

LEMMA IInvQuiescent == IInv => Quiescent
<1> SUFFICES ASSUME IInv, NEW p \in Threads, pc[p] \in {"unregister", "fn", "arm"}
             PROVE  /\ \A t \in Starts : ~Alive(t)
                    /\ \A w \in Workers : job[w] = 0
  BY DEF Quiescent
<1>1. \A t \in Starts : ~Alive(t)
  BY DEF IInv, OnlyKnownPool, Phases, Alive
<1>2. \A w \in Workers : job[w] = 0
  BY <1>1, ParametersAssumption DEF IInv, JobsInPool, Alive, TypeOK, Starts
<1> QED
  BY <1>1, <1>2

(* JobFuncs and schedules are added, and the pool is reported as gone,     *)
(* only when no pool is alive and no JobFunc runs.                         *)
THEOREM QuiescentCorrect == Spec => []Quiescent
BY IInvQuiescent, Invariance, PTL

(* The map of JobFuncs only grows, and never under running workers.        *)
THEOREM WorkMapCorrect == Spec => StableWorkMap
<1> DEFINE Stable == /\ workMap \subseteq workMap'
                     /\ (\E t \in Starts : Alive(t)) => workMap' = workMap
<1>1. ASSUME IInv, [Next]_vars PROVE [Stable]_vars
  <2>1. ASSUME NEW p \in Threads, Fn(p) PROVE Stable
    <3>1. \A t \in Starts : ~Alive(t)
      BY <1>1, <2>1, IInvQuiescent DEF Quiescent, Fn
    <3> QED
      BY <2>1, <3>1 DEF Fn, AddJobFunc, AddSchedule
  <2>2. CASE UNCHANGED workMap
    BY <2>2
  <2>3. (\E p \in Threads : Fn(p)) \/ UNCHANGED workMap
    BY <1>1 DEF Next, vars, dataVars, Method, Call, Lock, Wait, Unregister, Arm,
       Expire, StartWorkers, Pool, PoolRun, PoolEnd, Probe, ProbeSend, ProbeSent,
       ProbeSchedules, ProbeTick, ProbeStop, JobStart, JobEnd
  <2> QED
    BY <2>1, <2>2, <2>3
<1>2. Spec => [][Next]_vars
  BY DEF Spec
<1> QED
  BY <1>1, <1>2, Invariance, PTL DEF StableWorkMap

-----------------------------------------------------------------------------
(* Numbers and the cut-off of the history.                                 *)

(* The provers have no induction: a set of naturals has a least element    *)
(* because < is well founded.                                              *)
LEMMA NatMinimum ==
  ASSUME NEW S \in SUBSET Nat, S # {}
  PROVE  \E m \in S : \A n \in S : m <= n
<1> DEFINE R == OpToRel(<, Nat)
<1>1. IsWellFoundedOn(R, Nat)
  BY NatLessThanWellFounded
<1>2. \A a, b \in Nat : a < b => <<a, b>> \in R
  BY DEF OpToRel
<1> HIDE DEF R
<1>3. PICK m \in S : \A n \in S : ~(<<n, m>> \in R)
  BY <1>1, WFMin
<1>4. \A n \in S : ~(n < m)
  BY <1>2, <1>3
<1> QED
  BY <1>3, <1>4

(* A number that is too large wraps to a smaller one.                      *)
LEMMA WrapBound ==
  ASSUME NEW x \in Int, -Half <= x
  PROVE  /\ Wrap(x) \in Int /\ Wrap(x) <= x
         /\ x < Half => Wrap(x) = x
<1> DEFINE w == 2 * Half
           a == x + Half
<1>1. w \in Nat /\ w > 0 /\ a \in Nat
  BY BoundAssumption
<1>2. (x < Half) => a < w
  BY BoundAssumption
<1>3. a % w \in 0 .. w - 1 /\ (a % w) <= a /\ (a < w => (a % w) = a)
  <2> HIDE DEF a, w
  <2>1. a % w \in 0 .. w - 1 /\ a = w * (a \div w) + (a % w) /\ a \div w \in Nat
    BY <1>1
  <2> DEFINE q == a \div w
             m == a % w
  <2>2. m \in 0 .. w - 1 /\ a = w * q + m /\ q \in Nat
    BY <2>1
  <2> HIDE DEF q, m
  <2>3. w * q >= 0
    BY <1>1, <2>2
  <2>4. m <= a
    BY <1>1, <2>2, <2>3
  <2>5. a < w => q = 0
    <3> SUFFICES ASSUME a < w, q >= 1 PROVE FALSE
      BY <2>2
    <3>1. w * q >= w
      BY <1>1, <2>2
    <3> QED
      BY <1>1, <2>2, <3>1
  <2>6. a < w => m = a
    BY <1>1, <2>2, <2>5
  <2> QED
    BY <2>2, <2>4, <2>6 DEF q, m
<1> DEFINE v == a % w
<1>4. Wrap(x) = v - Half
  BY DEF Wrap
<1>5. v \in Int /\ v <= a /\ (a < w => v = a)
  BY <1>1, <1>3
<1> HIDE DEF v
<1> QED
  BY <1>2, <1>4, <1>5, BoundAssumption

LEMMA HistoryFinite ==
  ASSUME IsFiniteSet(history), NEW S \in SUBSET history
  PROVE  IsFiniteSet(S) /\ Cardinality(S) \in Nat
BY FS_Subset, FS_CardinalityType

(* The cut-off leaves at most as many finished rows as the offset says ... *)
LEMMA BeyondLeaves ==
  ASSUME IsFiniteSet(history), history \subseteq Rows, NEW k \in Nat
  PROVE  Cardinality(Finished \ Beyond(k)) <= k
<1> DEFINE above(t) == {f \in Finished : f.at > t}
           from(t)  == {f \in Finished : f.at >= t}
           Few      == {t \in 0 .. MaxTime : Cardinality(above(t)) <= k}
<1>1. IsFiniteSet(Finished) /\ \A f \in Finished : f.at \in 0 .. MaxTime
  <2>1. Finished \in SUBSET history
    BY DEF Finished
  <2> QED
    BY <2>1, FS_Subset DEF Rows
<1>2. \A S \in SUBSET Finished : IsFiniteSet(S) /\ Cardinality(S) \in Nat
  BY <1>1, FS_Subset, FS_CardinalityType
<1>3. \A t \in Int : above(t) \in SUBSET Finished /\ from(t) \in SUBSET Finished
  OBVIOUS
<1>4. MaxTime \in Few
  <2>1. above(MaxTime) = {}
    BY <1>1, BoundAssumption
  <2> QED
    BY <2>1, FS_EmptySet, BoundAssumption
<1>5. PICK t \in Few : \A u \in Few : t <= u
  <2>1. Few \subseteq 0 .. MaxTime /\ 0 .. MaxTime \subseteq Nat
    BY BoundAssumption
  <2>2. Few \in SUBSET Nat /\ Few # {}
    BY <1>4, <2>1
  <2> QED
    BY <2>2, NatMinimum
<1>6. t \in 0 .. MaxTime /\ Cardinality(above(t)) <= k
  BY <1>5
<1>7. CASE Cardinality(from(t)) > k
  <2>1. PICK c \in Finished : c.at = t
    <3>1. from(t) # above(t)
      BY <1>2, <1>3, <1>6, <1>7
    <3> QED
      BY <1>1, <1>6, <3>1
  <2>2. above(t) = {f \in Finished : f.at > c.at} /\ from(t) = {f \in Finished : f.at >= c.at}
    BY <2>1
  <2>3. Finished \ Beyond(k) \subseteq above(t)
    <3> SUFFICES ASSUME NEW r \in Finished, ~(r.at > t)
                 PROVE  r \in Beyond(k)
      OBVIOUS
    <3>1. r.at <= c.at
      BY <1>1, <1>6, <2>1
    <3> QED
      BY <1>6, <1>7, <2>2, <3>1 DEF Beyond
  <2>4. Cardinality(Finished \ Beyond(k)) <= Cardinality(above(t))
    BY <1>2, <1>3, <1>6, <2>3, FS_Subset
  <2> QED
    BY <1>2, <1>3, <1>6, <2>4, FS_CardinalityType
<1>8. CASE ~(Cardinality(from(t)) > k)
  <2>1. t = 0
    <3> SUFFICES ASSUME t # 0 PROVE FALSE
      OBVIOUS
    <3>1. t - 1 \in 0 .. MaxTime
      BY <1>6, BoundAssumption
    <3>2. above(t - 1) = from(t)
      BY <1>1, <1>6
    <3>3. t - 1 \in Few
      BY <1>2, <1>3, <1>6, <1>8, <3>1, <3>2
    <3> QED
      BY <1>5, <1>6, <3>3
  <2>2. from(t) = Finished
    BY <1>1, <2>1
  <2>3. Finished \ Beyond(k) \in SUBSET Finished
    OBVIOUS
  <2>4. Cardinality(Finished \ Beyond(k)) <= Cardinality(Finished)
    BY <1>1, <2>3, FS_Subset
  <2>5. Cardinality(Finished) \in Nat /\ Cardinality(Finished \ Beyond(k)) \in Nat
    BY <1>2, <2>3
  <2> HIDE DEF from
  <2>6. Cardinality(Finished) <= k
    BY <1>8, <2>2, <2>5
  <2> QED
    BY <2>4, <2>5, <2>6
<1> QED
  BY <1>7, <1>8

(* ... and takes none that fewer others are no older than.                 *)
LEMMA BeyondOthers ==
  ASSUME IsFiniteSet(history), history \subseteq Rows, NEW k \in Nat, NEW r \in Beyond(k)
  PROVE  r \in Finished /\ Others(r) \in Nat /\ Others(r) >= k
<1>1. IsFiniteSet(Finished) /\ \A f \in Finished : f.at \in 0 .. MaxTime
  <2>1. Finished \in SUBSET history
    BY DEF Finished
  <2> QED
    BY <2>1, FS_Subset DEF Rows
<1>2. PICK c \in Finished : Cardinality({f \in Finished : f.at >= c.at}) > k /\ r.at <= c.at
  BY DEF Beyond
<1>3. r \in Finished
  BY DEF Beyond
<1> DEFINE mine == {f \in Finished : f.at >= r.at}
           cuts == {f \in Finished : f.at >= c.at}
<1>4. IsFiniteSet(mine) /\ Cardinality(mine) \in Nat
  BY <1>1, FS_Subset, FS_CardinalityType
<1>5. cuts \in SUBSET mine
  BY <1>1, <1>2, <1>3
<1>6. Cardinality(cuts) <= Cardinality(mine) /\ Cardinality(cuts) \in Nat
  BY <1>4, <1>5, FS_Subset, FS_CardinalityType
<1>7. r \in mine /\ {f \in Finished \ {r} : f.at >= r.at} = mine \ {r}
  BY <1>1, <1>3
<1>8. Others(r) = Cardinality(mine) - 1
  <2>1. Cardinality(mine \ {r}) = Cardinality(mine) - 1
    <3> HIDE DEF mine
    <3> QED
      BY <1>4, <1>7, FS_RemoveElement
  <2> QED
    BY <1>7, <2>1 DEF Others
<1>9. Cardinality(cuts) > k
  BY <1>2
<1> HIDE DEF mine, cuts
<1> QED
  BY <1>3, <1>4, <1>6, <1>8, <1>9

-----------------------------------------------------------------------------
(* What is true of the tables and of the runs of the daily job.            *)

JobRecords ==
  [st : {"unborn", "pending", "running", "gone"}, errors : Nat, at : 0 .. MaxTime]

(* The row is of a run that has ended: its job has been scheduled, and the *)
(* run of it that ends next has another number.                            *)
Ran(r) ==
  /\ jobs[r.job].st # "unborn" /\ r.run <= jobs[r.job].errors
  /\ r.run = jobs[r.job].errors => jobs[r.job].st = "gone"

TablesOK ==
  /\ jobs \in [Jobs -> JobRecords]
  /\ \A j \in Jobs : jobs[j].errors <= MaxRuns /\ (jobs[j].st = "running" => jobs[j].errors < MaxRuns)
  /\ IsFiniteSet(history) /\ history \subseteq Rows
  /\ \A r \in history : Ran(r)
  /\ \A r, s \in history : SameRun(r, s) => r = s
  /\ dead \in 0 .. MaxDead

OthersOK ==
  now \in 0 .. MaxTime /\ setting \in Crons /\ vac \in Tables \cup {None} /\ asked \in 0 .. MaxRequests

CronRecords ==
  [step : {"none", "setting", "entries", "age", "size", "end"}, set : Crons \cup {None},
   failed : SUBSET {"setting", "entries", "age", "size"}, seen : SUBSET Rows, at : 0 .. MaxTime]

(* What a call of the daily job has read.                                  *)
HasRead(c) ==
  /\ cron[c].step \in {"entries", "age", "size"} => cron[c].set # None
  /\ cron[c].step \in {"none", "setting"} => cron[c].set = None
  /\ cron[c].at <= now
  /\ \A r \in cron[c].seen : Ran(r)

(* The rows from before its start that are still there.                    *)
LeftRows(c) == {r \in history : \E s \in cron[c].seen : SameRun(r, s)}

(* What its steps have reached stays: no row that it has seen comes back.  *)
KeptEntries(c) ==
  cron[c].step \in {"age", "size", "end"} /\ cron[c].set # None =>
    (cron[c].set.entries # Off /\ "entries" \notin cron[c].failed =>
       Cardinality(LeftRows(c) \cap Finished) <= cron[c].set.entries)

KeptAge(c) ==
  cron[c].step \in {"size", "end"} /\ cron[c].set # None =>
    (cron[c].set.age # Off /\ "age" \notin cron[c].failed /\ cron[c].set.age * TimeDay < Half =>
       \A r \in LeftRows(c) : cron[c].at - r.at < cron[c].set.age * TimeDay)

KeptSize(c) ==
  cron[c].step = "end" /\ cron[c].set # None =>
    (cron[c].set.size # Off /\ "size" \notin cron[c].failed /\ cron[c].set.size * GB < Half =>
       \/ LeftRows(c) \cap Finished = {}
       \/ Cardinality(LeftRows(c) \cap Finished) + Empty <= cron[c].set.size * GB)

CronOK(c) ==
  cron[c] \in CronRecords /\ HasRead(c) /\ KeptEntries(c) /\ KeptAge(c) /\ KeptSize(c)

(* A run of a daily job has a call as long as it has its transaction.      *)
RunsOK == \A c \in CronJobs : (cron[<<c, 0>>].step # "none") = (jobs[c].st = "running")

WorldOK ==
  TablesOK /\ OthersOK /\ RunsOK /\ cron \in [Calls -> CronRecords] /\ \A c \in Calls : CronOK(c)

-----------------------------------------------------------------------------
(* How the tables change.                                                  *)

LEMMA DeleteKeeps ==
  ASSUME TablesOK, NEW D \in SUBSET history, Delete(D), jobs' = jobs
  PROVE  TablesOK' /\ history' = history \ D
<1>1. history' = history \ D /\ dead' = Smaller(MaxDead, dead + Cardinality(D))
  BY DEF Delete
<1>2. IsFiniteSet(history') /\ Cardinality(D) \in Nat
  BY <1>1, FS_Subset, HistoryFinite DEF TablesOK
<1>3. dead' \in 0 .. MaxDead
  BY <1>1, <1>2, BoundAssumption DEF TablesOK, Smaller
<1>4. \A r \in history' : Ran(r)'
  BY <1>1 DEF TablesOK, Ran
<1>5. \A r, s \in history' : SameRun(r, s) => r = s
  BY <1>1 DEF TablesOK
<1> QED
  BY <1>1, <1>2, <1>3, <1>4, <1>5 DEF TablesOK, SameRun

LEMMA InsertKeeps ==
  ASSUME TablesOK, NEW n \in Rows, Insert(n), Ran(n)',
         jobs' \in [Jobs -> JobRecords],
         \A j \in Jobs : jobs'[j].errors <= MaxRuns /\ (jobs'[j].st = "running" => jobs'[j].errors < MaxRuns),
         \A r \in history : Ran(r)' /\ ~SameRun(r, n)
  PROVE  TablesOK' /\ history' = history \cup {n}
<1>1. history' = history \cup {n} /\ dead' \in {dead, dead - 1} \cap Nat
  BY DEF Insert
<1>2. IsFiniteSet(history')
  BY <1>1, FS_AddElement DEF TablesOK
<1>3. dead' \in 0 .. MaxDead
  BY <1>1, BoundAssumption DEF TablesOK
<1>4. \A r \in history' : Ran(r)'
  BY <1>1
<1>5. \A r, s \in history' : SameRun(r, s) => r = s
  BY <1>1 DEF TablesOK, SameRun
<1> QED
  BY <1>1, <1>2, <1>3, <1>4, <1>5 DEF TablesOK, SameRun

LEMMA TablesKeep ==
  ASSUME TablesOK, history' = history, dead' = dead,
         jobs' \in [Jobs -> JobRecords],
         \A j \in Jobs : jobs'[j].errors <= MaxRuns /\ (jobs'[j].st = "running" => jobs'[j].errors < MaxRuns),
         \A r \in history : Ran(r)'
  PROVE  TablesOK'
BY DEF TablesOK, SameRun

(* What the steps of a run have reached stays while rows only go.          *)
LEMMA KeptOn ==
  ASSUME TablesOK, NEW c \in Calls, CronOK(c),
         cron'[c].set = cron[c].set, cron'[c].seen = cron[c].seen, cron'[c].at = cron[c].at,
         cron[c].failed \subseteq cron'[c].failed,
         LeftRows(c)' \subseteq LeftRows(c)
  PROVE  /\ cron[c].step \in {"age", "size", "end"} => KeptEntries(c)'
         /\ cron[c].step \in {"size", "end"} => KeptAge(c)'
         /\ cron[c].step = "end" => KeptSize(c)'
<1>1. ASSUME NEW k \in Int, Cardinality(LeftRows(c) \cap Finished) <= k
      PROVE  Cardinality((LeftRows(c) \cap Finished)') <= k
  <2> DEFINE S == LeftRows(c) \cap Finished
  <2>1. S \in SUBSET history /\ IsFiniteSet(history)
    BY DEF LeftRows, TablesOK
  <2>2. S' \in SUBSET S
    BY DEF LeftRows, Finished
  <2>3. IsFiniteSet(S) /\ Cardinality(S) \in Nat
    BY <2>1, HistoryFinite
  <2>4. IsFiniteSet(S') /\ Cardinality(S') <= Cardinality(S)
    BY <2>2, <2>3, FS_Subset
  <2>5. Cardinality(S') \in Nat
    BY <2>4, FS_CardinalityType
  <2> HIDE DEF S
  <2>6. Cardinality(S) <= k
    BY <1>1 DEF S
  <2>7. Cardinality(S') <= k
    BY <2>3, <2>4, <2>5, <2>6
  <2> QED
    BY <2>7 DEF S
<1>2. cron[c].set # None => cron[c].set \in Crons
  BY DEF CronOK, CronRecords
<1>3. cron[c].set # None /\ cron[c].set.entries # Off => cron[c].set.entries \in Int
  BY <1>2, SettingAssumption
<1>4. cron[c].step \in {"age", "size", "end"} => KeptEntries(c)'
  BY <1>1, <1>3 DEF CronOK, KeptEntries
<1>5. cron[c].step \in {"size", "end"} => KeptAge(c)'
  BY DEF CronOK, KeptAge
<1>6. cron[c].step = "end" => KeptSize(c)'
  <2> SUFFICES ASSUME cron[c].step = "end", cron[c].set # None, cron[c].set.size # Off,
                      "size" \notin cron'[c].failed, cron[c].set.size * GB < Half,
                      (LeftRows(c) \cap Finished)' # {}
               PROVE  Cardinality((LeftRows(c) \cap Finished)') + Empty <= cron[c].set.size * GB
    BY DEF KeptSize
  <2>1. LeftRows(c) \cap Finished # {}
    BY DEF LeftRows, Finished
  <2>2. Cardinality(LeftRows(c) \cap Finished) + Empty <= cron[c].set.size * GB
    BY <2>1 DEF CronOK, KeptSize
  <2>3. PICK limit \in Int : limit = cron[c].set.size * GB
    BY <1>2, SettingAssumption, BoundAssumption
  <2>4. /\ IsFiniteSet(LeftRows(c) \cap Finished)
        /\ IsFiniteSet((LeftRows(c) \cap Finished)')
    <3>1. LeftRows(c) \cap Finished \in SUBSET history /\ IsFiniteSet(history)
      BY DEF LeftRows, TablesOK
    <3>2. (LeftRows(c) \cap Finished)' \in SUBSET (LeftRows(c) \cap Finished)
      BY DEF LeftRows, Finished
    <3> QED
      BY <3>1, <3>2, FS_Subset
  <2>5. Cardinality(LeftRows(c) \cap Finished) \in Int /\ Cardinality((LeftRows(c) \cap Finished)') \in Int
    BY <2>4, FS_CardinalityType
  <2>6. Cardinality(LeftRows(c) \cap Finished) <= limit - Empty /\ limit - Empty \in Int /\ Empty \in Int
    BY <2>2, <2>3, <2>5, BoundAssumption
  <2>7. Cardinality((LeftRows(c) \cap Finished)') <= limit - Empty
    BY <1>1, <2>6
  <2> QED
    BY <2>3, <2>5, <2>6, <2>7
<1> QED
  BY <1>4, <1>5, <1>6

(* A run of the daily job that goes on while others change the tables.     *)
LEMMA CronKeeps ==
  ASSUME TablesOK, NEW c \in Calls, CronOK(c), cron'[c] = cron[c],
         now \in Int, now' \in Int, now' >= now,
         \A r \in cron[c].seen : Ran(r)',
         LeftRows(c)' \subseteq LeftRows(c)
  PROVE  CronOK(c)'
<1>1. HasRead(c)'
  BY DEF CronOK, HasRead, CronRecords
<1>2. /\ cron[c].step \in {"age", "size", "end"} => KeptEntries(c)'
      /\ cron[c].step \in {"size", "end"} => KeptAge(c)'
      /\ cron[c].step = "end" => KeptSize(c)'
  BY KeptOn
<1>3. KeptEntries(c)'
  BY <1>2 DEF KeptEntries
<1>4. KeptAge(c)' /\ KeptSize(c)'
  BY <1>2 DEF KeptAge, KeptSize
<1> QED
  BY <1>1, <1>3, <1>4 DEF CronOK

(* A step that starts or ends no run of a daily job.                       *)
LEMMA RunsKeep ==
  ASSUME RunsOK,
         \A c \in CronJobs : /\ (cron'[<<c, 0>>].step # "none") = (cron[<<c, 0>>].step # "none")
                             /\ (jobs'[c].st = "running") = (jobs[c].st = "running")
  PROVE  RunsOK'
BY DEF RunsOK

LEMMA RunCall ==
  ASSUME NEW c \in CronJobs
  PROVE  <<c, 0>> \in Calls
BY BoundAssumption DEF Calls

(* All runs of the daily job but those in C go on as they were.            *)
LEMMA WorldKeeps ==
  ASSUME WorldOK, TablesOK', OthersOK', now' >= now,
         NEW C \in SUBSET Calls, RunsOK',
         cron' \in [Calls -> CronRecords],
         \A c \in C : CronOK(c)',
         \A c \in Calls \ C : cron'[c] = cron[c],
         \A r \in Rows : Ran(r) => Ran(r)',
         \A c \in Calls : \A r \in history' \ history : \A s \in cron[c].seen : ~SameRun(r, s)
  PROVE  WorldOK'
<1>1. now \in Int /\ now' \in Int
  BY DEF WorldOK, OthersOK
<1>2. ASSUME NEW c \in Calls \ C PROVE CronOK(c)'
  <2>1. CronOK(c) /\ cron'[c] = cron[c] /\ cron[c].seen \subseteq Rows
    BY DEF WorldOK, CronOK, CronRecords
  <2>2. \A r \in cron[c].seen : Ran(r)'
    BY <2>1 DEF CronOK, HasRead
  <2>3. LeftRows(c)' \subseteq LeftRows(c)
    BY <2>1 DEF LeftRows, SameRun
  <2> QED
    BY <1>1, <2>1, <2>2, <2>3, CronKeeps DEF WorldOK
<1> QED
  BY <1>2 DEF WorldOK

LEMMA AllRunsKeep ==
  ASSUME WorldOK, TablesOK', OthersOK', now' >= now,
         cron' = cron, \A c \in CronJobs : (jobs'[c].st = "running") = (jobs[c].st = "running"),
         \A r \in Rows : Ran(r) => Ran(r)',
         \A c \in Calls : \A r \in history' \ history : \A s \in cron[c].seen : ~SameRun(r, s)
  PROVE  WorldOK'
<1>1. {} \in SUBSET Calls /\ Calls \ {} = Calls
  OBVIOUS
<1>2. RunsOK' /\ cron' \in [Calls -> CronRecords]
  BY RunsKeep DEF WorldOK
<1> QED
  BY <1>1, <1>2, WorldKeeps

LEMMA OtherRunsKeep ==
  ASSUME WorldOK, TablesOK', OthersOK', now' >= now,
         NEW d \in Calls, CronOK(d)', RunsOK',
         cron' \in [Calls -> CronRecords],
         \A c \in Calls \ {d} : cron'[c] = cron[c],
         \A r \in Rows : Ran(r) => Ran(r)',
         \A c \in Calls : \A r \in history' \ history : \A s \in cron[c].seen : ~SameRun(r, s)
  PROVE  WorldOK'
<1>1. {d} \in SUBSET Calls /\ \A c \in {d} : CronOK(c)'
  <2>1. ASSUME NEW c \in {d} PROVE CronOK(c)'
    <3>1. c = d
      OBVIOUS
    <3> QED
      BY <3>1
  <2> QED
    BY <2>1
<1> QED
  BY <1>1, WorldKeeps

-----------------------------------------------------------------------------
(* Workers.                                                                *)

LEMMA ScheduleJobsStep ==
  ASSUME WorldOK, NEW new \in SUBSET Jobs, ScheduleJobs(new), asked' = asked
  PROVE  WorldOK'
<1>1. /\ jobs \in [Jobs -> JobRecords] /\ history \subseteq Rows
      /\ cron \in [Calls -> CronRecords] /\ TablesOK /\ OthersOK
  BY DEF WorldOK, TablesOK
<1>2. /\ jobs' = [j \in Jobs |-> IF j \in new THEN NewJob ELSE jobs[j]]
      /\ \A j \in new : jobs[j].st = "unborn"
      /\ UNCHANGED <<now, history, dead, setting, cron, vac>>
  BY DEF ScheduleJobs
<1>3. NewJob \in JobRecords /\ NewJob.st = "pending" /\ NewJob.errors = 0
  BY BoundAssumption DEF NewJob, JobRecords
<1>4. jobs' \in [Jobs -> JobRecords]
  BY <1>1, <1>2, <1>3
<1>5. \A j \in Jobs : /\ jobs'[j].errors <= MaxRuns
                      /\ jobs'[j].st = "running" => jobs'[j].errors < MaxRuns
  BY <1>1, <1>2, <1>3, BoundAssumption DEF TablesOK
<1>6. \A r \in Rows : Ran(r) => Ran(r)'
  BY <1>1, <1>2 DEF Ran, Rows
<1>7. TablesOK'
  BY <1>1, <1>2, <1>4, <1>5, <1>6, TablesKeep DEF TablesOK
<1>8. OthersOK' /\ now' >= now
  BY <1>1, <1>2 DEF OthersOK
<1>9. \A c \in CronJobs : (jobs'[c].st = "running") = (jobs[c].st = "running")
  BY <1>2, <1>3, JobAssumption
<1> QED
  BY <1>1, <1>2, <1>6, <1>7, <1>8, <1>9, AllRunsKeep

LEMMA TakeStep ==
  ASSUME WorldOK, NEW j \in Jobs, Take(j), asked' = asked
  PROVE  WorldOK'
<1>1. /\ jobs \in [Jobs -> JobRecords] /\ history \subseteq Rows
      /\ cron \in [Calls -> CronRecords] /\ TablesOK /\ OthersOK
      /\ now \in 0 .. MaxTime
  BY DEF WorldOK, TablesOK, OthersOK
<1>2. /\ jobs[j].st = "pending" /\ jobs[j].errors < MaxRuns
      /\ jobs' = [jobs EXCEPT ![j].st = "running", ![j].at = now]
      /\ UNCHANGED <<now, history, dead, setting, vac>>
  <2>1. jobs[j].errors < (IF "retries" \in cast THEN MaxRuns ELSE 1)
    BY DEF Take
  <2>2. jobs[j].errors \in Nat
    BY <1>1 DEF JobRecords
  <2> QED
    BY <2>1, <2>2, BoundAssumption DEF Take
<1>3. /\ jobs' \in [Jobs -> JobRecords] /\ jobs'[j].st = "running"
      /\ jobs'[j].errors = jobs[j].errors /\ \A i \in Jobs \ {j} : jobs'[i] = jobs[i]
  BY <1>1, <1>2 DEF JobRecords
<1>4. \A i \in Jobs : /\ jobs'[i].errors <= MaxRuns
                      /\ jobs'[i].st = "running" => jobs'[i].errors < MaxRuns
  BY <1>1, <1>2, <1>3 DEF TablesOK, JobRecords
<1>5. \A r \in Rows : Ran(r) => Ran(r)'
  BY <1>1, <1>2, <1>3 DEF Ran, Rows, JobRecords
<1>6. TablesOK'
  BY <1>1, <1>2, <1>3, <1>4, <1>5, TablesKeep DEF TablesOK
<1>7. OthersOK' /\ now' >= now /\ history' \ history = {}
  BY <1>1, <1>2 DEF OthersOK
<1>8. CASE j \in CronJobs
  <2> DEFINE new == [NoCron EXCEPT !.step = "setting", !.at = now, !.seen = history]
             own == <<j, 0>>
  <2>1. cron' = [cron EXCEPT ![own] = new]
    BY <1>8 DEF Take
  <2>2. /\ new \in CronRecords /\ new.step = "setting" /\ new.set = None /\ new.at = now
        /\ new.seen = history
    BY <1>1, NoneAssumption DEF NoCron, CronRecords
  <2>3. own \in Calls
    BY <1>8, RunCall
  <2> HIDE DEF own
  <2>4. /\ cron' \in [Calls -> CronRecords] /\ cron'[own] = new
        /\ \A c \in Calls \ {own} : cron'[c] = cron[c]
    BY <1>1, <2>1, <2>2, <2>3
  <2>5. HasRead(own)'
    <3>1. \A r \in history : Ran(r)'
      BY <1>1, <1>5 DEF TablesOK
    <3> HIDE DEF new
    <3> QED
      BY <1>1, <1>2, <1>3, <2>2, <2>4, <3>1 DEF HasRead
  <2> HIDE DEF new
  <2>6. CronOK(own)'
    BY <2>2, <2>3, <2>4, <2>5 DEF CronOK, KeptEntries, KeptAge, KeptSize
  <2>7. RunsOK'
    <3> SUFFICES ASSUME NEW c \in CronJobs
                 PROVE  (cron'[<<c, 0>>].step # "none") = (jobs'[c].st = "running")
      BY DEF RunsOK
    <3>1. CASE c = j
      BY <1>3, <2>2, <2>4, <3>1 DEF own
    <3>2. CASE c # j
      <4>1. <<c, 0>> \in Calls \ {own}
        BY <3>2, RunCall DEF own
      <4> QED
        BY <1>3, <2>4, <3>2, <4>1, JobAssumption DEF WorldOK, RunsOK
    <3> QED
      BY <3>1, <3>2
  <2> QED
    BY <1>5, <1>6, <1>7, <2>3, <2>4, <2>6, <2>7, OtherRunsKeep
<1>9. CASE j \notin CronJobs
  <2>1. cron' = cron
    BY <1>9 DEF Take
  <2>2. \A c \in CronJobs : (jobs'[c].st = "running") = (jobs[c].st = "running")
    BY <1>3, <1>9, JobAssumption
  <2> QED
    BY <1>1, <1>5, <1>6, <1>7, <2>1, <2>2, AllRunsKeep
<1> QED
  BY <1>8, <1>9

(* No call is in order.                                                    *)
LEMMA NoCronOK ==
  ASSUME NEW c \in Calls, cron'[c] = NoCron, now' \in Nat
  PROVE  CronOK(c)'
<1>1. /\ NoCron \in CronRecords /\ NoCron.step = "none" /\ NoCron.set = None
      /\ NoCron.at = 0 /\ NoCron.seen = {}
  BY BoundAssumption DEF NoCron, CronRecords
<1> QED
  BY <1>1 DEF CronOK, HasRead, KeptEntries, KeptAge, KeptSize

(* A run that ends, one way or the other.                                  *)
LEMMA RunEnds ==
  ASSUME WorldOK, NEW j \in Jobs, jobs[j].st = "running", cron' = Ended(j),
         jobs'[j].st # "running", \A i \in Jobs \ {j} : jobs'[i] = jobs[i],
         TablesOK', OthersOK', now' = now,
         \A r \in Rows : Ran(r) => Ran(r)',
         \A c \in Calls : \A r \in history' \ history : \A s \in cron[c].seen : ~SameRun(r, s)
  PROVE  WorldOK'
<1>1. cron \in [Calls -> CronRecords] /\ now' >= now
  BY DEF WorldOK, OthersOK
<1>2. CASE j \in CronJobs
  <2> DEFINE own == <<j, 0>>
  <2>1. cron' = [cron EXCEPT ![own] = NoCron]
    BY <1>2 DEF Ended
  <2>2. NoCron \in CronRecords /\ NoCron.step = "none" /\ own \in Calls
    BY <1>2, BoundAssumption, RunCall DEF NoCron, CronRecords
  <2> HIDE DEF own
  <2>3. /\ cron' \in [Calls -> CronRecords] /\ cron'[own] = NoCron
        /\ \A c \in Calls \ {own} : cron'[c] = cron[c]
    BY <1>1, <2>1, <2>2
  <2>4. now' \in Nat
    BY BoundAssumption DEF OthersOK
  <2>5. CronOK(own)'
    BY <2>2, <2>3, <2>4, NoCronOK
  <2>6. RunsOK'
    <3> SUFFICES ASSUME NEW c \in CronJobs
                 PROVE  (cron'[<<c, 0>>].step # "none") = (jobs'[c].st = "running")
      BY DEF RunsOK
    <3>1. CASE c = j
      BY <2>2, <2>3, <3>1 DEF own
    <3>2. CASE c # j
      <4>1. <<c, 0>> \in Calls \ {own}
        BY <3>2, RunCall DEF own
      <4> QED
        BY <2>3, <3>2, <4>1, JobAssumption DEF WorldOK, RunsOK
    <3> QED
      BY <3>1, <3>2
  <2> QED
    BY <1>1, <2>2, <2>3, <2>5, <2>6, OtherRunsKeep
<1>3. CASE j \notin CronJobs
  <2>1. cron' = cron
    BY <1>3 DEF Ended
  <2>2. \A c \in CronJobs : (jobs'[c].st = "running") = (jobs[c].st = "running")
    BY <1>3, JobAssumption
  <2> QED
    BY <1>1, <2>1, <2>2, AllRunsKeep
<1> QED
  BY <1>2, <1>3

(* The call of a run goes on without it.                                   *)
LEMMA CallLost ==
  ASSUME WorldOK, NEW j \in CronJobs, NEW n \in 1 .. MaxLost, cron' = Lost(j, n),
         jobs'[j].st # "running", \A i \in Jobs \ {j} : jobs'[i] = jobs[i],
         TablesOK', OthersOK', UNCHANGED <<now, history>>,
         \A r \in Rows : Ran(r) => Ran(r)'
  PROVE  WorldOK'
<1> DEFINE own == <<j, 0>>
           lost == <<j, n>>
<1>1. /\ cron \in [Calls -> CronRecords] /\ own \in Calls /\ lost \in Calls /\ lost # own
      /\ now' >= now /\ now' \in Nat /\ now \in Int /\ now' \in Int
  BY RunCall, BoundAssumption DEF WorldOK, OthersOK, Calls
<1>2. cron' = [cron EXCEPT ![lost] = cron[own], ![own] = NoCron]
  BY DEF Lost
<1>3. NoCron \in CronRecords /\ NoCron.step = "none"
  BY BoundAssumption DEF NoCron, CronRecords
<1>4. \A c \in CronJobs : <<c, 0>> # lost /\ (c # j => <<c, 0>> # own)
  BY DEF own, lost
<1> HIDE DEF own, lost
<1>5. /\ cron' \in [Calls -> CronRecords] /\ cron'[own] = NoCron /\ cron'[lost] = cron[own]
      /\ \A c \in Calls \ {own, lost} : cron'[c] = cron[c]
  BY <1>1, <1>2, <1>3
<1>6. CronOK(own)'
  BY <1>1, <1>5, NoCronOK
<1>7. CronOK(lost)'
  <2>1. CronOK(own) /\ cron[own].seen \subseteq Rows
    BY <1>1 DEF WorldOK, CronRecords
  <2>2. HasRead(lost)'
    BY <1>1, <1>5, <2>1 DEF CronOK, HasRead, CronRecords
  <2>3. KeptEntries(lost)' /\ KeptAge(lost)' /\ KeptSize(lost)'
    BY <1>5, <2>1 DEF CronOK, KeptEntries, KeptAge, KeptSize, LeftRows, Finished, SameRun
  <2> QED
    BY <1>1, <1>5, <2>2, <2>3 DEF CronOK
<1>8. RunsOK'
  <2> SUFFICES ASSUME NEW c \in CronJobs
               PROVE  (cron'[<<c, 0>>].step # "none") = (jobs'[c].st = "running")
    BY DEF RunsOK
  <2>1. CASE c = j
    BY <1>3, <1>5, <2>1 DEF own
  <2>2. CASE c # j
    <3>1. <<c, 0>> \in Calls \ {own, lost}
      BY <1>4, <2>2, RunCall
    <3> QED
      BY <1>5, <2>2, <3>1, JobAssumption DEF WorldOK, RunsOK
  <2> QED
    BY <2>1, <2>2
<1>9. {own, lost} \in SUBSET Calls /\ \A c \in {own, lost} : CronOK(c)'
  <2>1. ASSUME NEW c \in {own, lost} PROVE CronOK(c)'
    <3>1. CASE c = own
      BY <1>6, <3>1
    <3>2. CASE c = lost
      BY <1>7, <3>2
    <3> QED
      BY <3>1, <3>2
  <2> QED
    BY <1>1, <2>1
<1> QED
  BY <1>1, <1>5, <1>8, <1>9, WorldKeeps

LEMMA SucceedStep ==
  ASSUME WorldOK, NEW j \in Jobs, Succeed(j), asked' = asked
  PROVE  WorldOK'
<1>1. /\ jobs \in [Jobs -> JobRecords] /\ TablesOK /\ OthersOK /\ history \subseteq Rows
      /\ jobs[j].st = "running" /\ UNCHANGED <<now, setting, vac>> /\ cron' = Ended(j)
  BY DEF WorldOK, TablesOK, Succeed
<1>2. /\ jobs' \in [Jobs -> JobRecords] /\ jobs'[j].st = "gone"
      /\ jobs'[j].errors = jobs[j].errors /\ \A i \in Jobs \ {j} : jobs'[i] = jobs[i]
  <2>1. 0 \in 0 .. MaxTime /\ jobs[j] \in JobRecords
    BY <1>1, BoundAssumption
  <2>2. jobs' = [jobs EXCEPT ![j] = [jobs[j] EXCEPT !.st = "gone", !.at = 0]]
    BY <1>1 DEF Succeed
  <2>3. /\ [jobs[j] EXCEPT !.st = "gone", !.at = 0] \in JobRecords
        /\ [jobs[j] EXCEPT !.st = "gone", !.at = 0].st = "gone"
        /\ [jobs[j] EXCEPT !.st = "gone", !.at = 0].errors = jobs[j].errors
    BY <2>1 DEF JobRecords
  <2> QED
    BY <1>1, <2>2, <2>3
<1>3. PICK n : n = Row(j, TRUE, TRUE)
  OBVIOUS
<1>4. Insert(n)
  BY <1>3 DEF Succeed
<1>5. n \in Rows /\ Ran(n)' /\ n.job = j /\ n.run = jobs[j].errors
  <2>1. jobs[j].errors \in Nat /\ jobs[j].at \in 0 .. MaxTime
    BY <1>1 DEF JobRecords
  <2>2. n \in Rows /\ n.job = j /\ n.run = jobs[j].errors
    BY <1>3, <2>1 DEF Row, Rows
  <2> QED
    BY <1>2, <2>1, <2>2 DEF Ran
<1>6. \A r \in Rows : Ran(r) => Ran(r)' /\ ~SameRun(r, n)
  <2> SUFFICES ASSUME NEW r \in Rows, Ran(r) PROVE Ran(r)' /\ ~SameRun(r, n)
    OBVIOUS
  <2>1. r.job \in Jobs
    BY DEF Rows
  <2> QED
    BY <1>1, <1>2, <1>5, <2>1 DEF Ran, SameRun
<1>7. \A i \in Jobs : /\ jobs'[i].errors <= MaxRuns
                      /\ jobs'[i].st = "running" => jobs'[i].errors < MaxRuns
  BY <1>1, <1>2 DEF TablesOK
<1>8. TablesOK' /\ history' = history \cup {n}
  <2>1. \A r \in history : Ran(r)' /\ ~SameRun(r, n)
    BY <1>1, <1>6 DEF TablesOK
  <2> QED
    BY <1>1, <1>2, <1>4, <1>5, <1>7, <2>1, InsertKeeps
<1>9. \A c \in Calls : \A r \in history' \ history : \A s \in cron[c].seen : ~SameRun(r, s)
  BY <1>6, <1>8 DEF WorldOK, CronOK, CronRecords, HasRead, SameRun
<1>10. OthersOK'
  BY <1>1 DEF OthersOK
<1> QED
  BY <1>1, <1>2, <1>6, <1>8, <1>9, <1>10, RunEnds

LEMMA FailRunStep ==
  ASSUME WorldOK, NEW j \in Jobs, FailRun(j), asked' = asked
  PROVE  WorldOK'
<1>1. /\ jobs \in [Jobs -> JobRecords] /\ TablesOK /\ OthersOK /\ history \subseteq Rows
      /\ jobs[j].st = "running" /\ UNCHANGED <<now, setting, vac>> /\ cron' = Ended(j)
      /\ jobs' = [jobs EXCEPT ![j].st = "pending", ![j].at = 0, ![j].errors = @ + 1]
      /\ jobs[j].errors < MaxRuns
  BY DEF WorldOK, TablesOK, FailRun
<1>2. /\ jobs' \in [Jobs -> JobRecords] /\ jobs'[j].st = "pending"
      /\ jobs'[j].errors = jobs[j].errors + 1 /\ \A i \in Jobs \ {j} : jobs'[i] = jobs[i]
  BY <1>1, BoundAssumption DEF JobRecords
<1>3. PICK finished \in BOOLEAN : Insert(Row(j, finished, FALSE))
  BY DEF FailRun
<1>4. PICK n : n = Row(j, finished, FALSE)
  OBVIOUS
<1>5. Insert(n)
  BY <1>3, <1>4
<1>6. /\ n \in Rows /\ Ran(n)' /\ n.job = j /\ n.run = jobs[j].errors
      /\ jobs[j].errors \in Nat
  <2>1. jobs[j].errors \in Nat /\ jobs[j].at \in 0 .. MaxTime
    BY <1>1 DEF JobRecords
  <2>2. n \in Rows /\ n.job = j /\ n.run = jobs[j].errors
    BY <1>4, <2>1 DEF Row, Rows
  <2> QED
    BY <1>2, <2>1, <2>2 DEF Ran
<1>7. \A r \in Rows : Ran(r) => Ran(r)' /\ ~SameRun(r, n)
  <2> SUFFICES ASSUME NEW r \in Rows, Ran(r) PROVE Ran(r)' /\ ~SameRun(r, n)
    OBVIOUS
  <2>1. r.job \in Jobs /\ r.run \in Nat
    BY DEF Rows
  <2> QED
    BY <1>1, <1>2, <1>6, <2>1 DEF Ran, SameRun
<1>8. \A i \in Jobs : /\ jobs'[i].errors <= MaxRuns
                      /\ jobs'[i].st = "running" => jobs'[i].errors < MaxRuns
  BY <1>1, <1>2, <1>6, BoundAssumption DEF TablesOK
<1>9. TablesOK' /\ history' = history \cup {n}
  <2>1. \A r \in history : Ran(r)' /\ ~SameRun(r, n)
    BY <1>1, <1>7 DEF TablesOK
  <2> QED
    BY <1>1, <1>2, <1>5, <1>6, <1>8, <2>1, InsertKeeps
<1>10. \A c \in Calls : \A r \in history' \ history : \A s \in cron[c].seen : ~SameRun(r, s)
  BY <1>7, <1>9 DEF WorldOK, CronOK, CronRecords, HasRead, SameRun
<1>11. OthersOK'
  BY <1>1 DEF OthersOK
<1> QED
  BY <1>1, <1>2, <1>7, <1>9, <1>10, <1>11, RunEnds

LEMMA CrashStep ==
  ASSUME WorldOK, NEW j \in Jobs, Crash(j), asked' = asked
  PROVE  WorldOK'
<1>1. /\ jobs \in [Jobs -> JobRecords] /\ TablesOK /\ OthersOK /\ history \subseteq Rows
      /\ jobs[j].st = "running" /\ UNCHANGED <<now, history, dead, setting, vac>>
  BY DEF WorldOK, TablesOK, Crash
<1>2. /\ jobs' \in [Jobs -> JobRecords] /\ jobs'[j].st = "pending"
      /\ jobs'[j].errors = jobs[j].errors /\ \A i \in Jobs \ {j} : jobs'[i] = jobs[i]
  <2>1. 0 \in 0 .. MaxTime /\ jobs[j] \in JobRecords
    BY <1>1, BoundAssumption
  <2>2. jobs' = [jobs EXCEPT ![j] = [jobs[j] EXCEPT !.st = "pending", !.at = 0]]
    BY <1>1 DEF Crash
  <2>3. /\ [jobs[j] EXCEPT !.st = "pending", !.at = 0] \in JobRecords
        /\ [jobs[j] EXCEPT !.st = "pending", !.at = 0].st = "pending"
        /\ [jobs[j] EXCEPT !.st = "pending", !.at = 0].errors = jobs[j].errors
    BY <2>1 DEF JobRecords
  <2> QED
    BY <1>1, <2>2, <2>3
<1>3. \A r \in Rows : Ran(r) => Ran(r)'
  <2> SUFFICES ASSUME NEW r \in Rows, Ran(r) PROVE Ran(r)'
    OBVIOUS
  <2>1. r.job \in Jobs
    BY DEF Rows
  <2> QED
    BY <1>1, <1>2, <2>1 DEF Ran
<1>4. \A i \in Jobs : /\ jobs'[i].errors <= MaxRuns
                      /\ jobs'[i].st = "running" => jobs'[i].errors < MaxRuns
  BY <1>1, <1>2 DEF TablesOK
<1>5. TablesOK'
  BY <1>1, <1>2, <1>3, <1>4, TablesKeep DEF TablesOK
<1>6. OthersOK' /\ history' \ history = {}
  BY <1>1 DEF OthersOK
<1>7. CASE cron' = Ended(j)
  BY <1>1, <1>2, <1>3, <1>5, <1>6, <1>7, RunEnds
<1>8. ASSUME NEW n \in 1 .. MaxLost, j \in CronJobs, cron' = Lost(j, n) PROVE WorldOK'
  BY <1>1, <1>2, <1>3, <1>5, <1>6, <1>8, CallLost
<1> QED
  BY <1>7, <1>8 DEF Crash

LEMMA TickStep ==
  ASSUME WorldOK, Tick, asked' = asked
  PROVE  WorldOK'
<1>1. TablesOK /\ OthersOK /\ cron \in [Calls -> CronRecords]
  BY DEF WorldOK
<1>2. /\ now < MaxTime /\ now' = now + 1 /\ now \in 0 .. MaxTime
      /\ UNCHANGED <<jobs, history, dead, setting, cron, vac>>
  BY <1>1 DEF Tick, OthersOK, tables
<1>3. TablesOK' /\ \A r \in Rows : Ran(r) => Ran(r)'
  BY <1>1, <1>2 DEF TablesOK, Ran, SameRun
<1>4. OthersOK' /\ now' >= now
  BY <1>1, <1>2, BoundAssumption DEF OthersOK
<1> QED
  BY <1>1, <1>2, <1>3, <1>4, AllRunsKeep

-----------------------------------------------------------------------------
(* The daily job.                                                          *)

(* What a statement that deletes rows does to the tables, *)
LEMMA RowsGo ==
  ASSUME WorldOK, NEW D \in SUBSET history, Delete(D),
         UNCHANGED <<now, jobs, setting, vac, asked>>
  PROVE  /\ TablesOK' /\ OthersOK' /\ now' >= now
         /\ history' = history \ D /\ history' \subseteq history
         /\ \A r \in Rows : Ran(r) => Ran(r)'
<1>1. TablesOK /\ OthersOK /\ now \in Int
  BY DEF WorldOK, OthersOK
<1>2. TablesOK' /\ history' = history \ D
  BY <1>1, DeleteKeeps
<1>3. OthersOK' /\ now' >= now
  BY <1>1 DEF OthersOK
<1> QED
  BY <1>2, <1>3 DEF Ran

(* and one that deletes none.                                              *)
LEMMA NoRowsGo ==
  ASSUME WorldOK, history' = history, dead' \in 0 .. MaxDead,
         UNCHANGED <<now, jobs, vac>>, setting' \in Crons, asked' \in 0 .. MaxRequests
  PROVE  /\ TablesOK' /\ OthersOK' /\ now' >= now
         /\ \A r \in Rows : Ran(r) => Ran(r)'
<1>1. TablesOK /\ OthersOK /\ now \in Int
  BY DEF WorldOK, OthersOK
<1>2. \A r \in Rows : Ran(r) => Ran(r)'
  BY DEF Ran
<1>3. TablesOK'
  BY <1>1, <1>2 DEF TablesOK, SameRun
<1> QED
  BY <1>1, <1>2, <1>3 DEF OthersOK

LEMMA GoesOn ==
  ASSUME cron \in [Calls -> CronRecords], NEW c \in Calls,
         NEW step \in {"setting", "entries", "age", "size"}, NEW failed \in BOOLEAN,
         GoOn(c, step, failed)
  PROVE  /\ cron' \in [Calls -> CronRecords]
         /\ cron'[c].step = StepAfter(step) /\ cron'[c].set = cron[c].set
         /\ cron'[c].seen = cron[c].seen /\ cron'[c].at = cron[c].at
         /\ cron'[c].failed = IF failed THEN cron[c].failed \cup {step} ELSE cron[c].failed
         /\ \A d \in Calls \ {c} : cron'[d] = cron[d]
<1> DEFINE fs == IF failed THEN cron[c].failed \cup {step} ELSE cron[c].failed
           new == [cron[c] EXCEPT !.step = StepAfter(step), !.failed = fs]
<1>1. cron[c] \in CronRecords
  OBVIOUS
<1>2. fs \in SUBSET {"setting", "entries", "age", "size"}
  BY <1>1 DEF CronRecords
<1>3. StepAfter(step) \in {"entries", "age", "size", "end"}
  BY DEF StepAfter
<1>4. cron' = [cron EXCEPT ![c] = new]
  BY DEF GoOn
<1> HIDE DEF fs
<1>5. /\ new \in CronRecords /\ new.step = StepAfter(step) /\ new.failed = fs
      /\ new.set = cron[c].set /\ new.seen = cron[c].seen /\ new.at = cron[c].at
  BY <1>1, <1>2, <1>3 DEF CronRecords
<1> HIDE DEF new
<1> QED
  BY <1>4, <1>5 DEF fs

LEMMA ReadSettingStep ==
  ASSUME WorldOK, NEW c \in Calls, ReadSetting(c), asked' = asked
  PROVE  WorldOK'
<1>1. /\ cron \in [Calls -> CronRecords] /\ CronOK(c) /\ setting \in Crons /\ OthersOK
      /\ cron[c].step = "setting" /\ UNCHANGED <<now, jobs, history, dead, setting, vac>>
      /\ dead \in 0 .. MaxDead
  BY DEF WorldOK, OthersOK, TablesOK, ReadSetting, tables
<1>2. TablesOK' /\ OthersOK' /\ now' >= now /\ \A r \in Rows : Ran(r) => Ran(r)'
  <2>1. asked' \in 0 .. MaxRequests /\ setting' \in Crons /\ dead' \in 0 .. MaxDead
    BY <1>1 DEF OthersOK
  <2> QED
    BY <1>1, <2>1, NoRowsGo
<1>3. /\ cron' \in [Calls -> CronRecords] /\ \A d \in Calls \ {c} : cron'[d] = cron[d]
      /\ cron'[c].seen = cron[c].seen /\ cron'[c].at = cron[c].at
      /\ \/ cron'[c].step = "entries" /\ cron'[c].set = setting
         \/ cron'[c].step = "end" /\ cron'[c].set = None
  <2>1. cron[c] \in CronRecords /\ cron[c].set = None
    BY <1>1 DEF CronOK, HasRead
  <2>2. CASE cron' = [cron EXCEPT ![c].step = "entries", ![c].set = setting]
    BY <1>1, <2>1, <2>2 DEF CronRecords
  <2>3. CASE cron' = [cron EXCEPT ![c].step = "end", ![c].failed = {"setting"}]
    BY <1>1, <2>1, <2>3 DEF CronRecords
  <2> QED
    BY <2>2, <2>3 DEF ReadSetting
<1>4. CronOK(c)'
  <2>1. HasRead(c)'
    BY <1>1, <1>2, <1>3, NoneAssumption DEF CronOK, CronRecords, HasRead
  <2>2. KeptEntries(c)' /\ KeptAge(c)' /\ KeptSize(c)'
    BY <1>3 DEF KeptEntries, KeptAge, KeptSize
  <2> QED
    BY <1>3, <2>1, <2>2 DEF CronOK
<1>5. RunsOK'
  <2>1. \A d \in CronJobs : (cron'[<<d, 0>>].step # "none") = (cron[<<d, 0>>].step # "none")
    BY <1>1, <1>3, RunCall
  <2> QED
    BY <1>1, <2>1, RunsKeep DEF WorldOK
<1> QED
  BY <1>1, <1>2, <1>3, <1>4, <1>5, OtherRunsKeep

(* One of its three steps.                                                 *)
LEMMA StepKeeps ==
  ASSUME WorldOK, NEW c \in Calls, NEW step \in {"entries", "age", "size"},
         NEW failed \in BOOLEAN, cron[c].step = step, GoOn(c, step, failed),
         TablesOK', OthersOK', UNCHANGED <<now, jobs>>, history' \subseteq history,
         step = "entries" => KeptEntries(c)', step = "age" => KeptAge(c)',
         step = "size" => KeptSize(c)'
  PROVE  WorldOK'
<1>1. /\ cron \in [Calls -> CronRecords] /\ CronOK(c) /\ TablesOK
      /\ now \in Int /\ now' >= now
  BY DEF WorldOK, OthersOK
<1>2. /\ cron' \in [Calls -> CronRecords]
      /\ cron'[c].step = StepAfter(step) /\ cron'[c].set = cron[c].set
      /\ cron'[c].seen = cron[c].seen /\ cron'[c].at = cron[c].at
      /\ cron[c].failed \subseteq cron'[c].failed
      /\ \A d \in Calls \ {c} : cron'[d] = cron[d]
  BY <1>1, GoesOn
<1>3. \A r \in Rows : Ran(r) => Ran(r)'
  BY DEF Ran
<1>4. LeftRows(c)' \subseteq LeftRows(c)
  BY <1>2 DEF LeftRows, SameRun
<1>5. HasRead(c)'
  <2>1. cron[c].seen \subseteq Rows
    BY <1>1 DEF CronRecords
  <2>2. \A r \in cron'[c].seen : Ran(r)'
    BY <1>1, <1>2, <1>3, <2>1 DEF CronOK, HasRead
  <2>3. cron'[c].step \in {"age", "size", "end"}
    BY <1>2 DEF StepAfter
  <2>4. cron'[c].set # None /\ cron'[c].at <= now'
    BY <1>1, <1>2 DEF CronOK, HasRead
  <2> QED
    BY <2>2, <2>3, <2>4 DEF HasRead
<1>6. /\ step \in {"age", "size"} => KeptEntries(c)'
      /\ step = "size" => KeptAge(c)'
  BY <1>1, <1>2, <1>4, KeptOn
<1>7. KeptEntries(c)' /\ KeptAge(c)' /\ KeptSize(c)'
  <2>1. /\ step = "entries" => KeptAge(c)'
        /\ step \in {"entries", "age"} => KeptSize(c)'
    BY <1>2 DEF KeptAge, KeptSize, StepAfter
  <2> QED
    BY <1>6, <2>1
<1>8. CronOK(c)'
  BY <1>2, <1>5, <1>7 DEF CronOK
<1>9. RunsOK'
  <2>1. cron'[c].step # "none" /\ cron[c].step # "none"
    BY <1>2 DEF StepAfter
  <2>2. \A d \in CronJobs : (cron'[<<d, 0>>].step # "none") = (cron[<<d, 0>>].step # "none")
    BY <1>2, <2>1, RunCall
  <2> QED
    BY <2>2, RunsKeep DEF WorldOK
<1> QED
  BY <1>1, <1>2, <1>3, <1>8, <1>9, OtherRunsKeep

(* No step: what is switched off, or has failed, has nothing to keep.      *)
LEMMA NoStepKeeps ==
  ASSUME WorldOK, NEW c \in Calls, NEW step \in {"entries", "age", "size"},
         NEW failed \in BOOLEAN, cron[c].step = step, GoOn(c, step, failed),
         failed \/ cron[c].set[step] = Off,
         UNCHANGED <<now, tables, setting, vac, asked>>
  PROVE  WorldOK'
<1>1. /\ cron \in [Calls -> CronRecords]
      /\ setting \in Crons /\ asked \in 0 .. MaxRequests /\ dead \in 0 .. MaxDead
      /\ UNCHANGED <<now, jobs, history, dead, setting, vac, asked>>
  BY DEF WorldOK, TablesOK, OthersOK, tables
<1>2. TablesOK' /\ OthersOK'
  BY <1>1, NoRowsGo
<1>3. /\ cron'[c].set = cron[c].set
      /\ cron'[c].failed = IF failed THEN cron[c].failed \cup {step} ELSE cron[c].failed
  <2>1. step \in {"setting", "entries", "age", "size"}
    OBVIOUS
  <2> QED
    BY <1>1, <2>1, GoesOn
<1>4. step = "entries" => KeptEntries(c)'
  BY <1>3 DEF KeptEntries
<1>5. step = "age" => KeptAge(c)'
  BY <1>3 DEF KeptAge
<1>6. step = "size" => KeptSize(c)'
  BY <1>3 DEF KeptSize
<1> QED
  BY <1>1, <1>2, <1>4, <1>5, <1>6, StepKeeps

LEMMA SkipStep ==
  ASSUME WorldOK, NEW c \in Calls, Skip(c), asked' = asked
  PROVE  WorldOK'
<1>1. PICK step \in {"entries", "age", "size"} : step = cron[c].step
  BY DEF Skip
<1>2. cron[c].set[step] = Off /\ GoOn(c, step, FALSE)
  BY <1>1 DEF Skip
<1>3. UNCHANGED <<now, tables, setting, vac, asked>>
  BY DEF Skip
<1> QED
  BY <1>1, <1>2, <1>3, NoStepKeeps

LEMMA StepFailsStep ==
  ASSUME WorldOK, NEW c \in Calls, StepFails(c), asked' = asked
  PROVE  WorldOK'
<1>1. PICK step \in {"entries", "age", "size"} :
        /\ Doing(c, step) /\ GoOn(c, step, TRUE) /\ UNCHANGED <<history, dead>>
  BY DEF StepFails
<1>2. UNCHANGED <<now, tables, setting, vac, asked>> /\ cron[c].step = step
  BY <1>1 DEF Doing, tables
<1> QED
  BY <1>1, <1>2, NoStepKeeps

LEMMA TruncateHistoryEntriesStep ==
  ASSUME WorldOK, NEW c \in Calls, TruncateHistoryEntries(c), asked' = asked
  PROVE  WorldOK'
<1>1. /\ cron \in [Calls -> CronRecords] /\ TablesOK /\ CronOK(c) /\ IsFiniteSet(history)
      /\ history \subseteq Rows
  BY DEF WorldOK, TablesOK
<1>2. /\ Doing(c, "entries") /\ GoOn(c, "entries", FALSE) /\ cron[c].step = "entries"
      /\ UNCHANGED <<now, jobs, setting, vac, asked>>
  BY DEF TruncateHistoryEntries, Doing
<1>3. cron[c].set \in Crons /\ cron[c].set.entries \in Nat
  <2>1. cron[c].set \in Crons
    BY <1>1, <1>2 DEF CronOK, CronRecords, HasRead
  <2>2. cron[c].set.entries # Off
    BY <1>2 DEF Doing
  <2> QED
    BY <2>1, <2>2, SettingAssumption
<1>4. PICK k \in Nat : k = cron[c].set.entries
  BY <1>3
<1>5. PICK D \in SUBSET history : D = Beyond(k)
  BY DEF Beyond, Finished
<1>6. Delete(D)
  BY <1>4, <1>5 DEF TruncateHistoryEntries
<1>7. TablesOK' /\ OthersOK' /\ history' = history \ D /\ history' \subseteq history
  BY <1>2, <1>6, RowsGo
<1>8. cron'[c].set = cron[c].set
  BY <1>1, <1>2, GoesOn
<1>9. KeptEntries(c)'
  <2>1. Cardinality(Finished \ D) <= k
    BY <1>1, <1>5, BeyondLeaves
  <2>2. PICK S : S = Finished \ D
    OBVIOUS
  <2>3. S \in SUBSET history
    BY <2>2 DEF Finished
  <2>4. IsFiniteSet(S) /\ Cardinality(S) \in Nat
    BY <1>1, <2>3, HistoryFinite
  <2>5. PICK T : T = (LeftRows(c) \cap Finished)'
    OBVIOUS
  <2>6. T \subseteq S
    BY <1>7, <2>2, <2>5 DEF LeftRows, Finished
  <2>7. Cardinality(T) <= Cardinality(S) /\ IsFiniteSet(T)
    BY <2>4, <2>6, FS_Subset
  <2>8. Cardinality(T) \in Nat
    BY <2>7, FS_CardinalityType
  <2>9. Cardinality(T) <= k
    BY <2>1, <2>2, <2>4, <2>7, <2>8
  <2> QED
    BY <1>4, <1>8, <2>5, <2>9 DEF KeptEntries
<1> QED
  BY <1>1, <1>2, <1>7, <1>9, StepKeeps

LEMMA PruneHistoryStep ==
  ASSUME WorldOK, NEW c \in Calls, PruneHistory(c), asked' = asked
  PROVE  WorldOK'
<1>1. /\ cron \in [Calls -> CronRecords] /\ TablesOK /\ CronOK(c)
      /\ history \subseteq Rows /\ now \in Int
  BY DEF WorldOK, TablesOK, OthersOK
<1>2. /\ Doing(c, "age") /\ GoOn(c, "age", FALSE) /\ cron[c].step = "age"
      /\ UNCHANGED <<now, jobs, setting, vac, asked>>
  BY DEF PruneHistory, Doing
<1>3. cron[c].set \in Crons /\ cron[c].set.age \in Nat
  <2>1. cron[c].set \in Crons
    BY <1>1, <1>2 DEF CronOK, CronRecords, HasRead
  <2>2. cron[c].set.age # Off
    BY <1>2 DEF Doing
  <2> QED
    BY <2>1, <2>2, SettingAssumption
<1>4. PICK days \in Nat : days = cron[c].set.age
  BY <1>3
<1>5. PICK D \in SUBSET history : D = {r \in history : r.at <= Before(days)}
  OBVIOUS
<1>6. Delete(D)
  BY <1>4, <1>5 DEF PruneHistory
<1>7. TablesOK' /\ OthersOK' /\ history' = history \ D /\ history' \subseteq history
  BY <1>2, <1>6, RowsGo
<1>8. cron'[c].set = cron[c].set /\ cron'[c].at = cron[c].at
  BY <1>1, <1>2, GoesOn
<1>9. KeptAge(c)'
  <2>1. PICK x : x = days * TimeDay
    OBVIOUS
  <2>2. x \in Nat
    BY <2>1, BoundAssumption
  <2>3. SUFFICES ASSUME x < Half, NEW r \in history', r \in LeftRows(c)'
                 PROVE  cron[c].at - r.at < x
    BY <1>4, <1>8, <2>1 DEF KeptAge, LeftRows
  <2>4. -days * TimeDay = -x /\ -x \in Int /\ -Half <= -x /\ -x < Half
    BY <2>1, <2>2, <2>3, BoundAssumption
  <2>5. Before(days) = now - x
    <3>1. Wrap(-x) = -x
      BY <2>4, WrapBound
    <3> QED
      BY <1>1, <2>2, <2>4, <3>1 DEF Before
  <2>6. r \in history /\ ~(r.at <= now - x) /\ r.at \in Int
    <3>1. r \in history /\ r \notin D
      BY <1>7, <2>3
    <3>2. r.at \in Int
      BY <1>1, <3>1 DEF Rows
    <3> QED
      BY <1>5, <2>5, <3>1, <3>2
  <2>7. cron[c].at <= now /\ cron[c].at \in Int
    BY <1>1 DEF CronOK, HasRead, CronRecords
  <2> QED
    BY <1>1, <2>2, <2>6, <2>7
<1> QED
  BY <1>1, <1>2, <1>7, <1>9, StepKeeps

(* The table fits into the limit, or the cut-off keeps nothing.            *)
LEMMA SizeReached ==
  ASSUME TablesOK, NEW value \in Nat, value * GB < Half
  PROVE  SizeOffset(value) = 0 \/ Cardinality(Finished) + Empty <= value * GB
<1> DEFINE limit == value * GB
           F == Cardinality(Finished)
           H == Cardinality(history)
<1>1. limit \in Nat /\ limit < Half /\ -Half <= limit
  BY BoundAssumption
<1>2. /\ Finished \in SUBSET history /\ IsFiniteSet(Finished) /\ F \in Nat
      /\ H \in Nat /\ F <= H
  BY FS_Subset, FS_CardinalityType DEF TablesOK, Finished
<1>3. dead \in Nat /\ Empty \in Nat \ {0}
  BY BoundAssumption DEF TablesOK
<1>4. Size \in Nat \ {0} /\ Size >= Empty + F
  BY <1>2, <1>3 DEF Size
<1>5. Wrap(limit) = limit
  BY <1>1, WrapBound
<1> HIDE DEF limit, F, H
<1>6. CASE limit < Size
  <2>1. Quotient(limit, Size) = 0
    BY <1>1, <1>4, <1>6 DEF Quotient
  <2>2. Quotient(Wrap(limit), Size) * F * 9 = 0
    BY <1>2, <1>5, <2>1
  <2>3. 0 \div 10 = 0
    OBVIOUS
  <2> QED
    BY <2>2, <2>3 DEF SizeOffset, limit, F
<1>7. CASE ~(limit < Size)
  BY <1>1, <1>2, <1>3, <1>4, <1>7 DEF limit, F
<1> QED
  BY <1>6, <1>7

LEMMA TruncateHistorySizeStep ==
  ASSUME WorldOK, NEW c \in Calls, TruncateHistorySize(c), asked' = asked
  PROVE  WorldOK'
<1>1. /\ cron \in [Calls -> CronRecords] /\ TablesOK /\ CronOK(c) /\ IsFiniteSet(history)
      /\ history \subseteq Rows
  BY DEF WorldOK, TablesOK
<1>2. /\ Doing(c, "size") /\ GoOn(c, "size", FALSE) /\ cron[c].step = "size"
      /\ UNCHANGED <<now, jobs, setting, vac, asked>>
  BY DEF TruncateHistorySize, Doing
<1>3. cron[c].set \in Crons /\ cron[c].set.size \in Nat
  <2>1. cron[c].set \in Crons
    BY <1>1, <1>2 DEF CronOK, CronRecords, HasRead
  <2>2. cron[c].set.size # Off
    BY <1>2 DEF Doing
  <2> QED
    BY <2>1, <2>2, SettingAssumption
<1>4. PICK value \in Nat : value = cron[c].set.size
  BY <1>3
<1>5. PICK D \in SUBSET history : D = Beyond(SizeOffset(value))
  BY DEF Beyond, Finished
<1>6. Delete(D)
  BY <1>4, <1>5 DEF TruncateHistorySize
<1>7. TablesOK' /\ OthersOK' /\ history' = history \ D /\ history' \subseteq history
  BY <1>2, <1>6, RowsGo
<1>8. cron'[c].set = cron[c].set
  BY <1>1, <1>2, GoesOn
<1>9. KeptSize(c)'
  <2> SUFFICES ASSUME value * GB < Half
               PROVE  \/ (LeftRows(c) \cap Finished)' = {}
                      \/ Cardinality((LeftRows(c) \cap Finished)') + Empty <= value * GB
    BY <1>4, <1>8 DEF KeptSize
  <2>1. PICK S : S = Finished \ D
    OBVIOUS
  <2>2. PICK T : T = (LeftRows(c) \cap Finished)'
    OBVIOUS
  <2>3. S \subseteq Finished /\ Finished \in SUBSET history
    BY <2>1 DEF Finished
  <2>4. T \subseteq S
    BY <1>7, <2>1, <2>2 DEF LeftRows, Finished
  <2>5. /\ IsFiniteSet(Finished) /\ Cardinality(Finished) \in Nat
        /\ IsFiniteSet(S) /\ Cardinality(S) \in Nat
        /\ IsFiniteSet(T) /\ Cardinality(T) \in Nat
        /\ Cardinality(T) <= Cardinality(S) /\ Cardinality(T) <= Cardinality(Finished)
    BY <1>1, <2>3, <2>4, FS_Subset, FS_CardinalityType
  <2>6. CASE SizeOffset(value) = 0
    <3>1. Cardinality(S) <= 0
      BY <1>1, <1>5, <2>1, <2>6, BeyondLeaves
    <3>2. Cardinality(T) = 0
      BY <2>5, <3>1
    <3>3. T = {}
      BY <2>5, <3>2, FS_EmptySet
    <3> QED
      BY <2>2, <3>3
  <2>7. CASE Cardinality(Finished) + Empty <= value * GB
    <3>1. PICK limit \in Int : limit = value * GB
      BY BoundAssumption
    <3>2. Cardinality(T) + Empty <= limit
      BY <2>5, <2>7, <3>1, BoundAssumption
    <3> QED
      BY <2>2, <3>1, <3>2
  <2> QED
    BY <1>1, <2>6, <2>7, SizeReached
<1> QED
  BY <1>1, <1>2, <1>7, <1>9, StepKeeps

LEMMA LostReturnsStep ==
  ASSUME WorldOK, NEW c \in Calls, LostReturns(c), asked' = asked
  PROVE  WorldOK'
<1>1. /\ cron \in [Calls -> CronRecords] /\ setting \in Crons /\ OthersOK
      /\ c[2] # 0 /\ cron' = [cron EXCEPT ![c] = NoCron]
      /\ UNCHANGED <<now, jobs, history, dead, setting, vac>>
      /\ dead \in 0 .. MaxDead
  BY DEF WorldOK, OthersOK, TablesOK, LostReturns, tables
<1>2. TablesOK' /\ OthersOK' /\ now' >= now /\ \A r \in Rows : Ran(r) => Ran(r)'
  <2>1. asked' \in 0 .. MaxRequests /\ setting' \in Crons /\ dead' \in 0 .. MaxDead
    BY <1>1 DEF OthersOK
  <2> QED
    BY <1>1, <2>1, NoRowsGo
<1>3. NoCron \in CronRecords
  BY BoundAssumption DEF NoCron, CronRecords
<1>4. /\ cron' \in [Calls -> CronRecords] /\ cron'[c] = NoCron
      /\ \A d \in Calls \ {c} : cron'[d] = cron[d]
  BY <1>1, <1>3
<1>5. CronOK(c)'
  BY <1>2, <1>4, NoCronOK DEF OthersOK
<1>6. RunsOK'
  <2>1. ASSUME NEW d \in CronJobs PROVE <<d, 0>> \in Calls \ {c}
    <3>1. <<d, 0>>[2] = 0
      OBVIOUS
    <3> QED
      BY <1>1, <3>1, RunCall
  <2> QED
    BY <1>1, <1>4, <2>1, RunsKeep DEF WorldOK
<1> QED
  BY <1>1, <1>2, <1>4, <1>5, <1>6, OtherRunsKeep

-----------------------------------------------------------------------------
(* The requests of an administrator, and all changes.                      *)

LEMMA RunsStay ==
  ASSUME WorldOK, TablesOK', OthersOK', now' >= now, cron' = cron,
         \A j \in Jobs : (jobs'[j].st = "running") = (jobs[j].st = "running"),
         history' \subseteq history,
         \A r \in Rows : Ran(r) => Ran(r)'
  PROVE  WorldOK'
<1>1. history' \ history = {}
  OBVIOUS
<1>2. \A c \in CronJobs : (jobs'[c].st = "running") = (jobs[c].st = "running")
  BY JobAssumption
<1> QED
  BY <1>1, <1>2, AllRunsKeep

LEMMA DeleteJobStep ==
  ASSUME WorldOK, NEW j \in Jobs, DeleteJob(j), asked' \in 0 .. MaxRequests
  PROVE  WorldOK'
<1>1. /\ jobs \in [Jobs -> JobRecords] /\ TablesOK /\ OthersOK /\ history \subseteq Rows
      /\ now \in Int /\ jobs[j].st = "pending" /\ jobs' = [jobs EXCEPT ![j].st = "gone"]
      /\ UNCHANGED <<now, history, dead, setting, cron, vac>>
  BY DEF WorldOK, TablesOK, OthersOK, DeleteJob
<1>2. /\ jobs' \in [Jobs -> JobRecords] /\ jobs'[j].st = "gone"
      /\ jobs'[j].errors = jobs[j].errors /\ \A i \in Jobs \ {j} : jobs'[i] = jobs[i]
  BY <1>1 DEF JobRecords
<1>3. \A r \in Rows : Ran(r) => Ran(r)'
  <2> SUFFICES ASSUME NEW r \in Rows, Ran(r) PROVE Ran(r)'
    OBVIOUS
  <2>1. r.job \in Jobs
    BY DEF Rows
  <2> QED
    BY <1>1, <1>2, <2>1 DEF Ran
<1>4. \A i \in Jobs : /\ jobs'[i].errors <= MaxRuns
                      /\ jobs'[i].st = "running" => jobs'[i].errors < MaxRuns
  BY <1>1, <1>2 DEF TablesOK
<1>5. TablesOK'
  BY <1>1, <1>2, <1>3, <1>4, TablesKeep DEF TablesOK
<1>6. OthersOK' /\ now' >= now
  BY <1>1 DEF OthersOK
<1>7. \A i \in Jobs : (jobs'[i].st = "running") = (jobs[i].st = "running")
  BY <1>1, <1>2
<1> QED
  BY <1>1, <1>3, <1>5, <1>6, <1>7, RunsStay

LEMMA DeleteHistoryStep ==
  ASSUME WorldOK, NEW days \in Days, DeleteHistory(days), asked' \in 0 .. MaxRequests
  PROVE  WorldOK'
<1>1. UNCHANGED <<now, jobs, setting, cron, vac>> /\ TablesOK /\ OthersOK /\ now \in Int
  BY DEF DeleteHistory, WorldOK, OthersOK
<1>2. PICK D \in SUBSET history : D = {r \in history : r.at <= Before(days)}
  OBVIOUS
<1>3. Delete(D)
  BY <1>2 DEF DeleteHistory
<1>4. TablesOK' /\ history' = history \ D
  BY <1>1, <1>3, DeleteKeeps
<1>5. OthersOK' /\ now' >= now
  BY <1>1 DEF OthersOK
<1>6. \A r \in Rows : Ran(r) => Ran(r)'
  BY <1>1 DEF Ran
<1> QED
  BY <1>1, <1>4, <1>5, <1>6, RunsStay

(* A request that leaves jobs and history as they are.                     *)
LEMMA NothingGoes ==
  ASSUME WorldOK, UNCHANGED <<now, jobs, history, cron>>, dead' \in 0 .. MaxDead,
         setting' \in Crons, vac' \in Tables \cup {None}, asked' \in 0 .. MaxRequests
  PROVE  WorldOK'
<1>1. TablesOK /\ OthersOK /\ now \in Int
  BY DEF WorldOK, OthersOK
<1>2. \A r \in Rows : Ran(r) => Ran(r)'
  BY DEF Ran
<1>3. TablesOK'
  BY <1>1, <1>2 DEF TablesOK, SameRun
<1>4. OthersOK' /\ now' >= now
  BY <1>1 DEF OthersOK
<1> QED
  BY <1>2, <1>3, <1>4, RunsStay

LEMMA PruneHistoryPayloadStep ==
  ASSUME WorldOK, NEW q \in Queues, NEW days \in Days, PruneHistoryPayload(q, days),
         asked' \in 0 .. MaxRequests
  PROVE  WorldOK'
<1>1. PICK old \in SUBSET history : old = {r \in history : QueueOf[r.job] = q /\ r.at <= Before(days)}
  OBVIOUS
<1>2. /\ dead' = Smaller(MaxDead, dead + Cardinality(old))
      /\ UNCHANGED <<now, jobs, history, setting, cron, vac>>
  BY <1>1 DEF PruneHistoryPayload
<1>3. Cardinality(old) \in Nat /\ dead \in 0 .. MaxDead /\ setting \in Crons /\ vac \in Tables \cup {None}
  BY HistoryFinite DEF WorldOK, TablesOK, OthersOK
<1>4. dead' \in 0 .. MaxDead
  BY <1>2, <1>3, BoundAssumption DEF Smaller
<1> QED
  BY <1>2, <1>3, <1>4, NothingGoes

LEMMA RequestStep ==
  ASSUME WorldOK, Administrate
  PROVE  WorldOK'
<1>1. /\ dead \in 0 .. MaxDead /\ setting \in Crons /\ vac \in Tables \cup {None}
      /\ asked \in 0 .. MaxRequests
  BY DEF WorldOK, TablesOK, OthersOK
<1>2. asked' \in 0 .. MaxRequests
  BY <1>1, BoundAssumption DEF Administrate
<1>3. ASSUME NEW s \in Crons, SaveSetting(s) PROVE WorldOK'
  BY <1>1, <1>2, <1>3, NothingGoes DEF SaveSetting, tables
<1>4. ASSUME NEW table \in Tables, VacuumJobTable(table) PROVE WorldOK'
  BY <1>1, <1>2, <1>4, NothingGoes DEF VacuumJobTable, tables
<1>5. CASE Vacuumed
  <2>1. dead' \in 0 .. MaxDead /\ vac' = None
    BY <1>1, <1>5, BoundAssumption DEF Vacuumed
  <2> QED
    BY <1>1, <1>2, <1>5, <2>1, NothingGoes DEF Vacuumed
<1>6. CASE VacuumCancelled
  BY <1>1, <1>2, <1>6, NothingGoes DEF VacuumCancelled, tables
<1>7. CASE Request
  BY <1>2, <1>3, <1>4, <1>7, DeleteJobStep, DeleteHistoryStep, PruneHistoryPayloadStep DEF Request
<1> QED
  BY <1>5, <1>6, <1>7 DEF Administrate

LEMMA ChangeStep ==
  ASSUME WorldOK, Change
  PROVE  WorldOK'
<1>1. CASE Work /\ asked' = asked
  BY <1>1, TakeStep, SucceedStep, FailRunStep, CrashStep, TickStep DEF Work
<1>2. ASSUME NEW new \in SUBSET Jobs, ScheduleJobs(new), asked' = asked PROVE WorldOK'
  BY <1>2, ScheduleJobsStep
<1>3. ASSUME NEW c \in Calls, Cron(c) \/ LostReturns(c), asked' = asked PROVE WorldOK'
  BY <1>3, LostReturnsStep, ReadSettingStep, SkipStep, StepFailsStep, TruncateHistoryEntriesStep,
     PruneHistoryStep, TruncateHistorySizeStep DEF Cron
<1> QED
  BY <1>1, <1>2, <1>3, RequestStep DEF Change

LEMMA WorldStays ==
  ASSUME WorldOK, UNCHANGED World
  PROVE  WorldOK'
<1>1. /\ dead \in 0 .. MaxDead /\ setting \in Crons /\ vac \in Tables \cup {None}
      /\ asked \in 0 .. MaxRequests
  BY DEF WorldOK, TablesOK, OthersOK
<1> QED
  BY <1>1, NothingGoes DEF World, tables

LEMMA WorldInit ==
  ASSUME AdminInit
  PROVE  WorldOK
<1>1. 0 \in Nat /\ 0 \in 0 .. MaxTime /\ 0 \in 0 .. MaxDead /\ 0 \in 0 .. MaxRequests
  BY BoundAssumption
<1>2. /\ jobs = [j \in Jobs |-> [st |-> "unborn", errors |-> 0, at |-> 0]]
      /\ history = {} /\ dead = 0 /\ now = 0 /\ asked = 0 /\ vac = None
      /\ cron = [c \in Calls |-> NoCron]
  BY DEF AdminInit
<1>3. TablesOK
  <2>1. jobs \in [Jobs -> JobRecords]
    BY <1>1, <1>2 DEF JobRecords
  <2>2. IsFiniteSet(history)
    BY <1>2, FS_EmptySet
  <2> QED
    BY <1>1, <1>2, <2>1, <2>2, BoundAssumption DEF TablesOK
<1>4. OthersOK
  <2>1. setting \in Crons
    BY SettingAssumption DEF AdminInit
  <2> QED
    BY <1>1, <1>2, <2>1 DEF OthersOK
<1>5. NoCron \in CronRecords /\ NoCron.step = "none"
  BY <1>1 DEF NoCron, CronRecords
<1>6. cron \in [Calls -> CronRecords] /\ \A c \in Calls : cron[c] = NoCron
  BY <1>2, <1>5
<1>7. RunsOK
  BY <1>2, <1>5, <1>6, JobAssumption, RunCall DEF RunsOK
<1>8. \A c \in Calls : CronOK(c)
  <2>1. NoCron.set = None /\ NoCron.at = 0 /\ NoCron.seen = {}
    BY DEF NoCron
  <2> QED
    BY <1>2, <1>5, <1>6, <2>1 DEF CronOK, HasRead, KeptEntries, KeptAge, KeptSize
<1> QED
  BY <1>3, <1>4, <1>6, <1>7, <1>8 DEF WorldOK

-----------------------------------------------------------------------------
(* Why a row of the history goes.                                          *)

Pruned(r) == \A s \in history' : ~SameRun(r, s)

Justified(r) ==
  /\ last'.op # "age" => r.finished
  /\ CASE last'.op = "age" ->
            last'.value * TimeDay < Half => now - r.at >= last'.value * TimeDay
       [] last'.op = "entries" -> Others(r) >= last'.value
       [] last'.op = "size" ->
            last'.value * GB < Half =>
              \/ Size > last'.value * GB
              \/ 10 * (Others(r) + 1) > 9 * Cardinality(Finished)

LEMMA AgeJustified ==
  ASSUME WorldOK, NEW days \in Int, NEW r \in history, r.at <= Before(days),
         Pruning("age", days)
  PROVE  Justified(r)
<1>1. last' = [op |-> "age", value |-> days, size |-> Size]
  BY DEF Pruning
<1>2. now \in Int /\ r.at \in Int
  BY DEF WorldOK, OthersOK, TablesOK, Rows
<1>3. PICK x : x = days * TimeDay
  OBVIOUS
<1>4. x \in Int /\ -days * TimeDay = -x /\ -x \in Int
  BY <1>3, BoundAssumption
<1>5. ASSUME x < Half PROVE now - r.at >= x
  <2>1. -Half <= -x
    BY <1>4, <1>5, BoundAssumption
  <2>2. PICK w : w = Wrap(-x)
    OBVIOUS
  <2>3. w \in Int /\ w <= -x
    BY <1>4, <2>1, <2>2, WrapBound
  <2>4. Before(days) = now + w
    BY <1>4, <2>2 DEF Before
  <2> QED
    BY <1>2, <1>4, <2>3, <2>4
<1> QED
  BY <1>1, <1>3, <1>5 DEF Justified

LEMMA EntriesJustified ==
  ASSUME WorldOK, NEW k \in Nat, NEW r \in Beyond(k), Pruning("entries", k)
  PROVE  Justified(r)
<1>1. last' = [op |-> "entries", value |-> k, size |-> Size]
  BY DEF Pruning
<1>2. r \in Finished /\ Others(r) >= k
  BY BeyondOthers DEF WorldOK, TablesOK
<1>3. r.finished
  BY <1>2 DEF Finished
<1> QED
  BY <1>1, <1>2, <1>3 DEF Justified

LEMMA SizeJustified ==
  ASSUME WorldOK, NEW value \in Nat, SizeOffset(value) >= 0,
         NEW r \in Beyond(SizeOffset(value)), Pruning("size", value)
  PROVE  Justified(r)
<1>1. last' = [op |-> "size", value |-> value, size |-> Size]
  BY DEF Pruning
<1>2. IsFiniteSet(history) /\ history \subseteq Rows
  BY DEF WorldOK, TablesOK
<1>3. PICK limit, n, size : limit = value * GB /\ n = Cardinality(Finished) /\ size = Size
  OBVIOUS
<1>4. limit \in Nat /\ n \in Nat
  <2>1. Finished \in SUBSET history
    BY DEF Finished
  <2> QED
    BY <1>2, <1>3, <2>1, HistoryFinite, BoundAssumption
<1>5. size \in Nat /\ size > 0
  <2>1. Cardinality(history) \in Nat /\ dead \in Nat
    BY <1>2, FS_CardinalityType, BoundAssumption DEF WorldOK, TablesOK
  <2> QED
    BY <1>3, <2>1, BoundAssumption DEF Size
<1>6. PICK wrapped : wrapped = Wrap(limit)
  OBVIOUS
<1>7. wrapped \in Int /\ (limit < Half => wrapped = limit)
  <2>1. -Half <= limit
    BY <1>4, BoundAssumption
  <2> QED
    BY <1>4, <1>6, <2>1, WrapBound
<1>8. PICK q : q = Quotient(wrapped, size)
  OBVIOUS
<1>9. q \in Int /\ (wrapped >= 0 => q = wrapped \div size)
  BY <1>5, <1>7, <1>8 DEF Quotient
<1>10. PICK part : part = q * n * 9
  OBVIOUS
<1>11. PICK k : k = part \div 10
  OBVIOUS
<1>12. SizeOffset(value) = k
  BY <1>3, <1>6, <1>8, <1>10, <1>11 DEF SizeOffset
<1>13. part \in Int /\ k \in Nat /\ part < 10 * k + 10
  <2>1. part \in Int
    BY <1>4, <1>9, <1>10
  <2> QED
    BY <1>11, <1>12, <2>1
<1>14. r \in Finished /\ Others(r) \in Nat /\ Others(r) >= k
  BY <1>2, <1>12, <1>13, BeyondOthers
<1>15. r.finished
  BY <1>14 DEF Finished
<1>16. ASSUME limit < Half, size <= limit PROVE 10 * (Others(r) + 1) > 9 * n
  <2>1. q \in Int /\ q = limit \div size
    BY <1>4, <1>7, <1>9, <1>16
  <2>2. limit < size * q + size
    BY <1>4, <1>5, <2>1
  <2>3. q >= 1
    <3> SUFFICES ASSUME q <= 0 PROVE FALSE
      BY <2>1
    <3>1. size * q <= 0
      BY <1>5, <2>1
    <3> QED
      BY <1>4, <1>5, <1>16, <2>1, <2>2, <3>1
  <2>4. q * n >= n
    BY <1>4, <2>1, <2>3
  <2>5. part >= n * 9
    BY <1>4, <1>10, <2>1, <2>4
  <2> QED
    BY <1>4, <1>13, <1>14, <2>5
<1>17. limit < Half => \/ size > limit
                       \/ 10 * (Others(r) + 1) > 9 * n
  BY <1>4, <1>5, <1>16
<1> QED
  BY <1>1, <1>3, <1>15, <1>17 DEF Justified

(* Rows go by the pruning of the daily job and by DeleteHistory only.      *)
LEMMA OnlyPruning ==
  ASSUME WorldOK, Change, NEW r \in history, Pruned(r)
  PROVE  \/ \E c \in Calls :
              TruncateHistoryEntries(c) \/ PruneHistory(c) \/ TruncateHistorySize(c)
         \/ \E days \in Days : DeleteHistory(days)
<1>1. r \notin history'
  BY DEF Pruned, SameRun
<1>2. ~(history \subseteq history')
  BY <1>1
<1>3. ~Work
  BY <1>2 DEF Work, Take, Succeed, FailRun, Crash, Tick, Insert, tables
<1>4. \A new \in SUBSET Jobs : ~ScheduleJobs(new)
  BY <1>2 DEF ScheduleJobs
<1>5. \A c \in Calls : ~(ReadSetting(c) \/ Skip(c) \/ StepFails(c) \/ LostReturns(c))
  BY <1>2 DEF ReadSetting, Skip, StepFails, LostReturns, tables
<1>6. ~(Vacuumed \/ VacuumCancelled)
  BY <1>2 DEF Vacuumed, VacuumCancelled, tables
<1>7. ASSUME Request PROVE \E days \in Days : DeleteHistory(days)
  BY <1>2, <1>7 DEF Request, SaveSetting, DeleteJob, PruneHistoryPayload, VacuumJobTable, tables
<1> QED
  BY <1>3, <1>4, <1>5, <1>6, <1>7 DEF Change, Cron, Administrate

LEMMA ChangeJustified ==
  ASSUME WorldOK, Change, NEW r \in history, Pruned(r)
  PROVE  Justified(r)
<1>1. r \notin history'
  BY DEF Pruned, SameRun
<1>2. ASSUME NEW c \in Calls, NEW step \in {"entries", "age", "size"}, Doing(c, step)
      PROVE  cron[c].set \in Crons /\ cron[c].set[step] # Off
  <2>1. cron[c].step = step /\ cron[c].set[step] # Off
    BY <1>2 DEF Doing
  <2> QED
    BY <2>1 DEF WorldOK, CronOK, HasRead, CronRecords
<1>3. ASSUME NEW c \in Calls, TruncateHistoryEntries(c) PROVE Justified(r)
  <2>1. PICK k : k = cron[c].set.entries
    OBVIOUS
  <2>2. k \in Nat
    BY <1>2, <1>3, <2>1, SettingAssumption DEF TruncateHistoryEntries
  <2>3. Pruning("entries", k) /\ r \in Beyond(k)
    BY <1>1, <1>3, <2>1 DEF TruncateHistoryEntries, Delete
  <2> QED
    BY <2>2, <2>3, EntriesJustified
<1>4. ASSUME NEW c \in Calls, PruneHistory(c) PROVE Justified(r)
  <2>1. PICK days : days = cron[c].set.age
    OBVIOUS
  <2>2. days \in Int
    BY <1>2, <1>4, <2>1, SettingAssumption DEF PruneHistory
  <2>3. Pruning("age", days) /\ r.at <= Before(days)
    BY <1>1, <1>4, <2>1 DEF PruneHistory, Delete
  <2> QED
    BY <2>2, <2>3, AgeJustified
<1>5. ASSUME NEW c \in Calls, TruncateHistorySize(c) PROVE Justified(r)
  <2>1. PICK value : value = cron[c].set.size
    OBVIOUS
  <2>2. value \in Nat
    BY <1>2, <1>5, <2>1, SettingAssumption DEF TruncateHistorySize
  <2>3. Pruning("size", value) /\ SizeOffset(value) >= 0 /\ r \in Beyond(SizeOffset(value))
    BY <1>1, <1>5, <2>1 DEF TruncateHistorySize, Delete
  <2> QED
    BY <2>2, <2>3, SizeJustified
<1>6. ASSUME NEW days \in Days, DeleteHistory(days) PROVE Justified(r)
  <2>1. Pruning("age", days) /\ r.at <= Before(days) /\ days \in Int
    BY <1>1, <1>6, SettingAssumption DEF DeleteHistory, Delete
  <2> QED
    BY <2>1, AgeJustified
<1> QED
  BY <1>3, <1>4, <1>5, <1>6, OnlyPruning

-----------------------------------------------------------------------------
(* The numbers of a page.                                                  *)

(* What is pending is what is pending of each type: pairs of a type and of *)
(* a number up to its count are as many as the jobs.                       *)
LEMMA SumByType ==
  ASSUME NEW P \in SUBSET Jobs
  PROVE  Cardinality(P) = SumOf([t \in Types |-> Cardinality({j \in P : TypeOf[j] = t})])
<1> DEFINE Of(t) == {j \in P : TypeOf[j] = t}
           count == [t \in Types |-> Cardinality(Of(t))]
           Pairs == {p \in Types \X (1 .. Cardinality(Jobs)) : p[2] <= count[p[1]]}
           Nth   == [t \in Types |-> CHOOSE f : f \in Bijection(1 .. count[t], Of(t))]
           F     == [p \in Pairs |-> Nth[p[1]][p[2]]]
<1>1. IsFiniteSet(Jobs) /\ IsFiniteSet(P) /\ Cardinality(Jobs) \in Nat
  BY JobAssumption, FS_Subset, FS_CardinalityType
<1>2. ASSUME NEW t \in Types
      PROVE  /\ count[t] \in Nat /\ count[t] <= Cardinality(Jobs)
             /\ Nth[t] \in Bijection(1 .. count[t], Of(t))
  <2>1. Of(t) \in SUBSET Jobs
    OBVIOUS
  <2>2. IsFiniteSet(Of(t)) /\ Cardinality(Of(t)) <= Cardinality(Jobs)
    BY <1>1, <2>1, FS_Subset
  <2>3. Cardinality(Of(t)) \in Nat /\ ExistsBijection(1 .. Cardinality(Of(t)), Of(t))
    BY <2>2, FS_CardinalityType
  <2>4. count[t] = Cardinality(Of(t))
    OBVIOUS
  <2> HIDE DEF Of, count
  <2>5. Bijection(1 .. count[t], Of(t)) # {}
    BY <2>3, <2>4, Fun_ExistsBij
  <2> QED
    BY <2>2, <2>3, <2>4, <2>5
<1> HIDE DEF count, Nth
<1>3. ASSUME NEW t \in Types
      PROVE  /\ \A n \in 1 .. count[t] : Nth[t][n] \in Of(t)
             /\ \A m, n \in 1 .. count[t] : Nth[t][m] = Nth[t][n] => m = n
             /\ \A j \in Of(t) : \E n \in 1 .. count[t] : Nth[t][n] = j
  <2> HIDE DEF Of
  <2>1. /\ Nth[t] \in [1 .. count[t] -> Of(t)]
        /\ \A m, n \in 1 .. count[t] : Nth[t][m] = Nth[t][n] => m = n
        /\ \A j \in Of(t) : \E n \in 1 .. count[t] : Nth[t][n] = j
    BY <1>2, Fun_BijectionProperties
  <2> QED
    BY <2>1
<1>4. \A p \in Pairs : p[1] \in Types /\ p[2] \in 1 .. count[p[1]] /\ p = <<p[1], p[2]>>
  BY <1>1, <1>2
<1>5. \A p \in Pairs : F[p] \in P /\ TypeOf[F[p]] = p[1]
  BY <1>3, <1>4
<1>6. F \in [Pairs -> P]
  BY <1>5
<1>7. \A a, b \in Pairs : F[a] = F[b] => a = b
  <2> SUFFICES ASSUME NEW a \in Pairs, NEW b \in Pairs, F[a] = F[b] PROVE a = b
    OBVIOUS
  <2>1. a[1] = b[1]
    BY <1>5
  <2>2. Nth[a[1]][a[2]] = Nth[a[1]][b[2]]
    BY <2>1
  <2>3. a[2] = b[2]
    BY <1>3, <1>4, <2>1, <2>2
  <2> QED
    BY <1>4, <2>1, <2>3
<1>8. \A j \in P : \E p \in Pairs : F[p] = j
  <2> SUFFICES ASSUME NEW j \in P PROVE \E p \in Pairs : F[p] = j
    OBVIOUS
  <2>1. PICK t \in Types : t = TypeOf[j]
    BY JobAssumption
  <2>2. PICK n \in 1 .. count[t] : Nth[t][n] = j
    BY <1>3, <2>1
  <2>3. n \in 1 .. Cardinality(Jobs) /\ n <= count[t]
    <3>1. count[t] \in Nat /\ count[t] <= Cardinality(Jobs)
      BY <1>2
    <3>2. n \in 1 .. count[t]
      OBVIOUS
    <3> QED
      BY <1>1, <3>1, <3>2
  <2>4. <<t, n>> \in Types \X (1 .. Cardinality(Jobs)) /\ <<t, n>>[1] = t /\ <<t, n>>[2] = n
    BY <2>3
  <2>5. <<t, n>> \in Pairs
    BY <2>3, <2>4
  <2>6. F[<<t, n>>] = Nth[t][n]
    BY <2>4, <2>5
  <2> QED
    BY <2>2, <2>5, <2>6
<1> HIDE DEF F, Pairs
<1>9. F \in Bijection(Pairs, P)
  BY <1>6, <1>7, <1>8, Fun_IsBij
<1>10. ExistsBijection(P, Pairs)
  BY <1>9, Fun_ExistsBij, Fun_ExistsBijSymmetric
<1>11. Cardinality(Pairs) = Cardinality(P)
  BY <1>1, <1>10, FS_Bijection
<1> QED
  BY <1>11 DEF SumOf, Pairs, count

NumberRecords ==
  [pending : Nat \cup {-1}, failed : Nat \cup {-1}, processed : Nat \cup {-1},
   types : [Types -> Nat] \cup {None}]

PageRecords ==
  [kind : {"none", "queue", "list"}, queues : SUBSET (Queues \cup {Default}),
   queue : Queues \cup {Default, None}, got : NumberRecords]

(* The numbers of a queue so far are those of the tables.                  *)
Current(got, q) ==
  /\ got.pending \in {-1, Stats("pending", q)}
  /\ got.failed \in {-1, Stats("failed", q)}
  /\ got.types \in {None, StatsPerType(q)}

PageOK ==
  /\ calm \in BOOLEAN
  /\ view.kind \in {"none", "queue", "list", "finished"}
  /\ view.kind # "finished" => view \in PageRecords
  /\ view.kind = "none" => view.queue = None
  /\ view.kind = "finished" =>
       /\ view.queue = None /\ view.queues = {}
       /\ calm => view.got.list = FinishedJobs(view.got.filter)
  /\ calm /\ view.queue # None => Current(view.got, view.queue)

LEMMA CountTypes ==
  ASSUME WorldOK, NEW q
  PROVE  /\ Stats("pending", q) \in Nat /\ Stats("failed", q) \in Nat
         /\ Stats("processed", q) \in Nat
         /\ Stats("failed", q) <= Stats("pending", q)
         /\ StatsPerType(q) \in [Types -> Nat]
         /\ Stats("pending", q) = SumOf(StatsPerType(q))
         /\ QueueNames \subseteq Queues \cup {Default}
<1>1. \A S \in SUBSET Jobs : IsFiniteSet(S) /\ Cardinality(S) \in Nat
  BY JobAssumption, FS_Subset, FS_CardinalityType
<1>2. PendingIn(q) \in SUBSET Jobs
  BY DEF PendingIn, Queued
<1>3. /\ Stats("pending", q) = Cardinality(PendingIn(q))
      /\ Stats("failed", q) = Cardinality({j \in PendingIn(q) : jobs[j].errors # 0})
  BY DEF Stats
<1>4. \A S \in SUBSET PendingIn(q) : Cardinality(S) \in Nat /\ Cardinality(S) <= Cardinality(PendingIn(q))
  BY <1>1, <1>2, FS_Subset
<1>5. Stats("processed", q) \in Nat
  <2>1. PICK S : S = {r.job : r \in {r \in history : r.success /\ In(q, r.job)}}
    OBVIOUS
  <2>2. Stats("processed", q) = Cardinality(S)
    BY <2>1 DEF Stats, CountJobs
  <2>3. S \in SUBSET Jobs
    BY <2>1 DEF WorldOK, TablesOK, Rows
  <2> QED
    BY <1>1, <2>2, <2>3
<1>6. StatsPerType(q) \in [Types -> Nat]
  BY <1>4 DEF StatsPerType
<1>7. Stats("pending", q) = SumOf(StatsPerType(q))
  BY <1>2, <1>3, SumByType DEF StatsPerType
<1>8. QueueNames \subseteq Queues \cup {Default}
  BY DEF QueueNames, queueNameToDomain, Queued, Queues, WorldOK, TablesOK, Rows
<1> QED
  BY <1>1, <1>2, <1>3, <1>4, <1>5, <1>6, <1>7, <1>8

LEMMA CurrentStays ==
  ASSUME UNCHANGED World, NEW got, NEW q, Current(got, q)
  PROVE  Current(got, q)'
<1>1. UNCHANGED <<jobs, history>>
  BY DEF World, tables
<1> QED
  BY <1>1 DEF Current, Stats, StatsPerType, PendingIn, Queued, CountJobs

LEMMA NoViewRecord ==
  /\ NoNumbers \in NumberRecords
  /\ NoNumbers.pending = -1 /\ NoNumbers.failed = -1 /\ NoNumbers.types = None
  /\ NoView \in PageRecords
  /\ NoView.kind = "none" /\ NoView.queue = None /\ NoView.queues = {} /\ NoView.got = NoNumbers
BY DEF NoView, NoNumbers, NumberRecords, PageRecords

(* A page whose reading is at its beginning.                               *)
LEMMA PageBegins ==
  ASSUME NEW v \in PageRecords, view' = v, calm' = TRUE, v.got = NoNumbers,
         v.kind = "none" => v.queue = None
  PROVE  PageOK'
<1>1. Current(v.got, v.queue)'
  BY NoViewRecord DEF Current
<1>2. v.kind \in {"none", "queue", "list"}
  BY DEF PageRecords
<1> QED
  BY <1>1, <1>2 DEF PageOK

LEMMA SeenStep ==
  ASSUME PageOK, Seen
  PROVE  PageOK' /\ shown' = None
<1>1. view' = view /\ calm' = (view.kind = "none") /\ shown' = None
  BY DEF Seen
<1>2. calm' => view'.queue = None /\ view'.kind = "none"
  BY <1>1 DEF PageOK
<1>3. calm' \in BOOLEAN
  BY <1>1
<1> QED
  BY <1>1, <1>2, <1>3 DEF PageOK

LEMMA BeginSteps ==
  ASSUME WorldOK, PageOK,
         (\E q \in QueueNames : ShowQueue(q)) \/ ListAllQueues \/ NextQueue
  PROVE  PageOK' /\ shown' = None
<1>1. QueueNames \in SUBSET (Queues \cup {Default})
  BY CountTypes
<1>2. ASSUME NEW q \in QueueNames, ShowQueue(q) PROVE PageOK' /\ shown' = None
  <2>1. PICK v : v = [NoView EXCEPT !.kind = "queue", !.queue = q]
    OBVIOUS
  <2>2. v \in PageRecords /\ v.got = NoNumbers /\ v.kind = "queue"
    BY <1>1, <2>1, NoViewRecord DEF PageRecords
  <2> QED
    BY <1>2, <2>1, <2>2, PageBegins DEF ShowQueue
<1>3. CASE ListAllQueues
  <2>1. PICK v : v = [NoView EXCEPT !.kind = "list", !.queues = QueueNames]
    OBVIOUS
  <2>2. v \in PageRecords /\ v.got = NoNumbers /\ v.kind = "list"
    BY <1>1, <2>1, NoViewRecord DEF PageRecords
  <2> QED
    BY <1>3, <2>1, <2>2, PageBegins DEF ListAllQueues
<1>4. CASE NextQueue
  <2>1. PICK q \in view.queues :
          view' = [view EXCEPT !.queue = q, !.queues = @ \ {q}, !.got = NoNumbers]
    BY <1>4 DEF NextQueue
  <2>2. PICK v : v = [view EXCEPT !.queue = q, !.queues = @ \ {q}, !.got = NoNumbers]
    OBVIOUS
  <2>3. view \in PageRecords /\ view.kind = "list"
    BY <1>4 DEF NextQueue, PageOK
  <2>4. v \in PageRecords /\ v.got = NoNumbers /\ v.kind = "list"
    BY <2>1, <2>2, <2>3, NoViewRecord DEF PageRecords
  <2> QED
    BY <1>4, <2>1, <2>2, <2>4, PageBegins DEF NextQueue
<1> QED
  BY <1>2, <1>3, <1>4

(* One more number of the queue.                                           *)
LEMMA PageGoesOn ==
  ASSUME PageOK, UNCHANGED World, view.queue # None,
         NEW got \in NumberRecords, view' = [view EXCEPT !.got = got], calm' = calm,
         calm => Current(got, view.queue)
  PROVE  PageOK'
<1>1. view \in PageRecords /\ view.kind \in {"queue", "list"}
  BY DEF PageOK
<1>2. PICK q : q = view.queue
  OBVIOUS
<1>3. /\ view' \in PageRecords /\ view'.kind = view.kind /\ view'.queue = q /\ view'.got = got
  BY <1>1, <1>2 DEF PageRecords
<1>4. calm => Current(got, q)'
  BY <1>2, CurrentStays
<1>5. calm' \in BOOLEAN
  BY DEF PageOK
<1>6. calm' => Current(view.got, view.queue)'
  BY <1>3, <1>4
<1> QED
  BY <1>1, <1>3, <1>5, <1>6 DEF PageOK

LEMMA QueryStep ==
  ASSUME WorldOK, PageOK, NEW n \in Numbers, Query(n), UNCHANGED World
  PROVE  PageOK' /\ shown' = None
<1>1. /\ view.queue # None /\ view \in PageRecords /\ view.got \in NumberRecords
      /\ calm' = calm /\ shown' = None
      /\ view' = [view EXCEPT !.got[n] = Stats(n, view.queue)]
  BY DEF Query, PageOK, PageRecords
<1>2. PICK s : s = Stats(n, view.queue)
  OBVIOUS
<1>3. s \in Nat
  BY <1>2, CountTypes DEF Numbers
<1>4. PICK got : got = [view.got EXCEPT ![n] = s]
  OBVIOUS
<1>5. view' = [view EXCEPT !.got = got]
  BY <1>1, <1>2, <1>4
<1>6. /\ got \in NumberRecords
      /\ calm => Current(got, view.queue)
  <2>1. calm => Current(view.got, view.queue)
    BY <1>1 DEF PageOK
  <2>2. CASE n = "pending"
    <3>1. got = [view.got EXCEPT !.pending = s]
      BY <1>4, <2>2
    <3>2. /\ got \in NumberRecords /\ got.pending = s
          /\ got.failed = view.got.failed /\ got.types = view.got.types
      BY <1>1, <1>3, <3>1 DEF NumberRecords
    <3> QED
      BY <1>2, <2>1, <2>2, <3>2 DEF Current
  <2>3. CASE n = "failed"
    <3>1. got = [view.got EXCEPT !.failed = s]
      BY <1>4, <2>3
    <3>2. /\ got \in NumberRecords /\ got.failed = s
          /\ got.pending = view.got.pending /\ got.types = view.got.types
      BY <1>1, <1>3, <3>1 DEF NumberRecords
    <3> QED
      BY <1>2, <2>1, <2>3, <3>2 DEF Current
  <2>4. CASE n = "processed"
    <3>1. got = [view.got EXCEPT !.processed = s]
      BY <1>4, <2>4
    <3>2. /\ got \in NumberRecords /\ got.failed = view.got.failed
          /\ got.pending = view.got.pending /\ got.types = view.got.types
      BY <1>1, <1>3, <3>1 DEF NumberRecords
    <3> QED
      BY <2>1, <3>2 DEF Current
  <2> QED
    BY <2>2, <2>3, <2>4 DEF Numbers
<1> QED
  BY <1>1, <1>5, <1>6, PageGoesOn

LEMMA QueryTypesStep ==
  ASSUME WorldOK, PageOK, QueryTypes, UNCHANGED World
  PROVE  PageOK' /\ shown' = None
<1>1. /\ view.queue # None /\ view \in PageRecords /\ view.got \in NumberRecords
      /\ calm' = calm /\ shown' = None
      /\ view' = [view EXCEPT !.got.types = StatsPerType(view.queue)]
  BY DEF QueryTypes, PageOK, PageRecords
<1>2. PICK s : s = StatsPerType(view.queue)
  OBVIOUS
<1>3. s \in [Types -> Nat]
  BY <1>2, CountTypes
<1>4. PICK got : got = [view.got EXCEPT !.types = s]
  OBVIOUS
<1>5. view' = [view EXCEPT !.got = got]
  BY <1>1, <1>2, <1>4
<1>6. /\ got \in NumberRecords /\ got.types = s
      /\ got.pending = view.got.pending /\ got.failed = view.got.failed
  BY <1>1, <1>3, <1>4 DEF NumberRecords
<1>7. calm => Current(got, view.queue)
  BY <1>1, <1>2, <1>6 DEF PageOK, Current
<1> QED
  BY <1>1, <1>5, <1>6, <1>7, PageGoesOn

LEMMA PresentStep ==
  ASSUME WorldOK, PageOK, Present
  PROVE  PageOK' /\ StatsHonest'
<1>1. /\ view.queue # None /\ view.got.types # None
      /\ \A n \in Numbers : view.got[n] # -1
      /\ calm' = TRUE
  BY DEF Present
<1>2. view \in PageRecords /\ view.got \in NumberRecords /\ view.kind \in {"queue", "list"}
  BY <1>1 DEF PageOK, PageRecords
<1>3. PICK q, got : q = view.queue /\ got = view.got
  OBVIOUS
<1>4. /\ got.pending # -1 /\ got.failed # -1
      /\ got.pending \in Nat /\ got.failed \in Nat
  <2>1. view.got["pending"] # -1 /\ view.got["failed"] # -1
    BY <1>1 DEF Numbers
  <2> QED
    BY <1>2, <1>3, <2>1 DEF NumberRecords
<1>5. ASSUME calm
      PROVE  /\ got.failed <= got.pending /\ got.pending = SumOf(got.types)
             /\ ~(got.failed # 0 /\ got.pending = 0)
  <2>1. Current(got, q)
    BY <1>1, <1>3, <1>5 DEF PageOK
  <2>2. got.pending = Stats("pending", q) /\ got.failed = Stats("failed", q) /\ got.types = StatsPerType(q)
    BY <1>1, <1>3, <1>4, <2>1 DEF Current
  <2> QED
    BY <1>4, <2>2, CountTypes
<1>6. CASE got.failed # 0 /\ got.pending = 0
  <2>1. view' = NoView /\ Answer("panic")
    BY <1>3, <1>6 DEF Present
  <2>2. PageOK'
    BY <1>1, <2>1, NoViewRecord, PageBegins
  <2>3. ~calm /\ shown'.calm = calm
    BY <1>5, <1>6, <2>1 DEF Answer
  <2> QED
    BY <2>2, <2>3 DEF StatsHonest
<1>7. CASE ~(got.failed # 0 /\ got.pending = 0)
  <2>1. Answer("stats")
    BY <1>3, <1>7 DEF Present
  <2>2. shown'.res = "stats" /\ shown'.got = got /\ shown'.calm = calm
    BY <1>3, <2>1 DEF Answer
  <2>3. StatsHonest'
    <3>1. calm => got.failed <= got.pending /\ got.pending = SumOf(got.types)
      BY <1>5
    <3> QED
      BY <2>2, <3>1 DEF StatsHonest, SumOf
  <2>4. PageOK'
    <3>1. CASE view.queues = {}
      <4>1. view' = NoView
        BY <1>3, <1>7, <3>1 DEF Present
      <4> QED
        BY <1>1, <4>1, NoViewRecord, PageBegins
    <3>2. CASE view.queues # {}
      <4>1. PICK v : v = [view EXCEPT !.queue = None, !.got = NoNumbers]
        OBVIOUS
      <4>2. view' = v
        BY <1>3, <1>7, <3>2, <4>1 DEF Present
      <4>3. v \in PageRecords /\ v.got = NoNumbers /\ v.queue = None
        BY <1>2, <4>1, NoViewRecord DEF PageRecords
      <4> QED
        BY <1>1, <4>2, <4>3, PageBegins
    <3> QED
      BY <3>1, <3>2
  <2> QED
    BY <2>3, <2>4
<1> QED
  BY <1>6, <1>7

LEMMA QueryFailsStep ==
  ASSUME QueryFails
  PROVE  PageOK' /\ StatsHonest'
<1>1. PageOK'
  BY NoViewRecord, PageBegins DEF QueryFails
<1>2. shown'.res = "error"
  BY DEF QueryFails, Answer
<1> QED
  BY <1>1, <1>2 DEF StatsHonest

LEMMA ShowFinishedStep ==
  ASSUME NEW f, ShowFinished(f), UNCHANGED World
  PROVE  PageOK' /\ shown' = None
<1>1. PICK list : list = FinishedJobs(f)
  OBVIOUS
<1>2. PICK v : v = [NoView EXCEPT !.kind = "finished", !.got = [list |-> list, filter |-> f]]
  OBVIOUS
<1>3. /\ v.kind = "finished" /\ v.queue = None /\ v.queues = {}
      /\ v.got.list = list /\ v.got.filter = f
  BY <1>2 DEF NoView
<1>4. view' = v /\ calm' = TRUE /\ shown' = None
  BY <1>1, <1>2 DEF ShowFinished
<1>5. list = FinishedJobs(f)'
  BY <1>1 DEF FinishedJobs, CountJobs, Matching, Finished, World, tables
<1> QED
  BY <1>3, <1>4, <1>5 DEF PageOK

LEMMA ShowTotalStep ==
  ASSUME PageOK, ShowTotal
  PROVE  PageOK' /\ StatsHonest'
<1>1. PageOK'
  BY NoViewRecord, PageBegins DEF ShowTotal
<1>2. /\ shown'.res = "finished" /\ shown'.calm = calm
      /\ shown'.list = view.got.list /\ shown'.total = FinishedJobsTotal(view.got.filter)
  BY DEF ShowTotal
<1>3. calm => view.got.list = FinishedJobs(view.got.filter)
  BY DEF PageOK, ShowTotal
<1>4. shown'.calm => shown'.list = Smaller(Limit, shown'.total)
  BY <1>2, <1>3 DEF FinishedJobs, FinishedJobsTotal
<1> QED
  BY <1>1, <1>2, <1>4 DEF StatsHonest

LEMMA ViewStep ==
  ASSUME WorldOK, PageOK, View, UNCHANGED World
  PROVE  PageOK' /\ StatsHonest'
<1>1. shown' = None => StatsHonest'
  BY DEF StatsHonest
<1>2. CASE (\E q \in QueueNames : ShowQueue(q)) \/ ListAllQueues \/ NextQueue
  BY <1>1, <1>2, BeginSteps
<1>3. ASSUME NEW n \in Numbers, Query(n) PROVE PageOK' /\ StatsHonest'
  BY <1>1, <1>3, QueryStep
<1>4. CASE QueryTypes
  BY <1>1, <1>4, QueryTypesStep
<1>5. ASSUME NEW f \in Filters, ShowFinished(f) PROVE PageOK' /\ StatsHonest'
  BY <1>1, <1>5, ShowFinishedStep
<1> QED
  BY <1>2, <1>3, <1>4, <1>5, PresentStep, QueryFailsStep, ShowTotalStep DEF View

-----------------------------------------------------------------------------
(* The theorems about the administration of jobs.                          *)

AdminInv == WorldOK /\ PageOK /\ StatsHonest

LEMMA AdminInvInit == AdminInit => AdminInv
<1> SUFFICES ASSUME AdminInit PROVE AdminInv
  OBVIOUS
<1>1. view = NoView /\ calm = TRUE /\ shown = None
  BY DEF AdminInit
<1>2. PageOK
  BY <1>1, NoViewRecord DEF PageOK
<1>3. StatsHonest
  BY <1>1 DEF StatsHonest
<1> QED
  BY <1>2, <1>3, WorldInit DEF AdminInv

LEMMA AdminInvNext == AdminInv /\ [AdminNext]_adminVars => AdminInv'
<1> SUFFICES ASSUME AdminInv, [AdminNext]_adminVars PROVE AdminInv'
  OBVIOUS
<1>1. WorldOK /\ PageOK /\ StatsHonest
  BY DEF AdminInv
<1>2. CASE Change /\ Seen
  <2>1. PageOK' /\ shown' = None
    BY <1>1, <1>2, SeenStep
  <2> QED
    BY <1>1, <1>2, <2>1, ChangeStep DEF AdminInv, StatsHonest
<1>3. CASE View /\ UNCHANGED World
  BY <1>1, <1>3, WorldStays, ViewStep DEF AdminInv
<1>4. CASE UNCHANGED adminVars
  <2>1. UNCHANGED World /\ UNCHANGED <<jobs, history, view, calm, shown>>
    BY <1>4 DEF adminVars, World, viewing, tables
  <2>2. WorldOK'
    BY <1>1, <2>1, WorldStays
  <2>3. PageOK'
    BY <1>1, <2>1 DEF PageOK, Current, Stats, StatsPerType, PendingIn, Queued, CountJobs,
       FinishedJobs, Matching, Finished
  <2> QED
    BY <1>1, <2>1, <2>2, <2>3 DEF AdminInv, StatsHonest, SumOf
<1> QED
  BY <1>2, <1>3, <1>4 DEF AdminNext

LEMMA AdminInvariance == AdminSpec => []AdminInv
BY AdminInvInit, AdminInvNext, PTL DEF AdminSpec

(* The tables, the daily job and the pages keep their types; a daily job   *)
(* runs exactly while its run has a call, however many calls that have     *)
(* lost their runs go on beside it; and no two rows of the history are of  *)
(* the same run, although failed runs leave rows that nobody finishes      *)
(* (gue's pgx adapter, history of jobs/postgres.go).                       *)
THEOREM AdminTypeCorrect == AdminSpec => []AdminTypeOK
<1>1. ASSUME AdminInv PROVE AdminTypeOK
  <2>1. WorldOK /\ PageOK
    BY <1>1 DEF AdminInv
  <2>2. /\ now \in 0 .. MaxTime /\ setting \in Crons /\ vac \in Tables \cup {None}
        /\ asked \in 0 .. MaxRequests
    BY <2>1 DEF WorldOK, OthersOK
  <2>3. /\ jobs \in [Jobs -> JobRecords] /\ \A j \in Jobs : jobs[j].errors <= MaxRuns
        /\ history \subseteq Rows /\ dead \in 0 .. MaxDead
        /\ \A r, s \in history : r.job = s.job /\ r.run = s.run => r = s
    BY <2>1 DEF WorldOK, TablesOK, SameRun
  <2>4. ASSUME NEW c \in Calls
        PROVE  /\ cron[c].step \in {"none", "setting", "entries", "age", "size", "end"}
               /\ cron[c].set \in Crons \cup {None}
               /\ cron[c].failed \subseteq {"setting", "entries", "age", "size"}
               /\ cron[c].seen \subseteq Rows
    <3>1. cron[c] \in CronRecords /\ HasRead(c)
      BY <2>1 DEF WorldOK, CronOK
    <3> QED
      BY <3>1 DEF CronRecords, HasRead
  <2>5. /\ view.kind \in {"none", "queue", "list", "finished"}
        /\ view.queues \subseteq Queues \cup {Default}
        /\ view.queue \in Queues \cup {Default, None}
        /\ calm \in BOOLEAN
    BY <2>1 DEF PageOK, PageRecords
  <2>6. RunsOK
    BY <2>1 DEF WorldOK
  <2> QED
    BY <2>2, <2>3, <2>4, <2>5, <2>6 DEF AdminTypeOK, JobRecords, RunsOK
<1> QED
  BY <1>1, AdminInvariance, PTL

(* When a call of the daily job is at its end, each of its three steps     *)
(* that was switched on and did not fail has done its work on the rows     *)
(* from before its start: no more finished rows than entries are left,     *)
(* none as old as the age, and none at all unless the table fits into the  *)
(* size; whatever workers, administrators, the other steps and other calls *)
(* do, and whether its run has been lost or not                            *)
(* (pruneJobHistoryCronCommandHandler).                                    *)
THEOREM CronThoroughCorrect == AdminSpec => []CronThorough
<1>1. ASSUME AdminInv PROVE CronThorough
  <2>1. \A c \in Calls : KeptEntries(c) /\ KeptAge(c) /\ KeptSize(c)
    BY <1>1 DEF AdminInv, WorldOK, CronOK
  <2> QED
    BY <2>1 DEF CronThorough, KeptEntries, KeptAge, KeptSize, LeftRows
<1> QED
  BY <1>1, AdminInvariance, PTL

(* The numbers of a page agree with each other if nothing changes while    *)
(* they are read, and the page does not divide by zero (QueueKPIs,         *)
(* queueKpiToStats, GetFinishedJobs).                                      *)
THEOREM StatsHonestCorrect == AdminSpec => []StatsHonest
<1>1. AdminInv => StatsHonest
  BY DEF AdminInv
<1> QED
  BY <1>1, AdminInvariance, PTL

(* A row of the history only goes for the reason that the pruning gives,   *)
(* with numbers that are too large for an int64 as the only exception      *)
(* (query.sql of contexts/admin).                                          *)
THEOREM PruneCorrect == AdminSpec => PruneJustified
<1>1. ASSUME AdminInv, [AdminNext]_adminVars
      PROVE  [\A r \in history : Pruned(r) => Justified(r)]_adminVars
  <2>1. WorldOK
    BY <1>1 DEF AdminInv
  <2>2. CASE Change
    BY <2>1, <2>2, ChangeJustified
  <2>3. CASE UNCHANGED World
    <3>1. history' = history
      BY <2>3 DEF World, tables
    <3> QED
      BY <3>1 DEF Pruned, SameRun
  <2> QED
    BY <1>1, <2>2, <2>3 DEF AdminNext
<1>2. AdminInv /\ [AdminNext]_adminVars =>
        [\A r \in history : (\A s \in history' : ~SameRun(r, s)) =>
           /\ last'.op # "age" => r.finished
           /\ CASE last'.op = "age" ->
                     last'.value * TimeDay < Half => now - r.at >= last'.value * TimeDay
                [] last'.op = "entries" -> Others(r) >= last'.value
                [] last'.op = "size" ->
                     last'.value * GB < Half =>
                       \/ Size > last'.value * GB
                       \/ 10 * (Others(r) + 1) > 9 * Cardinality(Finished)]_adminVars
  BY <1>1 DEF Pruned, Justified
<1> QED
  BY <1>2, AdminInvariance, PTL DEF AdminSpec, PruneJustified
=============================================================================
