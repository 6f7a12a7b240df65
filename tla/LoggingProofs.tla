--------------------------- MODULE LoggingProofs ---------------------------
(***************************************************************************)
(* Proofs about Logging: its types and mutexes, that Loki loses no record, *)
(* and that a row of the log is about one record unless two renderings     *)
(* have met, for any threads, loggers, levels and sizes.                   *)
(***************************************************************************)
EXTENDS Logging, TLAPS

Records == Record \cup {NoRecord(t) : t \in Threads}

(* What the threads have in hand.  A thread that renders or saves has made *)
(* its record, and one that has rendered it has got something for it.      *)
InHand ==
  /\ record \in [Threads -> Records]
  /\ logged \in 0..MaxRecords
  /\ mu \in [Loggers -> Threads \cup {None}]
  /\ lokiMu \in Threads \cup {None}
  /\ \A t \in Threads : pc[t] # "idle" => record[t] \in Record
  /\ \A t \in Threads : pc[t] \in {"reset", "send"} => out[t] \in Record \cup {Torn}

Types == TypeOK /\ InHand

(* The parts of the state that the actions change together.                *)
Calls ==
  /\ pc \in [Threads -> Rendering \cup {"idle", "users", "level", "loki", "transmit", "lock", "send"}]
  /\ logger \in [Threads -> made]
  /\ out \in [Threads -> Record \cup {Torn, None}]
  /\ InHand

Mutexes ==
  /\ \A t \in Threads : pc[t] = "transmit" <=> lokiMu = t
  /\ \A t \in Threads, l \in Loggers : mu[l] = t <=> pc[t] \in Rendering /\ logger[t] = l

Queues ==
  /\ records \in Seq(Row) /\ Len(records) <= ChanCap
  /\ batch \in Seq(Row) /\ Len(batch) <= MaxBatch
  /\ batchPc = "select" => Len(batch) < MaxBatch
  /\ batchPc = "save" => batch # <<>>

Rest ==
  /\ made \subseteq Loggers /\ Root \in made
  /\ available \in [made -> BOOLEAN]
  /\ level \in Levels
  /\ setting \in Settings \cup {NoSetting}
  /\ lokiBuf \in Seq(Record) /\ buf \in Seq(Record \cup {Torn})

LEMMA Parts == Types <=> Calls /\ Mutexes /\ Queues /\ Rest
  BY DEF Types, TypeOK, Calls, Mutexes, Queues, Rest

LEMMA PartsNext == Types' <=> Calls' /\ Mutexes' /\ Queues' /\ Rest'
  BY DEF Types, TypeOK, Calls, Mutexes, Queues, Rest

LEMMA InitTypes == Init => Types
<1> SUFFICES ASSUME Init PROVE Types
  OBVIOUS
<1>1. Calls
  BY LoggingAssumption DEF Init, InMemory, Calls, InHand, Records
<1>2. Mutexes
  BY LoggingAssumption DEF Init, InMemory, Mutexes, Rendering
<1>3. Queues
  BY LoggingAssumption DEF Init, InMemory, Queues
<1>4. Rest
  BY LoggingAssumption DEF Init, InMemory, Rest
<1> QED
  BY <1>1, <1>2, <1>3, <1>4, Parts

(* A step of a thread that leaves the buffers and the mutexes alone.       *)
LEMMA GotoCalls ==
  ASSUME Calls, NEW t \in Threads, NEW w, Goto(t, w),
         w \in {"idle", "users", "level", "loki", "transmit", "lock", "write", "parse"},
         pc[t] # "idle",
         UNCHANGED <<made, logger, out, record, logged>>,
         mu' \in [Loggers -> Threads \cup {None}], lokiMu' \in Threads \cup {None}
  PROVE  Calls'
<1>1. /\ record' \in [Threads -> Records] /\ logged' \in 0..MaxRecords
      /\ logger' \in [Threads -> made']
      /\ out' \in [Threads -> Record \cup {Torn, None}]
  BY DEF Calls, InHand
<1>2. pc' \in [Threads -> Rendering \cup {"idle", "users", "level", "loki", "transmit", "lock", "send"}]
  BY DEF Calls, Goto, Rendering
<1>3. \A u \in Threads : pc'[u] # "idle" => record'[u] \in Record
  BY DEF Calls, InHand, Goto
<1>4. \A u \in Threads : pc'[u] \in {"reset", "send"} => out'[u] \in Record \cup {Torn}
  BY DEF Calls, InHand, Goto
<1> QED
  BY <1>1, <1>2, <1>3, <1>4 DEF Calls, InHand

(* A step between two places where no mutex is held.                       *)
LEMMA GotoMutexes ==
  ASSUME Calls, Mutexes, NEW t \in Threads, NEW w, Goto(t, w),
         pc[t] \notin Rendering \cup {"transmit"},
         w \notin Rendering \cup {"transmit"},
         UNCHANGED <<mu, lokiMu>>,
         \A u \in Threads \ {t} : logger'[u] = logger[u]
  PROVE  Mutexes'
<1>1. \A u \in Threads : pc'[u] = IF u = t THEN w ELSE pc[u]
  BY DEF Calls, Goto
<1> QED
  BY <1>1 DEF Mutexes, Rendering

LEMMA LogTypes ==
  ASSUME Types, NEW t \in Threads, NEW l \in Loggers, NEW v \in Levels, Log(t, l, v)
  PROVE  Types'
<1>1. Calls /\ Mutexes /\ Queues /\ Rest
  BY Parts
<1> DEFINE x == [by |-> t, n |-> logged', level |-> v]
<1>2. /\ logged' \in 0..MaxRecords /\ x \in Record
  BY <1>1, LoggingAssumption DEF Log, Record, Calls, InHand
<1>3. /\ record' = [record EXCEPT ![t] = x] /\ logger' = [logger EXCEPT ![t] = l]
      /\ l \in made /\ pc[t] = "idle"
      /\ UNCHANGED <<out, lokiMu, mu, made>>
  BY DEF Log, lokiVars, pgVars
<1> HIDE DEF x
<1>4. PICK w \in {"users", "level"} : Goto(t, w)
  BY DEF Log
<1>5. Calls'
  <2>1. record' \in [Threads -> Records]
    BY <1>1, <1>2, <1>3 DEF Calls, InHand, Records
  <2>2. \A u \in Threads : pc'[u] # "idle" => record'[u] \in Record
    BY <1>1, <1>2, <1>3, <1>4 DEF Calls, InHand, Goto
  <2>3. \A u \in Threads : pc'[u] \in {"reset", "send"} => out'[u] \in Record \cup {Torn}
    BY <1>1, <1>3, <1>4 DEF Calls, InHand, Goto
  <2>4. pc' \in [Threads -> Rendering \cup {"idle", "users", "level", "loki", "transmit", "lock", "send"}]
    BY <1>1, <1>4 DEF Calls, Goto
  <2> QED
    BY <1>1, <1>2, <1>3, <2>1, <2>2, <2>3, <2>4 DEF Calls, InHand
<1>6. Mutexes'
  BY <1>1, <1>3, <1>4, GotoMutexes DEF Rendering, Calls
<1>7. Queues' /\ Rest'
  BY <1>1 DEF Log, lokiVars, pgVars, batchVars, ruleVars, Queues, Rest
<1> QED
  BY <1>5, <1>6, <1>7, PartsNext

(* Types of the steps that only lead a thread from one place to the next.  *)
LEMMA ReadTypes ==
  ASSUME Types, NEW t \in Threads, ReadUsers(t) \/ ReadLevel(t)
  PROVE  Types'
<1>1. Calls /\ Mutexes /\ Queues /\ Rest
  BY Parts
<1>2. PICK w \in {"loki", "level", "idle"} : Goto(t, w)
  BY DEF ReadUsers, ReadLevel
<1>3. /\ pc[t] \in {"users", "level"}
      /\ UNCHANGED <<made, logger, out, record, logged, mu, lokiMu>>
  BY DEF ReadUsers, ReadLevel, lokiVars, pgVars
<1>4. Calls'
  BY <1>1, <1>2, <1>3, GotoCalls DEF Calls, InHand
<1>5. Mutexes'
  BY <1>1, <1>2, <1>3, GotoMutexes DEF Rendering
<1>6. Queues' /\ Rest'
  BY <1>1 DEF ReadUsers, ReadLevel, lokiVars, pgVars, batchVars, ruleVars, Queues, Rest
<1> QED
  BY <1>4, <1>5, <1>6, PartsNext

LEMMA LokiTakeTypes ==
  ASSUME Types, NEW t \in Threads, LokiTake(t)
  PROVE  Types'
<1>1. Calls /\ Mutexes /\ Queues /\ Rest
  BY Parts
<1>2. PICK w \in {"lock", "transmit"} :
        /\ Goto(t, w)
        /\ w = "lock" => UNCHANGED <<lokiMu, lokiBuf>>
        /\ w = "transmit" => lokiMu' = t /\ lokiBuf' = Append(lokiBuf, record[t])
  BY DEF LokiTake
<1>3. /\ pc[t] = "loki" /\ lokiMu = None
      /\ UNCHANGED <<made, logger, out, record, logged, mu>>
  BY DEF LokiTake, pgVars
<1>4. Calls'
  BY <1>1, <1>2, <1>3, GotoCalls DEF Calls, InHand
<1>5. Mutexes'
  <2>1. \A u \in Threads : pc'[u] = IF u = t THEN w ELSE pc[u]
    BY <1>1, <1>2 DEF Calls, Goto
  <2> QED
    BY <1>1, <1>2, <1>3, <2>1, LoggingAssumption DEF Mutexes, Rendering
<1>6. record[t] \in Record
  BY <1>1, <1>3 DEF Calls, InHand
<1>7. lokiBuf' \in Seq(Record)
  BY <1>1, <1>2, <1>6 DEF Rest
<1>8. Queues' /\ Rest'
  BY <1>1, <1>7 DEF LokiTake, pgVars, batchVars, ruleVars, Queues, Rest
<1> QED
  BY <1>4, <1>5, <1>8, PartsNext

LEMMA LokiSendTypes ==
  ASSUME Types, NEW t \in Threads, LokiSend(t)
  PROVE  Types'
<1>1. Calls /\ Mutexes /\ Queues /\ Rest
  BY Parts
<1>2. /\ pc[t] = "transmit" /\ lokiMu' = None /\ Goto(t, "lock")
      /\ UNCHANGED <<made, logger, out, record, logged, mu>>
  BY DEF LokiSend, pgVars
<1>3. Calls'
  BY <1>1, <1>2, GotoCalls DEF Calls, InHand
<1>4. Mutexes'
  <2>1. \A u \in Threads : pc'[u] = IF u = t THEN "lock" ELSE pc[u]
    BY <1>1, <1>2 DEF Calls, Goto
  <2>2. \A u \in Threads \ {t} : pc[u] # "transmit"
    BY <1>1, <1>2 DEF Mutexes
  <2> QED
    BY <1>1, <1>2, <2>1, <2>2, LoggingAssumption DEF Mutexes, Rendering
<1>5. lokiBuf' \in Seq(Record)
  BY <1>1 DEF LokiSend, LokiReset, Rest
<1>6. Queues' /\ Rest'
  BY <1>1, <1>5 DEF LokiSend, pgVars, batchVars, ruleVars, Queues, Rest
<1> QED
  BY <1>3, <1>4, <1>6, PartsNext

(* Rendering: the mutex of the logger of t is taken, held and given back.  *)
LEMMA LockRenderTypes ==
  ASSUME Types, NEW t \in Threads, LockRender(t)
  PROVE  Types'
<1>1. Calls /\ Mutexes /\ Queues /\ Rest
  BY Parts
<1>2. /\ pc[t] = "lock" /\ mu[logger[t]] = None /\ Goto(t, "write")
      /\ mu' = [mu EXCEPT ![logger[t]] = t]
      /\ UNCHANGED <<made, logger, out, record, logged, lokiMu>>
  BY DEF LockRender, lokiVars
<1>3. logger[t] \in Loggers
  BY <1>1 DEF Calls, Rest
<1>4. Calls'
  <2>1. mu' \in [Loggers -> Threads \cup {None}]
    BY <1>1, <1>2 DEF Calls, InHand
  <2> QED
    BY <1>1, <1>2, <2>1, GotoCalls DEF Calls, InHand
<1>5. Mutexes'
  <2>1. \A u \in Threads : pc'[u] = IF u = t THEN "write" ELSE pc[u]
    BY <1>1, <1>2 DEF Calls, Goto
  <2>2. \A l \in Loggers : mu'[l] = IF l = logger[t] THEN t ELSE mu[l]
    BY <1>1, <1>2 DEF Calls, InHand
  <2> QED
    BY <1>1, <1>2, <1>3, <2>1, <2>2, LoggingAssumption DEF Mutexes, Rendering
<1>6. Queues' /\ Rest'
  BY <1>1 DEF LockRender, lokiVars, batchVars, ruleVars, Queues, Rest
<1> QED
  BY <1>4, <1>5, <1>6, PartsNext

LEMMA WriteTypes ==
  ASSUME Types, NEW t \in Threads, Write(t)
  PROVE  Types'
<1>1. Calls /\ Mutexes /\ Queues /\ Rest
  BY Parts
<1>2. /\ pc[t] = "write" /\ Goto(t, "parse")
      /\ UNCHANGED <<made, logger, out, record, logged, lokiMu, mu>>
  BY DEF Write, lokiVars
<1>3. Calls'
  BY <1>1, <1>2, GotoCalls DEF Calls, InHand
<1>4. Mutexes'
  <2>1. \A u \in Threads : pc'[u] = IF u = t THEN "parse" ELSE pc[u]
    BY <1>1, <1>2 DEF Calls, Goto
  <2> QED
    BY <1>1, <1>2, <2>1 DEF Mutexes, Rendering
<1>5. record[t] \in Record
  BY <1>1, <1>2 DEF Calls, InHand
<1>6. buf' \in Seq(Record \cup {Torn})
  <2> DEFINE S == Record \cup {Torn}
  <2>1. /\ buf \in Seq(S) /\ record[t] \in S /\ Torn \in S
        /\ buf' \in {Append(buf, record[t]), <<record[t]>>, buf, Append(buf, Torn)}
    BY <1>1, <1>5 DEF Write, Written, Rest
  <2> HIDE DEF S
  <2>2. /\ Append(buf, record[t]) \in Seq(S) /\ Append(buf, Torn) \in Seq(S)
        /\ <<record[t]>> \in Seq(S)
    BY <2>1
  <2>3. buf' \in Seq(S)
    BY <2>1, <2>2
  <2> QED
    BY <2>3 DEF S
<1>7. Queues' /\ Rest'
  BY <1>1, <1>6 DEF Write, lokiVars, batchVars, ruleVars, Queues, Rest
<1> QED
  BY <1>3, <1>4, <1>7, PartsNext

LEMMA UnlockMutexes ==
  ASSUME Types, NEW t \in Threads, pc[t] \in Rendering, Unlock(t),
         NEW w, w \notin Rendering \cup {"transmit"}, Goto(t, w),
         UNCHANGED <<logger, lokiMu>>
  PROVE  /\ mu' \in [Loggers -> Threads \cup {None}]
         /\ Mutexes'
<1>1. Calls /\ Mutexes /\ Rest
  BY Parts
<1>2. mu' = [mu EXCEPT ![logger[t]] = None]
  BY DEF Unlock
<1>3. logger[t] \in Loggers
  BY <1>1 DEF Calls, Rest
<1>4. mu' \in [Loggers -> Threads \cup {None}]
  BY <1>1, <1>2 DEF Calls, InHand
<1>5. Mutexes'
  <2>1. \A u \in Threads : pc'[u] = IF u = t THEN w ELSE pc[u]
    BY <1>1 DEF Calls, Goto
  <2>2. \A l \in Loggers : mu'[l] = IF l = logger[t] THEN None ELSE mu[l]
    BY <1>1, <1>2 DEF Calls, InHand
  <2>3. mu[logger[t]] = t
    BY <1>1, <1>3 DEF Mutexes
  <2> QED
    BY <1>1, <1>3, <2>1, <2>2, <2>3, LoggingAssumption DEF Mutexes, Rendering
<1> QED
  BY <1>4, <1>5

LEMMA ParseTypes ==
  ASSUME Types, NEW t \in Threads, Parse(t)
  PROVE  Types'
<1>1. Calls /\ Mutexes /\ Queues /\ Rest
  BY Parts
<1>2. PICK x \in Readings(t) :
        /\ out' = [out EXCEPT ![t] = x]
        /\ \/ x = None /\ Unlock(t) /\ Goto(t, "idle")
           \/ x # None /\ Goto(t, "reset") /\ UNCHANGED mu
  BY DEF Parse
<1>3. /\ pc[t] = "parse" /\ UNCHANGED <<made, logger, record, logged, lokiMu>>
  BY DEF Parse, lokiVars
<1>4. x \in Record \cup {Torn, None}
  BY <1>1, <1>2 DEF Readings, Rest
<1>5. out' \in [Threads -> Record \cup {Torn, None}]
  BY <1>1, <1>2, <1>4 DEF Calls
<1>6. /\ mu' \in [Loggers -> Threads \cup {None}]
      /\ Mutexes'
  <2>1. CASE x = None /\ Unlock(t) /\ Goto(t, "idle")
    BY <2>1, <1>3, UnlockMutexes DEF Rendering
  <2>2. CASE x # None /\ Goto(t, "reset") /\ UNCHANGED mu
    <3>1. \A u \in Threads : pc'[u] = IF u = t THEN "reset" ELSE pc[u]
      BY <1>1, <2>2 DEF Calls, Goto
    <3> QED
      BY <1>1, <1>3, <2>2, <3>1 DEF Calls, InHand, Mutexes, Rendering
  <2> QED
    BY <1>2, <2>1, <2>2
<1>7. PICK w \in {"idle", "reset"} : Goto(t, w) /\ (w = "reset" => x # None)
  BY <1>2
<1>8. Calls'
  <2>1. pc' \in [Threads -> Rendering \cup {"idle", "users", "level", "loki", "transmit", "lock", "send"}]
    BY <1>1, <1>7 DEF Calls, Goto, Rendering
  <2>2. \A u \in Threads : pc'[u] = (IF u = t THEN w ELSE pc[u]) /\ out'[u] = IF u = t THEN x ELSE out[u]
    BY <1>1, <1>2, <1>7 DEF Calls, Goto
  <2>3. \A u \in Threads : pc'[u] # "idle" => record'[u] \in Record
    BY <1>1, <1>3, <2>2 DEF Calls, InHand
  <2>4. \A u \in Threads : pc'[u] \in {"reset", "send"} => out'[u] \in Record \cup {Torn}
    BY <1>1, <1>4, <1>7, <2>2 DEF Calls, InHand
  <2> QED
    BY <1>1, <1>3, <1>5, <1>6, <2>1, <2>3, <2>4 DEF Calls, InHand
<1>9. Queues' /\ Rest'
  BY <1>1 DEF Parse, lokiVars, batchVars, ruleVars, Queues, Rest
<1> QED
  BY <1>6, <1>8, <1>9, PartsNext

LEMMA ResetTypes ==
  ASSUME Types, NEW t \in Threads, Reset(t)
  PROVE  Types'
<1>1. Calls /\ Mutexes /\ Queues /\ Rest
  BY Parts
<1>2. /\ pc[t] = "reset" /\ Unlock(t) /\ Goto(t, "send") /\ buf' = <<>>
      /\ UNCHANGED <<made, logger, out, record, logged, lokiMu>>
  BY DEF Reset, lokiVars
<1>3. mu' \in [Loggers -> Threads \cup {None}] /\ Mutexes'
  BY <1>2, UnlockMutexes DEF Rendering
<1>4. Calls'
  <2>1. pc' \in [Threads -> Rendering \cup {"idle", "users", "level", "loki", "transmit", "lock", "send"}]
    BY <1>1, <1>2 DEF Calls, Goto
  <2>2. \A u \in Threads : pc'[u] # "idle" => record'[u] \in Record
    BY <1>1, <1>2 DEF Calls, InHand, Goto
  <2>3. \A u \in Threads : pc'[u] \in {"reset", "send"} => out'[u] \in Record \cup {Torn}
    BY <1>1, <1>2 DEF Calls, InHand, Goto
  <2> QED
    BY <1>1, <1>2, <1>3, <2>1, <2>2, <2>3 DEF Calls, InHand
<1>5. Queues' /\ Rest'
  BY <1>1, <1>2 DEF Reset, lokiVars, batchVars, ruleVars, Queues, Rest
<1> QED
  BY <1>3, <1>4, <1>5, PartsNext

(* The rows on their way to the table.                                     *)
LEMMA RowType ==
  ASSUME Types, NEW t \in Threads, pc[t] = "send"
  PROVE  RowOf(t) \in Row
<1>1. record[t] \in Record /\ out[t] \in Record \cup {Torn}
  BY DEF Types, InHand
<1> QED
  BY <1>1 DEF RowOf, Row

LEMMA SendTypes ==
  ASSUME Types, NEW t \in Threads, Send(t)
  PROVE  Types'
<1>1. Calls /\ Mutexes /\ Queues /\ Rest
  BY Parts
<1>2. /\ pc[t] = "send" /\ Goto(t, "idle")
      /\ Len(records) < ChanCap /\ records' = Append(records, RowOf(t))
      /\ UNCHANGED <<made, logger, out, record, logged, lokiMu, mu, batch, batchPc>>
  BY DEF Send, lokiVars, pgVars
<1>3. Calls' /\ Mutexes'
  BY <1>1, <1>2, GotoCalls, GotoMutexes DEF Calls, InHand, Rendering
<1>4. records' \in Seq(Row) /\ Len(records') <= ChanCap
  BY <1>1, <1>2, RowType, LoggingAssumption DEF Queues
<1>5. Queues' /\ Rest'
  BY <1>1, <1>2, <1>4 DEF Send, lokiVars, pgVars, ruleVars, Queues, Rest
<1> QED
  BY <1>3, <1>5, PartsNext

LEMMA SaveTypes ==
  ASSUME Types, NEW t \in Threads, Save(t)
  PROVE  Types'
<1>1. Calls /\ Mutexes /\ Queues /\ Rest
  BY Parts
<1>2. /\ pc[t] = "send" /\ Goto(t, "idle")
      /\ UNCHANGED <<made, logger, out, record, logged, lokiMu, mu>>
  BY DEF Save, lokiVars, pgVars
<1>3. Calls' /\ Mutexes'
  BY <1>1, <1>2, GotoCalls, GotoMutexes DEF Calls, InHand, Rendering
<1>4. Queues' /\ Rest'
  BY <1>1 DEF Save, lokiVars, pgVars, batchVars, ruleVars, Queues, Rest
<1> QED
  BY <1>3, <1>4, PartsNext

LEMMA BatchesTypes ==
  ASSUME Types, Batches
  PROVE  Types'
<1>1. Calls /\ Mutexes /\ Queues /\ Rest
  BY Parts
<1>2. Calls' /\ Mutexes' /\ Rest'
  BY <1>1 DEF Batches, Receive, Tick, SaveBatch, callVars, lokiVars, pgVars, ruleVars,
              Calls, InHand, Mutexes, Rest
<1>3. Queues'
  <2>1. CASE Receive
    <3>1. Head(records) \in Row /\ Tail(records) \in Seq(Row)
          /\ Len(Tail(records)) = Len(records) - 1
      BY <1>1, <2>1 DEF Receive, Queues
    <3>2. /\ Append(batch, Head(records)) \in Seq(Row)
          /\ Len(Append(batch, Head(records))) = Len(batch) + 1
          /\ Append(batch, Head(records)) # <<>>
      BY <1>1, <3>1 DEF Queues
    <3>3. Len(batch) < MaxBatch /\ Len(batch) \in Nat /\ Len(records) \in Nat
      BY <1>1, <2>1 DEF Receive, Queues
    <3> QED
      BY <1>1, <2>1, <3>1, <3>2, <3>3, LoggingAssumption DEF Receive, Queues
  <2>2. CASE Tick
    BY <1>1, <2>2 DEF Tick, Queues
  <2>3. CASE SaveBatch
    BY <1>1, <2>3, LoggingAssumption DEF SaveBatch, Queues
  <2> QED
    BY <2>1, <2>2, <2>3 DEF Batches
<1> QED
  BY <1>2, <1>3, PartsNext

LEMMA WithTypes ==
  ASSUME Types, NEW l \in Loggers, NEW parent \in Loggers, With(l, parent)
  PROVE  Types'
<1>1. Calls /\ Mutexes /\ Queues /\ Rest
  BY Parts
<1>2. /\ made' = made \cup {l} /\ parent \in made
      /\ available' = [k \in made' |-> available[IF k = l THEN parent ELSE k]]
      /\ UNCHANGED <<callVars, lokiMu, lokiBuf, pgVars, batchVars, ruleVars>>
  BY DEF With
<1>3. Calls' /\ Mutexes' /\ Queues'
  BY <1>1, <1>2 DEF callVars, pgVars, batchVars, Calls, InHand, Mutexes, Queues
<1>4. available' \in [made' -> BOOLEAN]
  BY <1>1, <1>2 DEF Rest
<1>5. Rest'
  BY <1>1, <1>2, <1>4 DEF pgVars, ruleVars, Rest
<1> QED
  BY <1>3, <1>5, PartsNext

(* The level, the settings and Loki are changed from outside.              *)
LEMMA OutsideTypes ==
  ASSUME Types,
         \/ \E v \in Levels : SetLevel(v)
         \/ \E s \in Settings : SaveSetting(s)
         \/ \E answer \in BOOLEAN : RetryLoki(answer)
  PROVE  Types'
<1>1. Calls /\ Mutexes /\ Queues /\ Rest
  BY Parts
<1>2. UNCHANGED <<callVars, lokiMu, lokiBuf, pgVars, batchVars, made>>
  BY DEF SetLevel, SaveSetting, RetryLoki, lokiVars
<1>3. Calls' /\ Mutexes' /\ Queues'
  BY <1>1, <1>2 DEF callVars, pgVars, batchVars, Calls, InHand, Mutexes, Queues
<1>4. /\ available' \in [made -> BOOLEAN]
      /\ level' \in Levels
      /\ setting' \in Settings \cup {NoSetting}
  BY <1>1 DEF SetLevel, SaveSetting, RetryLoki, lokiVars, ruleVars, Rest
<1>5. Rest'
  BY <1>1, <1>2, <1>4 DEF pgVars, Rest
<1> QED
  BY <1>3, <1>5, PartsNext

LEMMA RestartTypes ==
  ASSUME Types, Restart
  PROVE  Types'
<1>1. Calls /\ Mutexes /\ Queues /\ Rest
  BY Parts
<1>2. Calls'
  BY <1>1, LoggingAssumption DEF Restart, Calls, InHand
<1>3. Mutexes'
  BY <1>1, LoggingAssumption DEF Restart, Mutexes, Rendering
<1>4. Queues'
  BY LoggingAssumption DEF Restart, Queues
<1>5. Rest'
  BY <1>1, LoggingAssumption DEF Restart, ruleVars, Rest
<1> QED
  BY <1>2, <1>3, <1>4, <1>5, PartsNext

LEMMA NextTypes == Types /\ [Next]_vars => Types'
<1> SUFFICES ASSUME Types, [Next]_vars PROVE Types'
  OBVIOUS
<1>1. ASSUME NEW t \in Threads, Step(t) PROVE Types'
  BY <1>1, ReadTypes, LokiTakeTypes, LokiSendTypes, LockRenderTypes, WriteTypes, ParseTypes,
     ResetTypes, SendTypes, SaveTypes DEF Step
<1>2. CASE UNCHANGED vars
  BY <1>2 DEF vars, callVars, lokiVars, pgVars, batchVars, ruleVars,
              Types, TypeOK, InHand
<1> QED
  BY <1>1, <1>2, LogTypes, BatchesTypes, WithTypes, OutsideTypes, RestartTypes DEF Next

(* The log only holds types that its code can put there: the mutex of a    *)
(* logger is held by the thread that renders with it, the one of Loki by   *)
(* the thread that transmits, and channel and batch keep their bounds.     *)
THEOREM TypeCorrect == Spec => []TypeOK
<1>1. Types => TypeOK
  BY DEF Types
<1> QED
  BY <1>1, InitTypes, NextTypes, PTL DEF Spec

-----------------------------------------------------------------------------
(* A rendering that has not met another one has its own record at the end  *)
(* of the buffer until it has read it, and from then on in hand.           *)
HasOwn(t) ==
  record[t] \notin disturbed =>
    /\ pc[t] = "parse" => buf # <<>> /\ buf[Len(buf)] = record[t]
    /\ pc[t] \in {"reset", "send"} => out[t] = record[t]

Honest(r) == r.log = r.of \/ r.of \in disturbed

(* So has every row, in the table or on its way.                           *)
RowsInv ==
  /\ \A i \in 1..Len(records) : Honest(records[i])
  /\ \A i \in 1..Len(batch) : Honest(batch[i])
  /\ \A r \in table : Honest(r)

HonestInv == Types /\ (\A t \in Threads : HasOwn(t)) /\ RowsInv

LEMMA InitHonest == Init => HonestInv
<1> SUFFICES ASSUME Init PROVE HonestInv
  OBVIOUS
<1>1. \A t \in Threads : HasOwn(t)
  BY DEF Init, HasOwn
<1>2. RowsInv
  BY DEF Init, InMemory, RowsInv
<1> QED
  BY <1>1, <1>2, InitTypes DEF HonestInv

(* Two threads that render use two loggers.                                *)
LEMMA OtherLoggers ==
  ASSUME Types, NEW t \in Threads, pc[t] \in Rendering, NEW u \in Others(t)
  PROVE  u \in Threads /\ u # t /\ logger[u] # logger[t]
<1>1. u \in Threads /\ u # t /\ pc[u] \in Rendering
  BY DEF Others
<1>2. logger[t] \in Loggers /\ mu[logger[t]] = t /\ (logger[u] = logger[t] => mu[logger[t]] = u)
  BY <1>1, Parts DEF Mutexes, Calls, Rest
<1> QED
  BY <1>1, <1>2

(* Whoever is met is disturbed, and nobody stops being so.                 *)
LEMMA MeetsDisturbs ==
  ASSUME Types, NEW t \in Threads, pc[t] \in Rendering, Meets(t)
  PROVE  /\ disturbed \subseteq disturbed'
         /\ \A u \in Others(t) : record[u] \in disturbed' /\ record[t] \in disturbed'
<1> DEFINE met == {u \in Others(t) : logger[u] # logger[t]}
<1>1. disturbed' = IF met = {} THEN disturbed ELSE disturbed \cup {record[u] : u \in met \cup {t}}
  BY DEF Meets
<1>2. \A u \in Others(t) : u \in met
  BY OtherLoggers
<1> HIDE DEF met
<1> QED
  BY <1>1, <1>2

LEMMA RowsKept ==
  ASSUME RowsInv, disturbed \subseteq disturbed', UNCHANGED <<records, batch, table>>
  PROVE  RowsInv'
  BY DEF RowsInv, Honest

(* A thread in hand stays so while the others leave its record alone.      *)
LEMMA OwnKept ==
  ASSUME NEW t \in Threads, HasOwn(t), disturbed \subseteq disturbed',
         record'[t] = record[t], pc'[t] = pc[t], out'[t] = out[t],
         pc[t] = "parse" => buf' = buf \/ record[t] \in disturbed'
  PROVE  HasOwn(t)'
  BY DEF HasOwn

(* Steps that neither render nor move a row.                               *)
LEMMA QuietHonest ==
  ASSUME HonestInv, Types', disturbed \subseteq disturbed',
         UNCHANGED <<records, batch, table, buf, out>>,
         NEW t \in Threads, NEW w, Goto(t, w),
         w \in {"idle", "users", "level", "loki", "transmit", "lock", "write"},
         \A u \in Threads \ {t} : record'[u] = record[u]
  PROVE  HonestInv'
<1>1. RowsInv'
  BY RowsKept DEF HonestInv
<1>2. ASSUME NEW u \in Threads PROVE HasOwn(u)'
  <2>1. pc'[u] = IF u = t THEN w ELSE pc[u]
    BY DEF Goto, HonestInv, Types, TypeOK
  <2> QED
    BY <2>1, OwnKept DEF HonestInv, HasOwn
<1> QED
  BY <1>1, <1>2 DEF HonestInv

LEMMA WriteHonest ==
  ASSUME HonestInv, NEW t \in Threads, Write(t)
  PROVE  HonestInv'
<1>1. Types /\ Types'
  BY WriteTypes DEF HonestInv
<1>2. /\ pc[t] = "write" /\ pc[t] \in Rendering /\ Goto(t, "parse") /\ Meets(t)
      /\ buf' \in Written(t)
      /\ UNCHANGED <<record, out, records, batch, table>>
  BY DEF Write, Rendering, batchVars, storeVars
<1>3. /\ disturbed \subseteq disturbed'
      /\ \A u \in Others(t) : record[u] \in disturbed' /\ record[t] \in disturbed'
  BY <1>1, <1>2, MeetsDisturbs
<1>4. RowsInv'
  BY <1>2, <1>3, RowsKept DEF HonestInv
<1>5. \A u \in Threads : pc'[u] = IF u = t THEN "parse" ELSE pc[u]
  BY <1>1, <1>2 DEF Goto, Types, TypeOK
<1>6. HasOwn(t)'
  <2>1. CASE \E u \in Others(t) : TRUE
    BY <1>2, <1>3, <2>1 DEF HasOwn
  <2>2. CASE Others(t) = {}
    <3>1. buf' = Append(buf, record[t])
      BY <1>2, <2>2 DEF Written
    <3>2. \E S : buf \in Seq(S) /\ record[t] \in S
      <4>1. buf \in Seq(Record \cup {Torn}) /\ record[t] \in Record
        BY <1>1, <1>2 DEF Types, TypeOK, InHand
      <4> QED
        BY <4>1
    <3>3. buf' # <<>> /\ buf'[Len(buf')] = record[t]
      BY <3>1, <3>2
    <3> QED
      BY <1>2, <1>5, <3>3 DEF HasOwn
  <2> QED
    BY <2>1, <2>2
<1>7. ASSUME NEW u \in Threads \ {t} PROVE HasOwn(u)'
  <2>1. pc[u] = "parse" => record[u] \in disturbed'
    BY <1>3 DEF Others, Rendering
  <2> QED
    BY <1>2, <1>3, <1>5, <2>1, OwnKept DEF HonestInv
<1> QED
  BY <1>1, <1>4, <1>6, <1>7 DEF HonestInv

LEMMA ParseHonest ==
  ASSUME HonestInv, NEW t \in Threads, Parse(t)
  PROVE  HonestInv'
<1>1. Types /\ Types'
  BY ParseTypes DEF HonestInv
<1>2. PICK x \in Readings(t) :
        /\ out' = [out EXCEPT ![t] = x]
        /\ \/ x = None /\ Unlock(t) /\ Goto(t, "idle")
           \/ x # None /\ Goto(t, "reset") /\ UNCHANGED mu
  BY DEF Parse
<1>3. /\ pc[t] = "parse" /\ pc[t] \in Rendering /\ Meets(t)
      /\ UNCHANGED <<record, buf, records, batch, table>>
  BY DEF Parse, Rendering, batchVars, storeVars
<1>4. /\ disturbed \subseteq disturbed'
      /\ \A u \in Others(t) : record[u] \in disturbed' /\ record[t] \in disturbed'
  BY <1>1, <1>3, MeetsDisturbs
<1>5. RowsInv'
  BY <1>3, <1>4, RowsKept DEF HonestInv
<1>6. PICK w \in {"idle", "reset"} : Goto(t, w) /\ (w = "reset" => x # None)
  BY <1>2
<1>7. \A u \in Threads : /\ pc'[u] = IF u = t THEN w ELSE pc[u]
                         /\ out'[u] = IF u = t THEN x ELSE out[u]
  BY <1>1, <1>2, <1>6 DEF Goto, Types, TypeOK
<1>8. HasOwn(t)'
  <2>1. CASE record[t] \in disturbed'
    BY <1>3, <2>1 DEF HasOwn
  <2>2. CASE record[t] \notin disturbed'
    <3>1. Others(t) = {}
      BY <1>4, <2>2
    <3>2. buf # <<>> /\ buf[Len(buf)] = record[t]
      BY <1>3, <1>4, <2>2 DEF HonestInv, HasOwn
    <3>3. buf = <<Torn>> => record[t] = Torn
      BY <3>2
    <3>4. x # None => x = record[t]
      BY <3>1, <3>2, <3>3 DEF Readings
    <3> QED
      BY <1>3, <1>6, <1>7, <3>4 DEF HasOwn
  <2> QED
    BY <2>1, <2>2
<1>9. ASSUME NEW u \in Threads \ {t} PROVE HasOwn(u)'
  BY <1>3, <1>4, <1>7, OwnKept DEF HonestInv
<1> QED
  BY <1>1, <1>5, <1>8, <1>9 DEF HonestInv

LEMMA ResetHonest ==
  ASSUME HonestInv, NEW t \in Threads, Reset(t)
  PROVE  HonestInv'
<1>1. Types /\ Types'
  BY ResetTypes DEF HonestInv
<1>2. /\ pc[t] = "reset" /\ pc[t] \in Rendering /\ Meets(t) /\ Goto(t, "send")
      /\ UNCHANGED <<record, out, records, batch, table>>
  BY DEF Reset, Rendering, batchVars, storeVars
<1>3. /\ disturbed \subseteq disturbed'
      /\ \A u \in Others(t) : record[u] \in disturbed' /\ record[t] \in disturbed'
  BY <1>1, <1>2, MeetsDisturbs
<1>4. RowsInv'
  BY <1>2, <1>3, RowsKept DEF HonestInv
<1>5. \A u \in Threads : pc'[u] = IF u = t THEN "send" ELSE pc[u]
  BY <1>1, <1>2 DEF Goto, Types, TypeOK
<1>6. HasOwn(t)'
  BY <1>2, <1>3, <1>5 DEF HonestInv, HasOwn
<1>7. ASSUME NEW u \in Threads \ {t} PROVE HasOwn(u)'
  <2>1. pc[u] = "parse" => record[u] \in disturbed'
    BY <1>3 DEF Others, Rendering
  <2> QED
    BY <1>2, <1>3, <1>5, <2>1, OwnKept DEF HonestInv
<1> QED
  BY <1>1, <1>4, <1>6, <1>7 DEF HonestInv

(* What render returns becomes a row.                                      *)
LEMMA RowHonest ==
  ASSUME HonestInv, NEW t \in Threads, pc[t] = "send"
  PROVE  Honest(RowOf(t))
  BY DEF HonestInv, HasOwn, Honest, RowOf

LEMMA SaveLogsHonest ==
  ASSUME RowsInv, NEW rows, SaveLogs(rows), \A r \in ToSet(rows) : Honest(r)
  PROVE  \A r \in table' : Honest(r)
  BY DEF SaveLogs, RowsInv

LEMMA SendHonest ==
  ASSUME HonestInv, NEW t \in Threads, Send(t) \/ Save(t)
  PROVE  HonestInv'
<1>1. Types /\ Types'
  BY SendTypes, SaveTypes DEF HonestInv
<1>2. /\ pc[t] = "send" /\ Goto(t, "idle")
      /\ UNCHANGED <<record, out, buf, disturbed, batch>>
  BY DEF Send, Save, pgVars, batchVars
<1>3. ASSUME NEW u \in Threads PROVE HasOwn(u)'
  <2>1. pc'[u] = IF u = t THEN "idle" ELSE pc[u]
    BY <1>1, <1>2 DEF Goto, Types, TypeOK
  <2> QED
    BY <1>2, <2>1 DEF HonestInv, HasOwn
<1>4. Honest(RowOf(t)) /\ RowOf(t) \in Row
  BY <1>1, <1>2, RowHonest, RowType
<1>5. RowsInv'
  <2>1. CASE Send(t)
    <3>1. /\ records' = Append(records, RowOf(t)) /\ records \in Seq(Row)
          /\ UNCHANGED table
      BY <1>1, <2>1 DEF Send, storeVars, Types, TypeOK
    <3>2. /\ Len(records') = Len(records) + 1 /\ Len(records) \in Nat
          /\ \A i \in 1..Len(records) : records'[i] = records[i]
          /\ records'[Len(records) + 1] = RowOf(t)
      BY <1>4, <3>1
    <3>3. \A i \in 1..Len(records') : Honest(records'[i])
      BY <1>4, <3>2 DEF HonestInv, RowsInv
    <3> QED
      BY <1>2, <3>1, <3>3 DEF HonestInv, RowsInv, Honest
  <2>2. CASE Save(t)
    <3>1. SaveLogs(<<RowOf(t)>>) /\ UNCHANGED records
      BY <2>2 DEF Save, batchVars
    <3>2. \A r \in ToSet(<<RowOf(t)>>) : Honest(r)
      BY <1>4 DEF ToSet
    <3>3. \A r \in table' : Honest(r)
      BY <3>1, <3>2, SaveLogsHonest DEF HonestInv
    <3> QED
      BY <1>2, <3>1, <3>3 DEF HonestInv, RowsInv, Honest
  <2> QED
    BY <2>1, <2>2
<1> QED
  BY <1>1, <1>3, <1>5 DEF HonestInv

LEMMA BatchesHonest ==
  ASSUME HonestInv, Batches
  PROVE  HonestInv'
<1>1. Types /\ Types'
  BY BatchesTypes DEF HonestInv
<1>2. UNCHANGED <<pc, record, out, buf, disturbed>>
  BY DEF Batches, Receive, Tick, SaveBatch, callVars, pgVars
<1>3. \A t \in Threads : HasOwn(t)'
  BY <1>2 DEF HonestInv, HasOwn
<1>4. records \in Seq(Row) /\ batch \in Seq(Row)
  BY <1>1 DEF Types, TypeOK
<1>5. RowsInv'
  <2>1. CASE Receive
    <3>1. /\ records # <<>> /\ batch' = Append(batch, Head(records)) /\ records' = Tail(records)
          /\ UNCHANGED table
      BY <2>1 DEF Receive, storeVars
    <3>2. /\ Head(records) \in Row /\ Head(records) = records[1]
          /\ Len(records) \in Nat /\ Len(records) > 0 /\ Len(records') = Len(records) - 1
          /\ \A i \in 1..Len(records') : records'[i] = records[i + 1]
      BY <1>4, <3>1
    <3>3. \A i \in 1..Len(records') : Honest(records'[i])
      BY <3>2 DEF HonestInv, RowsInv
    <3>4. /\ Len(batch') = Len(batch) + 1 /\ Len(batch) \in Nat
          /\ \A i \in 1..Len(batch) : batch'[i] = batch[i]
          /\ batch'[Len(batch) + 1] = records[1]
      BY <1>4, <3>1, <3>2
    <3>5. \A i \in 1..Len(batch') : Honest(batch'[i])
      BY <3>2, <3>4 DEF HonestInv, RowsInv
    <3> QED
      BY <1>2, <3>1, <3>3, <3>5 DEF HonestInv, RowsInv, Honest
  <2>2. CASE Tick
    BY <1>2, <2>2, RowsKept DEF Tick, storeVars, HonestInv
  <2>3. CASE SaveBatch
    <3>1. SaveLogs(batch) /\ batch' = <<>> /\ UNCHANGED records
      BY <2>3 DEF SaveBatch
    <3>2. \A r \in ToSet(batch) : Honest(r)
      BY <1>4 DEF ToSet, HonestInv, RowsInv
    <3>3. \A r \in table' : Honest(r)
      BY <3>1, <3>2, SaveLogsHonest DEF HonestInv
    <3> QED
      BY <1>2, <3>1, <3>3 DEF HonestInv, RowsInv, Honest
  <2> QED
    BY <2>1, <2>2, <2>3 DEF Batches
<1> QED
  BY <1>1, <1>3, <1>5 DEF HonestInv

LEMMA RestartHonest ==
  ASSUME HonestInv, Restart
  PROVE  HonestInv'
<1>1. Types'
  BY RestartTypes DEF HonestInv
<1>2. \A t \in Threads : HasOwn(t)'
  BY DEF Restart, HasOwn
<1>3. RowsInv'
  BY DEF Restart, HonestInv, RowsInv, Honest
<1> QED
  BY <1>1, <1>2, <1>3 DEF HonestInv

LEMMA NextHonest == HonestInv /\ [Next]_vars => HonestInv'
<1> SUFFICES ASSUME HonestInv, [Next]_vars PROVE HonestInv'
  OBVIOUS
<1>1. Types'
  BY NextTypes DEF HonestInv
<1>2. ASSUME NEW t \in Threads, ReadUsers(t) \/ ReadLevel(t) \/ LokiTake(t) \/ LokiSend(t) \/ LockRender(t)
      PROVE  HonestInv'
  <2>1. \E w \in {"idle", "users", "level", "loki", "transmit", "lock", "write"} : Goto(t, w)
    BY <1>2 DEF ReadUsers, ReadLevel, LokiTake, LokiSend, LockRender
  <2>2. UNCHANGED <<records, batch, table, buf, out, record, disturbed>>
    BY <1>2 DEF ReadUsers, ReadLevel, LokiTake, LokiSend, LockRender, pgVars, batchVars, storeVars
  <2> QED
    BY <1>1, <2>1, <2>2, QuietHonest
<1>3. ASSUME NEW t \in Threads, NEW l \in Loggers, NEW v \in Levels, Log(t, l, v) PROVE HonestInv'
  <2>1. \E w \in {"idle", "users", "level", "loki", "transmit", "lock", "write"} : Goto(t, w)
    BY <1>3 DEF Log
  <2>2. UNCHANGED <<records, batch, table, buf, out, disturbed>>
    BY <1>3 DEF Log, pgVars, batchVars, storeVars
  <2>3. \A u \in Threads \ {t} : record'[u] = record[u]
    BY <1>3 DEF Log, HonestInv, Types, InHand
  <2> QED
    BY <1>1, <2>1, <2>2, <2>3, QuietHonest
<1>4. ASSUME UNCHANGED <<pc, record, out, buf, disturbed, records, batch, table>> PROVE HonestInv'
  BY <1>1, <1>4 DEF HonestInv, HasOwn, RowsInv, Honest
<1>5. CASE \E l \in Loggers, parent \in Loggers : With(l, parent)
  BY <1>4, <1>5 DEF With, callVars, pgVars, batchVars, storeVars
<1>6. CASE \/ \E v \in Levels : SetLevel(v)
           \/ \E s \in Settings : SaveSetting(s)
           \/ \E answer \in BOOLEAN : RetryLoki(answer)
  BY <1>4, <1>6 DEF SetLevel, SaveSetting, RetryLoki, callVars, pgVars, batchVars, storeVars
<1>7. CASE UNCHANGED vars
  BY <1>4, <1>7 DEF vars, callVars, pgVars, batchVars, storeVars
<1> QED
  BY <1>2, <1>3, <1>5, <1>6, <1>7, WriteHonest, ParseHonest, ResetHonest, SendHonest,
     BatchesHonest, RestartHonest DEF Next, Step

(* A row of the log carries the time and the user of the record that its   *)
(* JSON is from: the mutex of a logger is enough for its own renderings,   *)
(* and only those that met one of a derived logger are at risk             *)
(* (postgres-handler.go:183-228, 239-259).                                 *)
THEOREM RowsCorrect == Spec => []RowsHonest
<1>1. HonestInv => RowsHonest
  BY DEF HonestInv, RowsInv, Honest, RowsHonest
<1> QED
  BY <1>1, InitHonest, NextHonest, PTL DEF Spec

-----------------------------------------------------------------------------
LEMMA NextKeeps == Types /\ LokiKeeps /\ [Next]_vars => LokiKeeps'
<1> SUFFICES ASSUME Types, LokiKeeps, [Next]_vars PROVE LokiKeeps'
  OBVIOUS
<1>1. ASSUME UNCHANGED <<rendered, loki, lokiBuf>> PROVE LokiKeeps'
  BY <1>1 DEF LokiKeeps
<1>2. lokiBuf \in Seq(Record)
  BY DEF Types, TypeOK
<1>3. ASSUME NEW t \in Threads, LokiTake(t) PROVE LokiKeeps'
  <2>1. CASE UNCHANGED <<rendered, lokiBuf>>
    BY <1>1, <1>3, <2>1 DEF LokiTake
  <2>2. CASE lokiBuf' = Append(lokiBuf, record[t]) /\ rendered' = rendered \cup {record[t]}
    <3>1. record[t] \in Record
      BY <1>3 DEF LokiTake, Types, InHand
    <3>2. /\ Len(lokiBuf') = Len(lokiBuf) + 1 /\ Len(lokiBuf) \in Nat
          /\ \A i \in 1..Len(lokiBuf) : lokiBuf'[i] = lokiBuf[i]
          /\ lokiBuf'[Len(lokiBuf) + 1] = record[t]
          /\ lokiBuf' \in Seq(Record)
      BY <1>2, <2>2, <3>1
    <3>3. ToSet(lokiBuf) \cup {record[t]} \subseteq ToSet(lokiBuf')
      BY <1>2, <3>2 DEF ToSet
    <3>4. loki' = loki
      BY <1>3 DEF LokiTake
    <3> QED
      BY <2>2, <3>3, <3>4 DEF LokiKeeps
  <2> QED
    BY <1>3, <2>1, <2>2 DEF LokiTake
<1>4. ASSUME NEW t \in Threads, LokiSend(t) PROVE LokiKeeps'
  BY <1>4 DEF LokiSend, LokiReset, LokiKeeps
<1>5. ASSUME NEW t \in Threads, Step(t) PROVE LokiKeeps'
  BY <1>1, <1>3, <1>4, <1>5
     DEF Step, ReadUsers, ReadLevel, LockRender, Write, Parse, Reset, Send, Save, lokiVars
<1>6. CASE Restart
  BY <1>6 DEF Restart, LokiKeeps
<1>7. CASE UNCHANGED vars
  BY <1>1, <1>7 DEF vars, lokiVars
<1>8. CASE Batches
  BY <1>1, <1>8 DEF Batches, Receive, Tick, SaveBatch, lokiVars
<1>9. CASE \/ \E t \in Threads, l \in Loggers, v \in Levels : Log(t, l, v)
           \/ \E l \in Loggers, parent \in Loggers : With(l, parent)
           \/ \E v \in Levels : SetLevel(v)
           \/ \E s \in Settings : SaveSetting(s)
           \/ \E answer \in BOOLEAN : RetryLoki(answer)
  BY <1>1, <1>9 DEF Log, With, SetLevel, SaveSetting, RetryLoki, lokiVars
<1> QED
  BY <1>5, <1>6, <1>7, <1>8, <1>9 DEF Next

(* No record that was rendered for Loki is lost while the process runs,    *)
(* however many transmissions fail: it has arrived or is sent again.       *)
THEOREM LokiKeepsAll == Spec => []LokiKeeps
<1>1. Init => LokiKeeps
  BY DEF Init, LokiKeeps
<1> QED
  BY <1>1, InitTypes, NextTypes, NextKeeps, PTL DEF Spec
=============================================================================
