------------------------------ MODULE Logging ------------------------------
(***************************************************************************)
(* The logger of package alog as NewDevelopment builds it: an              *)
(* arrowerHandler that filters by level and by user, and hands each record *)
(* to a LokiHandler and then to a PostgresHandler, in the goroutine of the *)
(* caller (src/alog/arrower-logger.go, loki-handler.go,                    *)
(* postgres-handler.go).  Threads log at the same time, through the logger *)
(* itself and through loggers derived from it by With and WithGroup.       *)
(*                                                                         *)
(* Both handlers render a record into a buffer that all the loggers share. *)
(* The Loki handlers share their mutex as well; WithAttrs and WithGroup of *)
(* a PostgresHandler create a new one, so two derived loggers may render   *)
(* at the same time: a data race, whose outcomes are in Written and        *)
(* Readings.                                                               *)
(*                                                                         *)
(* A record is named by who logs it, its number and its level; a row of    *)
(* the table arrower.log has the record whose time and user it carries     *)
(* ("of") and the one that its JSON is from ("log").                       *)
(***************************************************************************)
EXTENDS Integers, Sequences, SequencesExt

CONSTANTS
    Threads,        \* the goroutines that log
    Users,          \* those of them whose context carries the ID of a user
    Loggers, Root,  \* the loggers; Root is the one that New returns
    Levels,         \* the levels of records, settings and loggers
    ChanCap,        \* defaultLogChanBuffer
    MaxBatch,       \* PostgresHandlerOptions.MaxBatchSize
    None, Torn,     \* nothing; bytes that are no single record, and no value of a setting
    MaxRecords,     \* bound: records of all threads
    MaxEvents       \* bound: derived loggers, changes of the level and the settings, pings, restarts

ASSUME LoggingAssumption ==
    /\ Users \subseteq Threads
    /\ Root \in Loggers
    /\ Levels \subseteq Int
    /\ ChanCap \in Nat \ {0} /\ MaxBatch \in Nat \ {0}
    /\ None \notin Threads \cup Levels
    /\ MaxRecords \in Nat /\ MaxEvents \in Nat

VARIABLES
    async,          \* PostgresHandler.isAsync
    usesSettings,   \* whether New was given settings
    level,          \* *tracedHandler.level, one for all loggers
    setting,        \* the settings arrower.log.level and arrower.log.users
    made,           \* the loggers that exist
    available,      \* what lokiAvailable of each logger points to
    lokiMu,         \* LokiHandler.mu, one for all
    lokiBuf,        \* LokiHandler.output, one for all
    loki,           \* the records that have arrived at Loki
    mu,             \* PostgresHandler.mu of each logger
    buf,            \* PostgresHandler.output, one for all
    records,        \* the channel of log records
    batch, batchPc, \* processBatches
    table,          \* the table arrower.log
    pc, logger,     \* of each thread: where it is, the logger it uses,
    record, out,    \*   its record, and what render returns for it
    rendered,       \* history: the records rendered for Loki
    disturbed,      \* history: the records whose rendering met another one
    dropped,        \* history: the records whose saving has failed
    logged, events  \* how many records there were, and how many events from outside

callVars == <<pc, logger, record, out, logged>>
lokiVars == <<available, lokiMu, lokiBuf, loki, rendered>>
pgVars == <<mu, buf, disturbed>>
batchVars == <<records, batch, batchPc>>
storeVars == <<table, dropped>>
configVars == <<async, usesSettings>>
ruleVars == <<level, setting>>
vars == <<callVars, lokiVars, pgVars, batchVars, storeVars, configVars, ruleVars, made, events>>

Record == [by: Threads, n: 1..MaxRecords, level: Levels]
Row == [of: Record, log: Record \cup {Torn}]

\* What is saved for the two settings, also texts that are no level and no list.
Settings == [level: Levels \cup {Torn}, users: (SUBSET Users) \cup {{Torn}}]

\* No value of a setting yet, and a thread that has not logged anything.
NoSetting == [level |-> None, users |-> {}]
NoRecord(t) == [by |-> t, n |-> 0, level |-> CHOOSE v \in Levels : TRUE]

InMemory ==
    /\ made = {Root}
    /\ available \in [{Root} -> BOOLEAN]
    /\ lokiMu = None /\ lokiBuf = <<>>
    /\ mu = [l \in Loggers |-> None] /\ buf = <<>>
    /\ records = <<>> /\ batch = <<>> /\ batchPc = "select"

\* New and NewDevelopment, with or without options and settings.
Init ==
    /\ async \in BOOLEAN /\ usesSettings \in BOOLEAN
    /\ level \in Levels /\ setting = NoSetting
    /\ InMemory
    /\ loki = {} /\ rendered = {} /\ disturbed = {}
    /\ table = {} /\ dropped = {}
    /\ pc = [t \in Threads |-> "idle"] /\ logger = [t \in Threads |-> Root]
    /\ record = [t \in Threads |-> NoRecord(t)] /\ out = [t \in Threads |-> None]
    /\ logged = 0 /\ events = 0

\* Something from outside happens.
Event == events < MaxEvents /\ events' = events + 1

Goto(t, where) == pc' = [pc EXCEPT ![t] = where]

-----------------------------------------------------------------------------
(* The arrowerHandler. *)

\* slog.Logger.Log and arrowerHandler.Enabled: without settings a record below
\* the level is not even made.
Log(t, l, v) ==
    /\ pc[t] = "idle" /\ logged < MaxRecords /\ logged' = logged + 1
    /\ l \in made
    /\ usesSettings \/ v >= level
    /\ record' = [record EXCEPT ![t] = [by |-> t, n |-> logged', level |-> v]]
    /\ logger' = [logger EXCEPT ![t] = l]
    /\ Goto(t, IF usesSettings /\ t \in Users THEN "users" ELSE "level")
    /\ UNCHANGED <<out, lokiVars, pgVars, batchVars, storeVars, configVars, ruleVars, made, events>>

\* tracedHandler.Enabled, first the users: an error of the settings is as if
\* the user were not listed, but a text that is no list makes the call panic.
ReadUsers(t) ==
    /\ pc[t] = "users"
    /\ \/ Goto(t, "level")
       \/ setting.users = {Torn} /\ Goto(t, "idle")
       \/ setting.users # {Torn} /\ Goto(t, IF t \in setting.users THEN "loki" ELSE "level")
    /\ UNCHANGED <<logger, record, out, logged, lokiVars, pgVars, batchVars, storeVars, configVars, ruleVars, made, events>>

\* The level that counts: the one of the settings, or if they are not used, have
\* none or cannot be read, the one of the logger.
Threshold(failed) ==
    IF usesSettings /\ ~failed /\ setting.level # None THEN setting.level ELSE level

\* A text that is no level makes the call panic.
Passes(t, threshold) == threshold # Torn /\ record[t].level >= threshold

ReadLevel(t) ==
    /\ pc[t] = "level"
    /\ \E failed \in BOOLEAN : Goto(t, IF Passes(t, Threshold(failed)) THEN "loki" ELSE "idle")
    /\ UNCHANGED <<logger, record, out, logged, lokiVars, pgVars, batchVars, storeVars, configVars, ruleVars, made, events>>

\* WithAttrs and WithGroup: the derived handlers share the level and the
\* buffers, have a mutex of their own for Postgres, and the pointer to the
\* availability of Loki that their parent has at this moment.
With(l, parent) ==
    /\ Event
    /\ l \notin made /\ parent \in made
    /\ made' = made \cup {l}
    /\ available' = [k \in made' |-> available[IF k = l THEN parent ELSE k]]
    /\ UNCHANGED <<callVars, lokiMu, lokiBuf, loki, rendered, pgVars, batchVars, storeVars, configVars, ruleVars>>

SetLevel(v) ==
    /\ Event
    /\ level # v /\ level' = v
    /\ UNCHANGED <<callVars, lokiVars, pgVars, batchVars, storeVars, configVars, setting, made>>

\* The administrator, through the settings.
SaveSetting(s) ==
    /\ Event
    /\ usesSettings /\ setting # s /\ setting' = s
    /\ UNCHANGED <<callVars, lokiVars, pgVars, batchVars, storeVars, configVars, level, made>>

-----------------------------------------------------------------------------
(* The LokiHandler. *)

\* Handle up to the transmission.  The mutex stays locked when the record is
\* sent, and is unlocked at once when Loki is not available.
LokiTake(t) ==
    /\ pc[t] = "loki" /\ lokiMu = None
    /\ \/ /\ ~available[logger[t]]
          /\ Goto(t, "lock")
          /\ UNCHANGED <<lokiMu, lokiBuf, rendered>>
       \/ /\ available[logger[t]]
          /\ lokiMu' = t
          /\ lokiBuf' = Append(lokiBuf, record[t])
          /\ rendered' = rendered \cup {record[t]}
          /\ Goto(t, "transmit")
    /\ UNCHANGED <<logger, record, out, logged, available, loki, pgVars, batchVars, storeVars, configVars, ruleVars, made, events>>

\* The bug of a buffer that is emptied whether the transmission has succeeded or not.
LokiResetAlways(failed) == <<>>

\* The buffer after a transmission: Reset only when it has succeeded.
LokiReset(failed) == IF failed THEN lokiBuf ELSE <<>>

\* sendToLoki and the rest of Handle.  The request may fail after it has
\* arrived; the error is joined with those of the other handlers.
LokiSend(t) ==
    /\ pc[t] = "transmit"
    /\ \E arrives \in BOOLEAN, failed \in BOOLEAN :
           /\ arrives \/ failed
           /\ loki' = IF arrives THEN loki \cup ToSet(lokiBuf) ELSE loki
           /\ lokiBuf' = LokiReset(failed)
    /\ lokiMu' = None
    /\ Goto(t, "lock")
    /\ UNCHANGED <<logger, record, out, logged, available, rendered, pgVars, batchVars, storeVars, configVars, ruleVars, made, events>>

\* retryLokiConnection: the handler that New has returned points to a new value.
RetryLoki(answer) ==
    /\ Event
    /\ lokiMu = None
    /\ available' = [available EXCEPT ![Root] = answer]
    /\ UNCHANGED <<callVars, lokiMu, lokiBuf, loki, rendered, pgVars, batchVars, storeVars, configVars, ruleVars, made>>

-----------------------------------------------------------------------------
(* The PostgresHandler. *)

\* render holds the mutex of its logger at these places.
Rendering == {"write", "parse", "reset"}

\* The threads that render at the same time as t.
Others(t) == {u \in Threads \ {t} : pc[u] \in Rendering}

\* A rendering that meets one of another logger, and the one it meets.
Meets(t) ==
    LET met == {u \in Others(t) : logger[u] # logger[t]}
    IN disturbed' = IF met = {} THEN disturbed ELSE disturbed \cup {record[u] : u \in met \cup {t}}

\* The bug of a render that gives its mutex back before it has read the buffer.
LockRenderShort(t) ==
    /\ pc[t] = "lock" /\ mu[logger[t]] = None
    /\ Goto(t, "write")
    /\ UNCHANGED <<logger, record, out, logged, lokiVars, pgVars, batchVars, storeVars, configVars, ruleVars, made, events>>

LockRender(t) ==
    /\ pc[t] = "lock" /\ mu[logger[t]] = None
    /\ mu' = [mu EXCEPT ![logger[t]] = t]
    /\ Goto(t, "write")
    /\ UNCHANGED <<logger, record, out, logged, lokiVars, buf, disturbed, batchVars, storeVars, configVars, ruleVars, made, events>>

\* What bytes.Buffer holds after a Write: the record at its end, or, when
\* another goroutine reads or resets it at the same time, the record alone, the
\* old bytes alone, or a mixture.
Written(t) ==
    {Append(buf, record[t])} \cup
    (IF \E u \in Others(t) : pc[u] \in {"parse", "reset"}
     THEN {<<record[t]>>, buf, Append(buf, Torn)} ELSE {})

\* renderer.Handle: slog's JSONHandler writes under a mutex that all its clones share.
Write(t) ==
    /\ pc[t] = "write"
    /\ buf' \in Written(t)
    /\ Meets(t)
    /\ Goto(t, "parse")
    /\ UNCHANGED <<logger, record, out, logged, lokiVars, mu, batchVars, storeVars, configVars, ruleVars, made, events>>

\* What json.Unmarshal makes of the buffer: the one record it holds, an error
\* (None), or, when the buffer is written at the same time, a mixture.
Readings(t) ==
    (IF Len(buf) = 1 THEN {buf[1]} ELSE {None}) \cup
    (IF buf = <<Torn>> \/ \E u \in Others(t) : pc[u] = "write" THEN {None, Torn} ELSE {})

\* The bug of a return that leaves the mutex locked.
UnlockNot(t) == UNCHANGED mu

\* The deferred Unlock of render.
Unlock(t) == mu' = [mu EXCEPT ![logger[t]] = None]

\* json.Unmarshal and json.Marshal.  On an error render returns with the buffer as
\* it is, and Handle returns the error.
Parse(t) ==
    /\ pc[t] = "parse"
    /\ \E x \in Readings(t) :
           /\ out' = [out EXCEPT ![t] = x]
           /\ \/ x = None /\ Unlock(t) /\ Goto(t, "idle")
              \/ x # None /\ Goto(t, "reset") /\ UNCHANGED mu
    /\ Meets(t)
    /\ UNCHANGED <<logger, record, logged, lokiVars, buf, batchVars, storeVars, configVars, ruleVars, made, events>>

Reset(t) ==
    /\ pc[t] = "reset"
    /\ buf' = <<>>
    /\ Meets(t) /\ Unlock(t)
    /\ Goto(t, "send")
    /\ UNCHANGED <<logger, record, out, logged, lokiVars, batchVars, storeVars, configVars, ruleVars, made, events>>

RowOf(t) == [of |-> record[t], log |-> out[t]]

\* saveLogs: one COPY, all rows or none; its error may come after they are stored.
SaveLogs(rows) ==
    \E stored \in BOOLEAN, failed \in BOOLEAN :
        /\ stored \/ failed
        /\ table' = IF stored THEN table \cup ToSet(rows) ELSE table
        /\ dropped' = IF failed THEN dropped \cup {r.of : r \in ToSet(rows)} ELSE dropped

\* The end of Handle with batches: the caller waits while the channel is full.
Send(t) ==
    /\ pc[t] = "send" /\ async
    /\ Len(records) < ChanCap
    /\ records' = Append(records, RowOf(t))
    /\ Goto(t, "idle")
    /\ UNCHANGED <<logger, record, out, logged, lokiVars, pgVars, batch, batchPc, storeVars, configVars, ruleVars, made, events>>

\* And without: an error is returned to the caller.
Save(t) ==
    /\ pc[t] = "send" /\ ~async
    /\ SaveLogs(<<RowOf(t)>>)
    /\ Goto(t, "idle")
    /\ UNCHANGED <<logger, record, out, logged, lokiVars, pgVars, batchVars, configVars, ruleVars, made, events>>

-----------------------------------------------------------------------------
(* processBatches. *)

Receive ==
    /\ batchPc = "select" /\ records # <<>>
    /\ batch' = Append(batch, Head(records))
    /\ records' = Tail(records)
    /\ batchPc' = IF Len(batch') >= MaxBatch THEN "save" ELSE "select"
    /\ UNCHANGED <<callVars, lokiVars, pgVars, storeVars, configVars, ruleVars, made, events>>

\* The bug of batches that are only saved when they are full.
TickNever == FALSE

\* The ticker fires; an empty batch needs no statement.
Tick ==
    /\ batchPc = "select" /\ batch # <<>>
    /\ batchPc' = "save"
    /\ UNCHANGED <<callVars, lokiVars, pgVars, records, batch, storeVars, configVars, ruleVars, made, events>>

\* An error of saveLogs is ignored, and the rows with it.
SaveBatch ==
    /\ batchPc = "save"
    /\ SaveLogs(batch)
    /\ batch' = <<>> /\ batchPc' = "select"
    /\ UNCHANGED <<callVars, lokiVars, pgVars, records, configVars, ruleVars, made, events>>

-----------------------------------------------------------------------------
\* The process ends and is started again: nothing saves what is in the channel and
\* in the batch.  NewPostgresHandler deletes the rows that are too old by now.
Restart ==
    /\ Event
    /\ made' = {Root} /\ available' \in [{Root} -> BOOLEAN]
    /\ lokiMu' = None /\ lokiBuf' = <<>> /\ rendered' = {}
    /\ mu' = [l \in Loggers |-> None] /\ buf' = <<>>
    /\ records' = <<>> /\ batch' = <<>> /\ batchPc' = "select"
    /\ dropped' = dropped \cup {r.of : r \in ToSet(records) \cup ToSet(batch)}
                          \cup {record[t] : t \in {u \in Threads : pc[u] # "idle"}}
    /\ \E old \in SUBSET table : table' = table \ old
    /\ pc' = [t \in Threads |-> "idle"] /\ out' = [t \in Threads |-> None]
    /\ logger' = [t \in Threads |-> Root]
    /\ UNCHANGED <<record, logged, loki, disturbed, configVars, ruleVars>>

Step(t) ==
    \/ ReadUsers(t) \/ ReadLevel(t)
    \/ LokiTake(t) \/ LokiSend(t)
    \/ LockRender(t) \/ Write(t) \/ Parse(t) \/ Reset(t)
    \/ Send(t) \/ Save(t)

Batches == Receive \/ Tick \/ SaveBatch

Next ==
    \/ \E t \in Threads : Step(t) \/ \E l \in Loggers, v \in Levels : Log(t, l, v)
    \/ Batches
    \/ \E l \in Loggers, parent \in Loggers : With(l, parent)
    \/ \E v \in Levels : SetLevel(v)
    \/ \E s \in Settings : SaveSetting(s)
    \/ \E answer \in BOOLEAN : RetryLoki(answer)
    \/ Restart

\* Go gives every goroutine its turn, hands a mutex over in the order of the
\* waiting (sync.Mutex does not starve), and every request to Loki and to Postgres
\* is answered or times out.  The ticker and the channel are both chosen from in
\* the end.
Fairness ==
    /\ \A t \in Threads :
           /\ WF_vars(ReadUsers(t) \/ ReadLevel(t) \/ LokiSend(t) \/ Write(t) \/ Parse(t) \/ Reset(t) \/ Save(t))
           /\ SF_vars(LokiTake(t) \/ LockRender(t) \/ Send(t))
    /\ WF_vars(Tick) /\ WF_vars(SaveBatch) /\ SF_vars(Receive)

Spec == Init /\ [][Next]_vars /\ Fairness

-----------------------------------------------------------------------------
(* Properties. *)

\* Types, the bounds of the channel and of the batch, and the mutexes: render holds
\* the one of its logger and nobody else's, a transmission holds the one of Loki.
TypeOK ==
    /\ made \subseteq Loggers /\ Root \in made
    /\ available \in [made -> BOOLEAN]
    /\ level \in Levels
    /\ setting \in Settings \cup {NoSetting}
    /\ pc \in [Threads -> Rendering \cup {"idle", "users", "level", "loki", "transmit", "lock", "send"}]
    /\ logger \in [Threads -> made]
    /\ out \in [Threads -> Record \cup {Torn, None}]
    /\ lokiBuf \in Seq(Record) /\ buf \in Seq(Record \cup {Torn})
    /\ records \in Seq(Row) /\ Len(records) <= ChanCap
    /\ batch \in Seq(Row) /\ Len(batch) <= MaxBatch
    /\ batchPc = "select" => Len(batch) < MaxBatch
    /\ batchPc = "save" => batch # <<>>
    /\ \A t \in Threads : pc[t] = "transmit" <=> lokiMu = t
    /\ \A t \in Threads, l \in Loggers : mu[l] = t <=> pc[t] \in Rendering /\ logger[t] = l

\* A row of the log tells the time and the user of the very record that its JSON is
\* from, unless the rendering met one of another logger,
\* for which WithAttrs and WithGroup have made another mutex
\* (postgres-handler.go:239-259).
RowsHonest == \A r \in table : r.log = r.of \/ r.of \in disturbed

\* A record that was rendered for Loki has arrived there or is still in the buffer,
\* to be sent with the next one, however many transmissions fail
\* (loki-handler.go:159-164).
LokiKeeps == rendered \subseteq loki \cup ToSet(lokiBuf)

\* A record that was rendered for Postgres is stored, or its saving fails or ends
\* with the process: it does not stay in the channel or in the batch, however full
\* they are (postgres-handler.go:91-115, 172-181).
RecordsArrive ==
    \A k \in 1..MaxRecords :
        (\E t \in Threads : pc[t] = "send" /\ record[t].n = k) ~>
            \/ \E r \in dropped : r.n = k
            \/ \E row \in table : row.of.n = k
=============================================================================
