------------------------- MODULE PostgresRepository -------------------------
(***************************************************************************)
(* PostgresRepository (arepo/postgres.repository.go) under the transaction *)
(* decorators of use cases (app/tx.decorator.go). A method sends one       *)
(* statement, AddAll and UpdateAll send several; they go through the       *)
(* transaction of the context or through a connection of the pool.         *)
(*                                                                         *)
(* Every client writes entities that hold its own name, so that a row says *)
(* who wrote it. A list may name an ID more than once; the order in which  *)
(* its entities are looked up or updated is left open. Columns, SQL text   *)
(* and reflection are left out. Postgres (READ COMMITTED, row locks,       *)
(* unique index on the ID) and the pool are external. Use cases are not    *)
(* nested.                                                                 *)
(***************************************************************************)
EXTENDS Naturals, FiniteSets, SequencesExt

CONSTANTS
  IDs, ZeroID,  \* primary keys, and the one that counts as missing
  Clients,
  Queries,      \* [is, groups]: conditions, and groups of which one each must hold
  Singles, Lists, \* the IDs that a method for one and for several may be given
  Inside, Outside, \* by client: the methods it calls in a use case, and outside
  MaxCalls,     \* bound: calls of one use case
  MaxConns,     \* size of the pool
  Faults,       \* "begin", "statement", "commit": errors of the database;
                \* "context": the context of an iteration is done
  Absent, Same, Doomed, None

Creates == {"Create", "AddAll"}
Deletes == {"Delete", "DeleteByIDs", "DeleteAll"}
Reads   == {"FindByID", "AllByIDs", "ContainsIDs", "AllBy", "FindBy"}
ForOne  == {"Create", "Update", "Save", "Delete", "FindByID"}
ForMany == {"AddAll", "UpdateAll", "DeleteByIDs", "AllByIDs", "ContainsIDs"}
ForAll  == {"DeleteAll", "All", "AllIter", "SaveAll", "AllBy", "FindBy"}
Methods == ForOne \cup ForMany \cup ForAll

ASSUME PoolAssumption ==
  /\ MaxCalls \in Nat /\ MaxConns \in Nat
  /\ IsFiniteSet(Clients) /\ Clients # {}
ASSUME IDAssumption ==
  /\ IsFiniteSet(IDs) /\ IDs # {} /\ ZeroID \notin IDs
  /\ Singles \subseteq {{i} : i \in IDs \cup {ZeroID}}
  /\ Lists \subseteq Seq(IDs \cup {ZeroID})
ASSUME MethodAssumption ==
  /\ Inside \in [Clients -> SUBSET Methods]
  /\ Outside \in [Clients -> SUBSET Methods]
ASSUME ValueAssumption ==
  /\ Clients \cap {Absent, Same, Doomed, None} = {}
  /\ Absent # Same /\ Doomed # None
  /\ {Doomed, None} \cap [IDs -> Clients \cup {Absent, Same}] = {}

VARIABLES
  rows,  \* the committed entities
  unit,  \* by client: outside of a use case, before its Begin, or in it
  left,  \* by client: calls its use case may still make
  tx,    \* by client: the transaction of its use case or of its UpdateAll or AllIter
  call,  \* by client: the method that is under way, or None
  at,    \* by client: where it is
  todo,  \* by client: the entities of a list that are still to do
  touch, \* by client: the rows that its statement needs
  conn,  \* by client: whether its statement has a connection of its own
  lost,  \* connections and rows of transactions that nobody will end
  last   \* what has just returned

position == <<call, at, todo, touch, conn>>
vars == <<rows, unit, left, tx, position, lost, last>>

Nothing == [i \in IDs |-> Same]
NoTx    == [st |-> "none", pend |-> Nothing]

\* A call: the IDs that it names, and the length of its list.
Calls(names) ==
  [name : names \cap ForOne, ids : Singles, len : {1}]
    \cup {[name |-> m, ids |-> ToSet(l), len |-> Len(l)] : m \in names \cap ForMany, l \in Lists}
    \cup [name : names \cap ForAll, ids : {IDs}, len : {0}]

Answers ==
  [by : Clients, name : Methods \cup {"unit"}, arg : (SUBSET (IDs \cup {ZeroID})) \cup Queries,
   len : Nat, res : {"ok", "refused", "failed"}, val : [IDs -> Clients \cup {Absent}] \cup {None}]

ASSUME NoCallAssumption == None \notin Calls(Methods) /\ None \notin Answers

TypeOK ==
  /\ rows \in [IDs -> Clients \cup {Absent}]
  /\ unit \in [Clients -> {"none", "begin", "open"}]
  /\ left \in [Clients -> 0 .. MaxCalls]
  /\ tx \in [Clients -> [st : {"none", "open", "failed", "ended"},
                         pend : [IDs -> Clients \cup {Absent, Same}]]]
  /\ call \in [Clients -> Calls(Methods) \cup {None}]
  /\ at \in [Clients -> {"idle", "look", "begin", "declare", "ready", "sent", "iterate", "commit"}]
  /\ todo \in [Clients -> SUBSET (IDs \cup {ZeroID})]
  /\ touch \in [Clients -> SUBSET IDs]
  /\ conn \in [Clients -> BOOLEAN]
  /\ lost \in [conns : 0 .. MaxConns, rows : SUBSET IDs]

Init ==
  /\ rows = [i \in IDs |-> Absent]
  /\ unit = [c \in Clients |-> "none"]
  /\ left = [c \in Clients |-> 0]
  /\ tx = [c \in Clients |-> NoTx]
  /\ call = [c \in Clients |-> None]
  /\ at = [c \in Clients |-> "idle"]
  /\ todo = [c \in Clients |-> {}]
  /\ touch = [c \in Clients |-> {}]
  /\ conn = [c \in Clients |-> FALSE]
  /\ lost = [conns |-> 0, rows |-> {}]
  /\ last = None

-----------------------------------------------------------------------------
(* Postgres and the pool of connections.                                   *)

Overlay(base, change) == [i \in IDs |-> IF change[i] = Same THEN base[i] ELSE change[i]]

View(c) == Overlay(rows, tx[c].pend)

Holds(c) == tx[c].st \in {"open", "failed"}
InUse == Cardinality({c \in Clients : Holds(c)}) + Cardinality({c \in Clients : conn[c]})
           + lost.conns
Free == InUse < MaxConns

\* A statement waits for rows that an open transaction has changed.
Waits(c, d) == c # d /\ at[c] = "sent" /\ \E i \in touch[c] : tx[d].pend[i] # Same
Blocked(c) == (\E d \in Clients : Waits(c, d)) \/ touch[c] \cap lost.rows # {}
Deadlocked(c) ==
  \E D \in SUBSET Clients : c \in D /\ \A d \in D : \E e \in D : Waits(d, e)

\* The transaction after one of its statements has failed: its rows are free.
Failed(c) == [tx EXCEPT ![c] = IF @.st = "open" THEN [st |-> "failed", pend |-> Nothing] ELSE @]
Ended(c)  == [tx EXCEPT ![c] = IF unit[c] = "open" THEN [st |-> "ended", pend |-> Nothing] ELSE NoTx]

-----------------------------------------------------------------------------
(* Calls.                                                                  *)

\* TxOrConn: whether there is a transaction in the context.
TxOrConn(c) == tx[c].st # "none"

Return(c, k, res, val) ==
  last' = [by |-> c, name |-> k.name, arg |-> k.ids, len |-> k.len, res |-> res, val |-> val]

\* The method returns. Mutant: its connection is not given back.
IdleLeaks(c) ==
  /\ call' = [call EXCEPT ![c] = None]
  /\ at' = [at EXCEPT ![c] = "idle"]
  /\ todo' = [todo EXCEPT ![c] = {}]
  /\ touch' = [touch EXCEPT ![c] = {}]
  /\ UNCHANGED conn
Idle(c) ==
  /\ call' = [call EXCEPT ![c] = None]
  /\ at' = [at EXCEPT ![c] = "idle"]
  /\ todo' = [todo EXCEPT ![c] = {}]
  /\ touch' = [touch EXCEPT ![c] = {}]
  /\ conn' = [conn EXCEPT ![c] = FALSE]

\* The method panics, and nothing of its use case is executed any more.
Panics(c) ==
  /\ Idle(c) /\ last' = None
  /\ tx' = [tx EXCEPT ![c] = NoTx]
  /\ unit' = [unit EXCEPT ![c] = "none"]
  /\ left' = [left EXCEPT ![c] = 0]

Finish(c, res) == Idle(c) /\ Return(c, call[c], res, None)

GoTo(c, phase) == at' = [at EXCEPT ![c] = phase]

\* getID: an entity without an ID. Mutant: it is not looked for.
MissingIDNever(k) == FALSE
MissingID(k) == ZeroID \in k.ids

First(k) == CASE k.name = "AddAll" -> "look"
              [] k.name = "UpdateAll" -> "begin"
              [] k.name = "AllIter" -> "begin"
              [] OTHER -> "ready"

\* The method is called. A missing ID is found before the statement is sent, and
\* Delete takes it for an entity that is already deleted.
Call(c, k) ==
  /\ call[c] = None /\ unit[c] # "begin"
  /\ unit[c] = "open" => left[c] > 0
  /\ k \in Calls(IF unit[c] = "open" THEN Inside[c] ELSE Outside[c])
  /\ left' = [left EXCEPT ![c] = IF unit[c] = "open" THEN @ - 1 ELSE @]
  /\ IF MissingID(k) /\ k.name \in {"Create", "Update", "Save", "Delete"}
     THEN /\ Return(c, k, IF k.name = "Delete" THEN "ok" ELSE "failed", None)
          /\ UNCHANGED position
     ELSE /\ call' = [call EXCEPT ![c] = k]
          /\ GoTo(c, First(k))
          /\ todo' = [todo EXCEPT ![c] = k.ids]
          /\ last' = None
          /\ UNCHANGED <<touch, conn>>
  /\ UNCHANGED <<rows, unit, tx, lost>>

\* AddAll looks every entity up before it adds them.
LookUp(c, i) ==
  /\ at[c] = "look" /\ i \in todo[c]
  /\ tx[c].st = "none" => Free
  /\ IF i = ZeroID \/ tx[c].st \in {"failed", "ended"} THEN Finish(c, "failed")
     ELSE IF View(c)[i] # Absent THEN Finish(c, "refused")
     ELSE /\ todo' = [todo EXCEPT ![c] = @ \ {i}]
          /\ last' = None
          /\ UNCHANGED <<call, at, touch, conn>>
  /\ UNCHANGED <<rows, unit, left, tx, lost>>

LookedUp(c) ==
  /\ at[c] = "look" /\ todo[c] = {}
  /\ IF call[c].ids = {} THEN Finish(c, "failed")
     ELSE GoTo(c, "ready") /\ last' = None /\ UNCHANGED <<call, todo, touch, conn>>
  /\ UNCHANGED <<rows, unit, left, tx, lost>>

\* UpdateAll and AllIter take the transaction of the context or begin their own.
BeginOwn(c) ==
  /\ at[c] = "begin"
  /\ IF TxOrConn(c) THEN UNCHANGED tx
     ELSE Free /\ tx' = [tx EXCEPT ![c].st = "open"]
  /\ GoTo(c, IF call[c].name = "AllIter" THEN "declare"
             ELSE IF todo[c] = {} THEN "commit" ELSE "ready")
  /\ last' = None
  /\ UNCHANGED <<rows, unit, left, call, todo, touch, conn, lost>>

\* BEGIN fails: AllIter goes on without a transaction, and panics (Tx).
BeginOwnFails(c) ==
  /\ at[c] = "begin" /\ ~TxOrConn(c)
  /\ "begin" \in Faults
  /\ IF call[c].name = "AllIter" THEN Idle(c) /\ last' = None ELSE Finish(c, "failed")
  /\ UNCHANGED <<rows, unit, left, tx, lost>>

\* The rows that a statement needs: an insert the IDs that it names, an update or a
\* deletion the ones of them that exist when it is sent.
Reached(c, ids) ==
  IF call[c].name \in Creates \cup {"Save"} THEN ids
  ELSE {i \in ids \cap IDs : View(c)[i] # Absent}

\* A statement is sent, by UpdateAll for one entity after the other.
Send(c, ids) ==
  /\ at[c] = "ready"
  /\ call[c].name \notin Reads \cup {"All", "SaveAll"}
  /\ IF call[c].name = "UpdateAll" THEN \E i \in todo[c] \cap IDs : ids = {i} ELSE ids = call[c].ids
  /\ tx[c].st \in {"none", "open"}
  /\ tx[c].st = "none" => Free
  /\ conn' = [conn EXCEPT ![c] = ~TxOrConn(c)]
  /\ touch' = [touch EXCEPT ![c] = Reached(c, ids)]
  /\ todo' = [todo EXCEPT ![c] = @ \ ids]
  /\ GoTo(c, "sent")
  /\ last' = None
  /\ UNCHANGED <<rows, unit, left, tx, call, lost>>

\* The rows that it changes when it gets them.
Hits(c) == {i \in touch[c] : call[c].name \in Creates \cup {"Save"} \/ View(c)[i] # Absent}

Change(c) ==
  [i \in IDs |-> IF i \notin Hits(c) THEN Same
                 ELSE IF call[c].name \in Deletes THEN Absent ELSE c]

\* A list with an ID that it has named before.
NamedTwice(k) == k.len > Cardinality(k.ids)

\* The unique index on the ID: SQLSTATE 23505. Mutant: ON CONFLICT DO UPDATE, as in
\* Save.
ViolatesNever(c) == FALSE
Violates(c) ==
  /\ call[c].name \in Creates
  /\ (\E i \in touch[c] : View(c)[i] # Absent) \/ NamedTwice(call[c])

Executed(c) ==
  IF TxOrConn(c)
  THEN /\ tx' = [tx EXCEPT ![c].pend = Overlay(@, Change(c))]
       /\ UNCHANGED rows
  ELSE rows' = Overlay(rows, Change(c)) /\ UNCHANGED tx

Execute(c) ==
  /\ at[c] = "sent" /\ ~Blocked(c)
  /\ ~Violates(c)
  /\ call[c].name \in {"Update", "UpdateAll"} => Hits(c) # {}
  /\ Executed(c)
  /\ IF call[c].name = "UpdateAll"
     THEN /\ GoTo(c, IF todo[c] = {} THEN "commit" ELSE "ready")
          /\ last' = None
          /\ UNCHANGED <<call, todo, touch, conn>>
     ELSE Finish(c, "ok")
  /\ UNCHANGED <<unit, left, lost>>

\* ErrAlreadyExists, which AddAll does not recognise.
AlreadyExists(c) ==
  /\ at[c] = "sent" /\ ~Blocked(c)
  /\ Violates(c)
  /\ tx' = Failed(c)
  /\ Finish(c, IF call[c].name = "Create" THEN "refused" ELSE "failed")
  /\ UNCHANGED <<rows, unit, left, lost>>

\* Update has found no row; UpdateAll rolls back, also what was done before it.
NotFound(c) ==
  /\ at[c] = "sent" /\ ~Blocked(c)
  /\ call[c].name \in {"Update", "UpdateAll"} /\ Hits(c) = {}
  /\ tx' = IF call[c].name = "UpdateAll" THEN Ended(c) ELSE tx
  /\ Finish(c, "refused")
  /\ UNCHANGED <<rows, unit, left, lost>>

\* A statement fails: the transaction has failed before or was ended, the database
\* has an error, or Postgres resolves a deadlock.
StatementFails(c) ==
  /\ \/ at[c] = "ready" /\ tx[c].st \in {"failed", "ended"}
     \/ at[c] = "ready" /\ call[c].name = "UpdateAll" /\ ZeroID \in todo[c]
     \/ at[c] \in {"ready", "sent"} /\ "statement" \in Faults
     \/ at[c] = "look" /\ todo[c] \cap IDs # {} /\ "statement" \in Faults
     \/ at[c] = "sent" /\ Deadlocked(c)
  /\ call[c].name \notin {"All", "SaveAll"}
  /\ call[c].ids = {} => call[c].name \notin Reads
  /\ tx' = IF call[c].name = "UpdateAll" /\ tx[c].st # "ended" THEN Ended(c) ELSE Failed(c)
  /\ Finish(c, "failed")
  /\ UNCHANGED <<rows, unit, left, lost>>

-----------------------------------------------------------------------------
(* Reading.                                                                *)

\* A condition compares the one field that our entities have. The builder returns
\* before it comes to the groups if there is no condition beside them.
Matches(q, value) ==
  \/ q.is = {}
  \/ (\A v \in q.is : value = v) /\ \A g \in q.groups : value \in g

Found(c, ids) == {i \in ids \cap IDs : View(c)[i] # Absent}

Only(c, ids) == [i \in IDs |-> IF i \in ids THEN View(c)[i] ELSE Absent]

\* One SELECT, and what the method makes of the rows that it returns: FindByID (Read,
\* Exist), AllByIDs and ContainsIDs (ContainsAll) count them, AllBy takes all.
Answer(c, k, ids) ==
  LET res == CASE k.name = "FindBy" -> Cardinality(ids) = 1
               [] k.name = "AllBy" -> TRUE
               [] k.name = "ContainsIDs" -> Cardinality(ids) = k.len /\ k.len # 0
               [] OTHER -> Cardinality(ids) = k.len
  IN  Return(c, k, IF res THEN "ok" ELSE "refused", Only(c, ids))

Read(c) ==
  /\ at[c] = "ready" /\ call[c].name \in Reads
  /\ \/ tx[c].st = "open"
     \/ tx[c].st = "none" /\ Free
     \/ call[c].ids = {}
  /\ Idle(c)
  /\ IF call[c].name \in {"AllBy", "FindBy"}
     THEN \E q \in Queries :
            Answer(c, [call[c] EXCEPT !.ids = q], Found(c, {i \in IDs : Matches(q, View(c)[i])}))
     ELSE Answer(c, call[c], Found(c, call[c].ids))
  /\ UNCHANGED <<rows, unit, left, tx, lost>>

\* All does not look for a transaction: it needs a connection of its own.
All(c) ==
  /\ at[c] = "ready" /\ call[c].name = "All"
  /\ Free
  /\ Idle(c)
  /\ \/ Return(c, call[c], "ok", rows)
     \/ "statement" \in Faults /\ Return(c, call[c], "failed", None)
  /\ UNCHANGED <<rows, unit, left, tx, lost>>

\* AllIter declares its cursor.
Declare(c) ==
  /\ at[c] = "declare" /\ tx[c].st = "open"
  /\ GoTo(c, "iterate") /\ last' = None
  /\ UNCHANGED <<rows, unit, left, tx, call, todo, touch, conn, lost>>

\* The iterator returns without a COMMIT: a transaction of its own stays open.
\* Otherwise it is the one of the use case, which may have failed.
Leave(c, txs) ==
  IF unit[c] = "open" THEN tx' = txs /\ UNCHANGED lost
  ELSE tx' = [tx EXCEPT ![c] = NoTx] /\ lost' = [lost EXCEPT !.conns = @ + 1]

DeclareFails(c) ==
  /\ at[c] = "declare"
  /\ tx[c].st # "open" \/ "statement" \in Faults
  /\ Leave(c, Failed(c)) /\ Finish(c, "failed")
  /\ UNCHANGED <<rows, unit, left>>

\* The consumer stops early.
Break(c) ==
  /\ at[c] = "iterate"
  /\ Leave(c, tx) /\ Finish(c, "ok")
  /\ UNCHANGED <<rows, unit, left>>

\* Its context is done, which may also interrupt the FETCH that is under way.
ContextDone(c) ==
  /\ at[c] = "iterate" /\ "context" \in Faults
  /\ Leave(c, tx) \/ Leave(c, Failed(c))
  /\ Finish(c, "failed")
  /\ UNCHANGED <<rows, unit, left>>

\* A FETCH or CLOSE fails, and COMMIT then too. Both errors are yielded, and if the
\* consumer has stopped at the first one the second makes the loop panic.
IterFails(c) ==
  /\ at[c] = "iterate" /\ "statement" \in Faults
  /\ \/ tx' = Ended(c) /\ Finish(c, "failed") /\ UNCHANGED <<unit, left>>
     \/ Panics(c)
  /\ UNCHANGED <<rows, lost>>

\* It has seen all entities: CLOSE, and COMMIT.
IterEnds(c) ==
  /\ at[c] = "iterate"
  /\ GoTo(c, "commit") /\ last' = None
  /\ UNCHANGED <<rows, unit, left, tx, call, todo, touch, conn, lost>>

\* The COMMIT of UpdateAll and AllIter, of whose transaction it may be.
CommitOwn(c) ==
  /\ at[c] = "commit" /\ tx[c].st = "open"
  /\ rows' = View(c)
  /\ tx' = Ended(c)
  /\ Finish(c, "ok")
  /\ UNCHANGED <<unit, left, lost>>

CommitOwnFails(c) ==
  /\ at[c] = "commit"
  /\ \/ tx[c].st # "open" /\ UNCHANGED rows
     \/ tx[c].st = "open" /\ "commit" \in Faults /\ rows' \in {rows, View(c)}
  /\ tx' = Ended(c)
  /\ Finish(c, "failed")
  /\ UNCHANGED <<unit, left, lost>>

-----------------------------------------------------------------------------
(* The decorator.                                                          *)

UseCase(c) ==
  /\ unit[c] = "none" /\ call[c] = None /\ Inside[c] # {}
  /\ unit' = [unit EXCEPT ![c] = "begin"]
  /\ last' = None
  /\ UNCHANGED <<rows, left, tx, position, lost>>

UnitEnds(c, res) ==
  /\ unit' = [unit EXCEPT ![c] = "none"]
  /\ left' = [left EXCEPT ![c] = 0]
  /\ tx' = [tx EXCEPT ![c] = NoTx]
  /\ Return(c, [name |-> "unit", ids |-> {}, len |-> 0], res, None)
  /\ UNCHANGED <<position, lost>>

Begin(c) ==
  /\ unit[c] = "begin" /\ Free
  /\ unit' = [unit EXCEPT ![c] = "open"]
  /\ left' = [left EXCEPT ![c] = MaxCalls]
  /\ tx' = [tx EXCEPT ![c].st = "open"]
  /\ last' = None
  /\ UNCHANGED <<rows, position, lost>>

BeginFails(c) ==
  /\ unit[c] = "begin" /\ "begin" \in Faults
  /\ UnitEnds(c, "failed")
  /\ UNCHANGED rows

\* The use case returns nil.
Commit(c) ==
  /\ unit[c] = "open" /\ call[c] = None /\ tx[c].st = "open"
  /\ rows' = View(c)
  /\ UnitEnds(c, "ok")

CommitFails(c) ==
  /\ unit[c] = "open" /\ call[c] = None
  /\ \/ tx[c].st # "open" /\ UNCHANGED rows
     \/ tx[c].st = "open" /\ "commit" \in Faults /\ rows' \in {rows, View(c)}
  /\ UnitEnds(c, "failed")

\* It returns an error, which the one of the rollback replaces.
Rollback(c) ==
  /\ unit[c] = "open" /\ call[c] = None
  /\ UnitEnds(c, "failed")
  /\ UNCHANGED rows

\* SaveAll (and ExistAll) panic: nobody ends the transaction of the use case.
Panic(c) ==
  /\ at[c] = "ready" /\ call[c].name = "SaveAll"
  /\ Panics(c)
  /\ lost' = [conns |-> lost.conns + (IF Holds(c) THEN 1 ELSE 0),
              rows  |-> lost.rows \cup {i \in IDs : tx[c].pend[i] # Same}]
  /\ UNCHANGED rows

-----------------------------------------------------------------------------

Next ==
  \E c \in Clients :
    \/ (\E k \in Calls(Methods) : Call(c, k))
    \/ (\E i \in IDs \cup {ZeroID} : LookUp(c, i)) \/ LookedUp(c)
    \/ BeginOwn(c) \/ BeginOwnFails(c) \/ (\E ids \in SUBSET (IDs \cup {ZeroID}) : Send(c, ids))
    \/ Execute(c) \/ AlreadyExists(c) \/ NotFound(c) \/ StatementFails(c)
    \/ Read(c) \/ All(c)
    \/ Declare(c) \/ DeclareFails(c) \/ Break(c) \/ ContextDone(c) \/ IterFails(c)
    \/ IterEnds(c) \/ CommitOwn(c) \/ CommitOwnFails(c)
    \/ UseCase(c) \/ Begin(c) \/ BeginFails(c)
    \/ Commit(c) \/ CommitFails(c) \/ Rollback(c) \/ Panic(c)

Spec == Init /\ [][Next]_vars

-----------------------------------------------------------------------------
(* Properties.                                                             *)

\* What the use case of a client has done so far.
WorkOf(c) == IF unit[c] # "open" THEN None ELSE IF tx[c].st = "open" THEN tx[c].pend ELSE Doomed

Work == [c \in Clients |-> WorkOf(c)]

Units == INSTANCE UnitsOfWork WITH work <- Work

\* The repository and the decorators implement UnitsOfWork: a use case takes effect
\* as a whole or not at all, a call outside of one does, a reader sees the work of
\* its own use case and of those that have ended, and no added entity replaces one.
UnitsSpec == Units!Spec

\* What waits for a connection of the pool.
NeedsConn(c) ==
  \/ unit[c] = "begin"
  \/ at[c] = "look" /\ todo[c] # {} /\ tx[c].st = "none"
  \/ at[c] = "begin" /\ tx[c].st = "none"
  \/ at[c] = "ready" /\ call[c].name # "SaveAll"
       /\ (call[c].name \in Reads => call[c].ids # {})
       /\ (tx[c].st = "none" \/ call[c].name = "All")

Stuck(c) ==
  \/ NeedsConn(c) /\ ~Free
  \/ at[c] = "sent" /\ Blocked(c) /\ ~Deadlocked(c)

\* Every path gives its connections back: a client holds none between its calls, and
\* one in a use case. So the clients never all wait for each other's connections and
\* rows if the pool has one more than there are clients (All takes a second one in a
\* use case). Two things keep one for good, and are excepted: a SaveAll that panics in
\* a use case, and an AllIter outside of one that is not read to its end, because its
\* DECLARE fails, its context is done or its consumer stops.
PoolSuffices ==
  /\ \A c \in Clients : /\ conn[c] => at[c] = "sent" /\ ~TxOrConn(c)
                        /\ TxOrConn(c) => unit[c] = "open" \/ call[c] # None
  /\ MaxConns > Cardinality(Clients) /\ lost = [conns |-> 0, rows |-> {}] =>
       \E c \in Clients : ~Stuck(c)
=============================================================================
