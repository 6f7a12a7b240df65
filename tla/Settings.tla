------------------------------ MODULE Settings ------------------------------
(***************************************************************************)
(* The settings of an application, setting/inmemory.settings.go and        *)
(* setting/postgres.settings.go: one collection of keys and values, used   *)
(* by all contexts. The one in memory is a client of MemoryRepository and  *)
(* takes its mutex once per look-up and once per change. The other one     *)
(* sends one statement per call, in the transaction of the context if it   *)
(* has one; rows that are written stay locked until the transaction ends.  *)
(***************************************************************************)
EXTENDS SettingValue, FiniteSets

CONSTANTS
  Keys, Clients,
  GoValues,     \* by client: the values it may write
  Values,       \* more values that a program may write
  CutKeys,      \* what Settings may make of a key
  TxClients,    \* the clients that may call inside a transaction
  Nobody        \* no key

ASSUME SettingsAssumption ==
  /\ IsFiniteSet(Keys) /\ Nobody \notin Keys
  /\ TxClients \subseteq Clients
  /\ \A c \in Clients : \A v \in GoValues[c] : IsGoValue(v)
  /\ \A v \in Values : IsGoValue(v)
  /\ Nobody \notin CutKeys

VARIABLES
  backend, \* "memory" or "postgres", decided when the container is built
  stored,  \* the map in memory, or the committed rows
  pend,    \* by client and key: what its open transaction has changed
  tx,      \* by client: no transaction, one that is open, one that has failed
  op,      \* by client: the call that is under way
  says     \* by client: the Go value that it writes

settingsVars == <<backend, stored, pend, tx, op, says>>

None == [form |-> "none", n |-> 0]  \* no row
Same == [form |-> "same", n |-> 0]  \* not changed by this transaction
Gone == [form |-> "gone", n |-> 0]  \* deleted by it

\* A call: its keys that are still to do, the one it works on, and those that it
\* has seen since it began.
NoCall == [name |-> "idle", todo |-> {}, next |-> Nobody, seen |-> {}]

SettingsTypeOK ==
  /\ backend \in {"memory", "postgres"}
  /\ stored \in [Keys -> Texts \cup {None}]
  /\ pend \in [Clients -> [Keys -> Texts \cup {Same, Gone}]]
  /\ tx \in [Clients -> {"none", "open", "failed"}]
  /\ op \in [Clients -> [name : {"idle", "register", "save", "delete"},
                         todo : SUBSET Keys, next : Keys \cup {Nobody}, seen : SUBSET Keys]]
  /\ says \in [Clients -> UNION {GoValues[c] : c \in Clients}]

SettingsInit ==
  /\ backend \in {"memory", "postgres"}
  /\ stored = [k \in Keys |-> None]
  /\ pend = [c \in Clients |-> [k \in Keys |-> Same]]
  /\ tx = [c \in Clients |-> "none"]
  /\ op = [c \in Clients |-> NoCall]
  /\ says \in {f \in [Clients -> UNION {GoValues[c] : c \in Clients}] :
               \A c \in Clients : f[c] \in GoValues[c]}

-----------------------------------------------------------------------------
(* Rows, as Postgres shows them to a client, and their locks.              *)

View(c, k) == CASE pend[c][k] = Same -> stored[k]
                [] pend[c][k] = Gone -> None
                [] OTHER -> pend[c][k]

Locked(c, k) == \E d \in Clients \ {c} : pend[d][k] # Same

Waits(c, d) == op[c].next # Nobody /\ pend[d][op[c].next] # Same /\ c # d

\* A bug for the checks: Postgres does not see a deadlock.
DeadlockedNever(c) == FALSE

\* The waiting clients form a cycle that c is part of.
Deadlocked(c) ==
  \E D \in SUBSET Clients :
    c \in D /\ \A d \in D : \E e \in D : Waits(d, e)

Applied(c, old) == [k \in Keys |-> CASE pend[c][k] = Same -> old[k]
                                     [] pend[c][k] = Gone -> None
                                     [] OTHER -> pend[c][k]]

Unchanged == [k \in Keys |-> Same]

\* What an operation that deletes key k takes from what the others have seen.
Unseen(ks) == [d \in Clients |-> [op[d] EXCEPT !.seen = @ \ ks]]

-----------------------------------------------------------------------------
(* Calls.                                                                  *)

\* Setting: a row read back is made a value again from its text.
Setting(c, k) == IF View(c, k) = None THEN Empty ELSE NewValue(GoString(View(c, k)))

Found(c, ks) == {k \in ks : View(c, k) # None}

\* Settings: in memory one look-up after the other, and an error if one fails.
SettingsInMemory(c, ks) ==
  [res |-> IF Found(c, ks) = ks THEN "ok" ELSE "not found", keys |-> Found(c, ks)]

\* In the database one query, and an error if the answer has other than n keys, as
\* many as were asked for. A key of the answer is made of the first three parts of that
\* of the row, cut[k], or Nobody if it has fewer parts.
SettingsInTable(c, ks, n, cut) ==
  LET keys == {cut[k] : k \in Found(c, ks)}
  IN  IF Nobody \in keys THEN [res |-> "panic", keys |-> {}]
      ELSE [res |-> IF Cardinality(keys) = n THEN "ok" ELSE "not found", keys |-> keys]

Settings(c, ks, n, cut) ==
  IF backend = "memory" THEN SettingsInMemory(c, ks) ELSE SettingsInTable(c, ks, n, cut)

\* Register, Save and Delete begin.
Call(c) ==
  /\ op[c] = NoCall
  /\ tx[c] # "failed"
  /\ \E name \in {"register", "save", "delete"}, ks \in (SUBSET Keys) \ {{}} :
       /\ name # "register" => Cardinality(ks) = 1
       /\ op' = [op EXCEPT ![c] = [name |-> name, todo |-> ks, next |-> Nobody,
                                   seen |-> Found(c, ks)]]
  /\ UNCHANGED <<backend, stored, pend, tx, says>>

Drop(c, k) == op' = [op EXCEPT ![c].todo = @ \ {k}, ![c].seen = @ \ {k}, ![c].next = Nobody]

\* The loop over the map of settings, in any order: in memory ExistByID, and the
\* next key if it does; in the database the next row of VALUES.
Pick(c, k) ==
  /\ op[c].next = Nobody
  /\ k \in op[c].todo
  /\ IF backend = "memory" /\ op[c].name = "register" /\ stored[k] # None
     THEN Drop(c, k)
     ELSE op' = [op EXCEPT ![c].next = k]
  /\ UNCHANGED <<backend, stored, pend, tx, says>>

\* A bug for the checks: ON CONFLICT (key) DO UPDATE.
ConflictsNever(c, k) == FALSE

\* A row that is there already: ON CONFLICT (key) DO NOTHING.
Conflicts(c, k) == op[c].name = "register" /\ View(c, k) # None

\* In memory the change is made under the mutex and seen at once; a Register no
\* longer looks whether the key exists.
ApplyInMemory(c, k) ==
  /\ backend = "memory"
  /\ stored' = [stored EXCEPT ![k] = IF op[c].name = "delete" THEN None ELSE NewValue(says[c])]
  /\ op' = [Unseen(IF op[c].name = "delete" THEN {k} ELSE {})
             EXCEPT ![c] = [op[c] EXCEPT !.todo = @ \ {k}, !.seen = @ \ {k}, !.next = Nobody]]
  /\ UNCHANGED pend

UpsertSetting(c, k, value) == [pend EXCEPT ![c][k] = value]

DeleteSetting(c, k) == IF View(c, k) = None THEN pend ELSE [pend EXCEPT ![c][k] = Gone]

\* In the database the row is locked first.
ApplyInTable(c, k) ==
  /\ backend = "postgres"
  /\ ~Locked(c, k)
  /\ pend' = CASE Conflicts(c, k) -> pend
               [] ~Conflicts(c, k) /\ op[c].name = "delete" -> DeleteSetting(c, k)
               [] OTHER -> UpsertSetting(c, k, NewValue(says[c]))
  /\ Drop(c, k)
  /\ UNCHANGED stored

Apply(c) ==
  /\ op[c].next # Nobody
  /\ ApplyInMemory(c, op[c].next) \/ ApplyInTable(c, op[c].next)
  /\ UNCHANGED <<backend, tx, says>>

\* What a committed transaction does to the rows, and to what others have seen.
Publish(c, ops) ==
  /\ stored' = Applied(c, stored)
  /\ pend' = [pend EXCEPT ![c] = Unchanged]
  /\ op' = [d \in Clients |-> [ops[d] EXCEPT !.seen = @ \ {k \in Keys : pend[c][k] = Gone}]]

\* The call returns; outside a transaction its statement commits.
Finish(c) ==
  /\ op[c] # NoCall
  /\ op[c].todo = {}
  /\ IF tx[c] = "none"
     THEN Publish(c, [op EXCEPT ![c] = NoCall])
     ELSE op' = [op EXCEPT ![c] = NoCall] /\ UNCHANGED <<stored, pend>>
  /\ UNCHANGED <<backend, tx, says>>

\* ErrOperationFailed: the statement is chosen to resolve a deadlock. Its
\* transaction can only be rolled back, its locks are free.
Abort(c) ==
  /\ backend = "postgres"
  /\ Deadlocked(c)
  /\ pend' = [pend EXCEPT ![c] = Unchanged]
  /\ op' = [op EXCEPT ![c] = NoCall]
  /\ tx' = [tx EXCEPT ![c] = IF @ = "open" THEN "failed" ELSE @]
  /\ UNCHANGED <<backend, stored, says>>

-----------------------------------------------------------------------------
(* The transaction of the context, and the end of the process.             *)

Begin(c) ==
  /\ backend = "postgres" /\ c \in TxClients
  /\ tx[c] = "none" /\ op[c] = NoCall
  /\ tx' = [tx EXCEPT ![c] = "open"]
  /\ UNCHANGED <<backend, stored, pend, op, says>>

Commit(c) ==
  /\ tx[c] = "open" /\ op[c] = NoCall
  /\ Publish(c, op)
  /\ tx' = [tx EXCEPT ![c] = "none"]
  /\ UNCHANGED <<backend, says>>

Rollback(c) ==
  /\ tx[c] # "none" /\ op[c] = NoCall
  /\ pend' = [pend EXCEPT ![c] = Unchanged]
  /\ tx' = [tx EXCEPT ![c] = "none"]
  /\ UNCHANGED <<backend, stored, op, says>>

Restart ==
  /\ stored' = IF backend = "memory" THEN [k \in Keys |-> None] ELSE stored
  /\ pend' = [c \in Clients |-> Unchanged]
  /\ tx' = [c \in Clients |-> "none"]
  /\ op' = [c \in Clients |-> NoCall]
  /\ UNCHANGED <<backend, says>>

SettingsNext ==
  \/ \E c \in Clients : \/ Call(c) \/ (\E k \in Keys : Pick(c, k)) \/ Apply(c)
                        \/ Finish(c) \/ Abort(c)
                        \/ Begin(c) \/ Commit(c) \/ Rollback(c)
  \/ Restart

\* Goroutines run on, a row that is free is given to one that waits (Postgres
\* queues them), and a transaction ends.
SettingsFairness ==
  \A c \in Clients :
    /\ WF_settingsVars(\E k \in Keys : Pick(c, k))
    /\ SF_settingsVars(Apply(c))
    /\ WF_settingsVars(Finish(c)) /\ WF_settingsVars(Abort(c))
    /\ SF_settingsVars(Commit(c) \/ Rollback(c))

SettingsSpec == SettingsInit /\ [][SettingsNext]_settingsVars /\ SettingsFairness

-----------------------------------------------------------------------------
(* Properties.                                                             *)

\* What becomes of a value that is stored as a text and read from it.
Kept(val) == ReadsBackAs(val, NewValue(GoString(NewValue(val))))

AllKept == \A val \in Values : Kept(val)

\* Keys of three parts, which Settings gives back as they are.
Proper(ks, cut) == \A k \in ks : cut[k] = k

\* A setting is read as it was written, whatever implementation stored it: of the
\* type it had, exactly or with an error, and also as a value that was made from
\* the text in the database (Setting, NewValue, and the readers of Value). Asked for
\* several keys, no two of them equal, Settings never returns without an error when one
\* is missing; and if all keys have three parts it fails for no other reason, and
\* answers with those that there are. (The rows of other keys come under another key,
\* where they may meet, or make it panic.)
ReadsBack ==
  /\ AllKept
  /\ \A c \in Clients :
       /\ \A k \in Keys : View(c, k) # None =>
            \E d \in Clients : /\ Setting(c, k) = NewValue(says[d])
                               /\ ReadsBackAs(says[d], Setting(c, k))
       /\ \A ks \in SUBSET Keys, cut \in [Keys -> CutKeys \cup {Nobody}] :
            LET answer == Settings(c, ks, Cardinality(ks), cut)
            IN  /\ answer.res = "ok" => Found(c, ks) = ks
                /\ Proper(ks, cut) => /\ answer.res = "ok" <=> Found(c, ks) = ks
                                      /\ answer.res # "panic" /\ answer.keys = Found(c, ks)

\* Register never changes a setting that was there when it was called and has not
\* been deleted since ("Existing settings are unchanged"); in the database not even one
\* that another transaction has saved meanwhile, when its statement commits.
RegisterKeeps ==
  [][\A c \in Clients, k \in Keys : op[c].name = "register" =>
       /\ Apply(c) /\ op[c].next = k /\ k \in op[c].seen =>
            IF backend = "memory" THEN stored'[k] = stored[k]
                                  ELSE pend'[c][k] = pend[c][k]
       /\ Finish(c) /\ tx[c] = "none" /\ stored[k] # None =>
            stored'[k] = stored[k]]_settingsVars

\* Every call returns, also if several instances register the same keys in
\* different orders and wait for each other's rows.
CallsReturn == \A c \in Clients : op[c] # NoCall ~> op[c] = NoCall
=============================================================================
