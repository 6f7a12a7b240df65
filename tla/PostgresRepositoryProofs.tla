---------------------- MODULE PostgresRepositoryProofs ----------------------
(***************************************************************************)
(* Proofs about PostgresRepository: its types, that the clients never all  *)
(* wait for each other's connections and rows, and that repository and     *)
(* decorators implement UnitsOfWork, for any clients, entities, methods,   *)
(* queries, faults and size of the pool.                                   *)
(***************************************************************************)
EXTENDS PostgresRepository, FiniteSetTheorems, TLAPS

Txs == [st : {"none", "open", "failed", "ended"}, pend : [IDs -> Clients \cup {Absent, Same}]]
Phases == {"idle", "look", "begin", "declare", "ready", "sent", "iterate", "commit"}

(* What a client has, and how it hangs together: it has a connection of    *)
(* its own only for a statement outside of a transaction, a transaction    *)
(* only in a use case or during a call, and UpdateAll and AllIter always   *)
(* one, which is open while AllIter reads.                                 *)
Client(c) ==
  /\ unit[c] \in {"none", "begin", "open"}
  /\ left[c] \in 0 .. MaxCalls
  /\ tx[c] \in Txs
  /\ call[c] \in Calls(Methods) \cup {None}
  /\ at[c] \in Phases
  /\ todo[c] \subseteq IDs \cup {ZeroID}
  /\ touch[c] \subseteq IDs
  /\ conn[c] \in BOOLEAN
  /\ call[c] = None <=> at[c] = "idle"
  /\ unit[c] = "begin" => call[c] = None
  /\ conn[c] => at[c] = "sent" /\ tx[c].st = "none"
  /\ tx[c].st # "none" =>
       unit[c] = "open" \/ (call[c] # None /\ call[c].name \in {"UpdateAll", "AllIter"})
  /\ tx[c].st = "ended" => unit[c] = "open"
  /\ at[c] = "look" => call[c].name = "AddAll"
  /\ at[c] = "begin" => call[c].name \in {"UpdateAll", "AllIter"}
  /\ at[c] = "look" /\ ZeroID \in call[c].ids => ZeroID \in todo[c]
  /\ at[c] = "ready" /\ call[c].name \in Creates \cup {"Save"} => ZeroID \notin call[c].ids
  /\ at[c] \in {"ready", "sent"} => call[c].name # "AllIter"
  /\ at[c] \notin {"idle", "begin"} /\ call[c].name \in {"UpdateAll", "AllIter"} => tx[c].st # "none"
  /\ at[c] \in {"declare", "iterate"} => call[c].name = "AllIter"
  /\ at[c] = "iterate" => tx[c].st = "open"

Functions ==
  /\ DOMAIN unit = Clients /\ unit = [d \in Clients |-> unit[d]]
  /\ left = [d \in Clients |-> left[d]]
  /\ tx = [d \in Clients |-> tx[d]]
  /\ call = [d \in Clients |-> call[d]]
  /\ at = [d \in Clients |-> at[d]]
  /\ todo = [d \in Clients |-> todo[d]]
  /\ touch = [d \in Clients |-> touch[d]]
  /\ conn = [d \in Clients |-> conn[d]]

Shared ==
  /\ rows \in [IDs -> Clients \cup {Absent}]
  /\ lost.rows \subseteq IDs /\ lost.conns \in Nat
  /\ lost = [conns |-> lost.conns, rows |-> lost.rows]
  /\ InUse <= MaxConns

IInv == Functions /\ Shared /\ \A c \in Clients : Client(c)

(* A step of client c leaves what the others have.                         *)
Touches(c) ==
  /\ unit' = [unit EXCEPT ![c] = unit'[c]]
  /\ left' = [left EXCEPT ![c] = left'[c]]
  /\ tx' = [tx EXCEPT ![c] = tx'[c]]
  /\ call' = [call EXCEPT ![c] = call'[c]]
  /\ at' = [at EXCEPT ![c] = at'[c]]
  /\ todo' = [todo EXCEPT ![c] = todo'[c]]
  /\ touch' = [touch EXCEPT ![c] = touch'[c]]
  /\ conn' = [conn EXCEPT ![c] = conn'[c]]

(***************************************************************************)
(* The connections in use.                                                 *)
(***************************************************************************)
Holders == {c \in Clients : Holds(c)}
Owners  == {c \in Clients : conn[c]}

LEMMA UseFinite ==
  /\ IsFiniteSet(Holders) /\ Cardinality(Holders) \in Nat
  /\ IsFiniteSet(Owners) /\ Cardinality(Owners) \in Nat
  /\ IsFiniteSet(Holders)' /\ Cardinality(Holders)' \in Nat
  /\ IsFiniteSet(Owners)' /\ Cardinality(Owners)' \in Nat
  /\ InUse = Cardinality(Holders) + Cardinality(Owners) + lost.conns
  /\ InUse' = Cardinality(Holders)' + Cardinality(Owners)' + lost.conns'
<1>1. /\ Holders \subseteq Clients /\ Owners \subseteq Clients
      /\ Holders' \subseteq Clients /\ Owners' \subseteq Clients
  BY DEF Holders, Owners
<1>2. \A S \in SUBSET Clients : IsFiniteSet(S) /\ Cardinality(S) \in Nat
  BY FS_Subset, FS_CardinalityType, PoolAssumption
<1> QED
  BY <1>1, <1>2 DEF InUse, Holders, Owners

(* A step of c that takes at most one connection, and only if one is free, *)
(* or that loses one for good.                                             *)
LEMMA UseKept ==
  ASSUME IInv, NEW c \in Clients, Touches(c), lost'.conns \in Nat,
         \/ Free /\ lost'.conns = lost.conns /\ ~Holds(c) /\ ~conn[c] /\ ~(Holds(c)' /\ conn'[c])
         \/ lost'.conns = lost.conns /\ (Holds(c)' => Holds(c)) /\ (conn'[c] => conn[c])
         \/ lost'.conns = lost.conns + 1 /\ Holds(c) /\ ~Holds(c)' /\ (conn'[c] => conn[c])
  PROVE  InUse' <= MaxConns
<1>1. \A d \in Clients \ {c} : (Holds(d)' <=> Holds(d)) /\ conn'[d] = conn[d]
  BY DEF Touches, Holds, IInv, Functions
<1>2. Holders' = (IF Holds(c)' THEN Holders \cup {c} ELSE Holders \ {c})
  BY <1>1 DEF Holders
<1>3. Owners' = (IF conn'[c] THEN Owners \cup {c} ELSE Owners \ {c})
  BY <1>1 DEF Owners
<1>4. (Holds(c) <=> c \in Holders) /\ (conn[c] <=> c \in Owners)
  BY DEF Holders, Owners
<1>5. /\ Cardinality(Holders)' = Cardinality(Holders)
           + (IF Holds(c)' THEN IF Holds(c) THEN 0 ELSE 1 ELSE IF Holds(c) THEN -1 ELSE 0)
  BY <1>2, <1>4, UseFinite, FS_AddElement, FS_RemoveElement
<1>6. /\ Cardinality(Owners)' = Cardinality(Owners)
           + (IF conn'[c] THEN IF conn[c] THEN 0 ELSE 1 ELSE IF conn[c] THEN -1 ELSE 0)
  BY <1>3, <1>4, UseFinite, FS_AddElement, FS_RemoveElement
<1>7. InUse <= MaxConns /\ (Free => InUse + 1 <= MaxConns) /\ lost.conns \in Nat
  BY UseFinite, PoolAssumption DEF IInv, Shared, Free
<1> QED
  BY <1>5, <1>6, <1>7, UseFinite, PoolAssumption

(* Putting a step together.                                                *)
LEMMA StepKeeps ==
  ASSUME IInv, NEW c \in Clients, Touches(c), Client(c)', Shared'
  PROVE  IInv' /\ Touches(c)
<1>1. Functions'
  BY DEF IInv, Functions, Touches
<1>2. ASSUME NEW d \in Clients \ {c} PROVE Client(d)'
  <2>1. /\ unit'[d] = unit[d] /\ left'[d] = left[d] /\ tx'[d] = tx[d] /\ call'[d] = call[d]
        /\ at'[d] = at[d] /\ todo'[d] = todo[d] /\ touch'[d] = touch[d] /\ conn'[d] = conn[d]
    BY DEF IInv, Functions, Touches
  <2> QED
    BY <2>1 DEF IInv, Client
<1> QED
  BY <1>1, <1>2 DEF IInv

LEMMA InvTypes == IInv => TypeOK
<1> SUFFICES ASSUME IInv PROVE TypeOK
  OBVIOUS
<1>1. lost.conns \in 0 .. MaxConns
  BY UseFinite, PoolAssumption DEF IInv, Shared
<1> QED
  BY <1>1 DEF IInv, Functions, Shared, Client, TypeOK, Txs, Phases

LEMMA InitInv == Init => IInv
<1> SUFFICES ASSUME Init PROVE IInv
  OBVIOUS
<1>1. Functions
  BY DEF Init, Functions
<1>2. \A c \in Clients : Client(c)
  BY PoolAssumption DEF Init, Client, NoTx, Nothing, Txs, Phases
<1>3. Holders = {} /\ Owners = {}
  BY DEF Init, Holders, Owners, Holds, NoTx
<1>4. InUse <= MaxConns
  BY <1>3, UseFinite, FS_EmptySet, PoolAssumption DEF Init
<1>5. Shared
  BY <1>4 DEF Init, Shared
<1> QED
  BY <1>1, <1>2, <1>5 DEF IInv

(***************************************************************************)
(* The parts of steps.                                                     *)
(***************************************************************************)
LEMMA Stay ==
  ASSUME IInv, NEW c \in Clients
  PROVE  /\ unit = [unit EXCEPT ![c] = unit[c]]
         /\ left = [left EXCEPT ![c] = left[c]]
         /\ tx = [tx EXCEPT ![c] = tx[c]]
         /\ call = [call EXCEPT ![c] = call[c]]
         /\ at = [at EXCEPT ![c] = at[c]]
         /\ todo = [todo EXCEPT ![c] = todo[c]]
         /\ touch = [touch EXCEPT ![c] = touch[c]]
         /\ conn = [conn EXCEPT ![c] = conn[c]]
<1>1. ASSUME NEW f, f = [d \in Clients |-> f[d]]
      PROVE  f = [f EXCEPT ![c] = f[c]]
  BY <1>1
<1> QED
  BY <1>1 DEF IInv, Functions

LEMMA IdleDoes ==
  ASSUME IInv, NEW c \in Clients, Idle(c), UNCHANGED <<unit, left>>, tx' = [tx EXCEPT ![c] = tx'[c]]
  PROVE  /\ Touches(c)
         /\ call'[c] = None /\ at'[c] = "idle" /\ todo'[c] = {} /\ touch'[c] = {} /\ conn'[c] = FALSE
<1>1. /\ call' = [call EXCEPT ![c] = call'[c]] /\ call'[c] = None
  BY DEF Idle, IInv, Functions
<1>2. at' = [at EXCEPT ![c] = at'[c]] /\ at'[c] = "idle"
  BY DEF Idle, IInv, Functions
<1>3. todo' = [todo EXCEPT ![c] = todo'[c]] /\ todo'[c] = {}
  BY DEF Idle, IInv, Functions
<1>4. touch' = [touch EXCEPT ![c] = touch'[c]] /\ touch'[c] = {}
  BY DEF Idle, IInv, Functions
<1>5. conn' = [conn EXCEPT ![c] = conn'[c]] /\ conn'[c] = FALSE
  BY DEF Idle, IInv, Functions
<1>6. unit' = [unit EXCEPT ![c] = unit'[c]] /\ left' = [left EXCEPT ![c] = left'[c]]
  BY Stay
<1> QED
  BY <1>1, <1>2, <1>3, <1>4, <1>5, <1>6 DEF Touches

(* A call that is over has only to give back a transaction of its own.     *)
LEMMA IdleClient ==
  ASSUME IInv, NEW c \in Clients, Idle(c), UNCHANGED <<unit, left>>,
         tx' = [tx EXCEPT ![c] = tx'[c]], tx'[c] \in Txs,
         tx'[c].st # "none" => unit[c] = "open"
  PROVE  Touches(c) /\ Client(c)'
<1>1. /\ Touches(c)
      /\ call'[c] = None /\ at'[c] = "idle" /\ todo'[c] = {} /\ touch'[c] = {} /\ conn'[c] = FALSE
  BY IdleDoes
<1> QED
  BY <1>1 DEF IInv, Client, Phases

(* What it needs of the state when nothing is taken.                       *)
LEMMA QuietShared ==
  ASSUME IInv, NEW c \in Clients, Touches(c),
         rows' \in [IDs -> Clients \cup {Absent}], lost' = lost,
         Holds(c)' => Holds(c), conn'[c] => conn[c]
  PROVE  Shared'
<1>1. InUse' <= MaxConns
  BY UseKept DEF IInv, Shared
<1> QED
  BY <1>1 DEF IInv, Shared

LEMMA ViewType ==
  ASSUME IInv, NEW c \in Clients
  PROVE  View(c) \in [IDs -> Clients \cup {Absent}]
<1>1. /\ rows \in [IDs -> Clients \cup {Absent}]
      /\ tx[c].pend \in [IDs -> Clients \cup {Absent, Same}]
  BY DEF IInv, Shared, Client, Txs
<1> QED
  BY <1>1 DEF View, Overlay

LEMMA ChangeType ==
  ASSUME IInv, NEW c \in Clients
  PROVE  /\ Overlay(rows, Change(c)) \in [IDs -> Clients \cup {Absent}]
         /\ Overlay(tx[c].pend, Change(c)) \in [IDs -> Clients \cup {Absent, Same}]
<1>1. /\ rows \in [IDs -> Clients \cup {Absent}]
      /\ tx[c].pend \in [IDs -> Clients \cup {Absent, Same}]
  BY DEF IInv, Shared, Client, Txs
<1>2. Change(c) \in [IDs -> Clients \cup {Absent, Same}]
  BY DEF Change
<1> QED
  BY <1>1, <1>2 DEF Overlay

(* The ends of a transaction.                                              *)
LEMMA FailedDoes ==
  ASSUME IInv, NEW c \in Clients, tx' = Failed(c)
  PROVE  /\ tx' = [tx EXCEPT ![c] = tx'[c]] /\ tx'[c] \in Txs
         /\ tx'[c].st = "none" <=> tx[c].st = "none"
         /\ tx'[c] = tx[c] \/ tx'[c] = [st |-> "failed", pend |-> Nothing]
         /\ tx'[c].st # "open"
         /\ Holds(c)' => Holds(c)
<1>1. tx[c] \in Txs /\ tx = [d \in Clients |-> tx[d]]
  BY DEF IInv, Functions, Client
<1>2. tx'[c] = IF tx[c].st = "open" THEN [st |-> "failed", pend |-> Nothing] ELSE tx[c]
  BY <1>1 DEF Failed
<1> QED
  BY <1>1, <1>2 DEF Failed, Txs, Nothing, Holds

LEMMA EndedDoes ==
  ASSUME IInv, NEW c \in Clients, tx' = Ended(c)
  PROVE  /\ tx' = [tx EXCEPT ![c] = tx'[c]] /\ tx'[c] \in Txs
         /\ tx'[c].st = IF unit[c] = "open" THEN "ended" ELSE "none"
         /\ tx'[c].pend = Nothing
         /\ ~Holds(c)'
<1>1. tx = [d \in Clients |-> tx[d]]
  BY DEF IInv, Functions
<1>2. tx'[c] = IF unit[c] = "open" THEN [st |-> "ended", pend |-> Nothing] ELSE NoTx
  BY <1>1 DEF Ended
<1> QED
  BY <1>1, <1>2 DEF Ended, Txs, NoTx, Nothing, Holds

LEMMA SameTx ==
  ASSUME IInv, NEW c \in Clients, UNCHANGED tx
  PROVE  tx' = [tx EXCEPT ![c] = tx'[c]] /\ tx'[c] \in Txs /\ (Holds(c)' <=> Holds(c))
  BY DEF IInv, Functions, Client, Holds

(***************************************************************************)
(* Calls of methods.                                                       *)
(***************************************************************************)
LEMMA ListSize ==
  ASSUME NEW S, NEW l \in Seq(S)
  PROVE  ToSet(l) \subseteq S /\ IsFiniteSet(ToSet(l)) /\ Cardinality(ToSet(l)) <= Len(l)
<1>1. Len(l) \in Nat /\ DOMAIN l = 1 .. Len(l) /\ \A i \in DOMAIN l : l[i] \in S
  OBVIOUS
<1>2. IsFiniteSet(1 .. Len(l)) /\ Cardinality(1 .. Len(l)) = Len(l)
  BY <1>1, FS_Interval
<1>3. l \in Surjection(1 .. Len(l), ToSet(l))
  BY <1>1 DEF Surjection, ToSet
<1> QED
  BY <1>1, <1>2, <1>3, FS_Surjection DEF ToSet

LEMMA CallType ==
  ASSUME NEW k \in Calls(Methods)
  PROVE  /\ k.name \in Methods /\ k.len \in Nat /\ k.ids \subseteq IDs \cup {ZeroID}
         /\ k.name \in ForOne => \E i \in IDs \cup {ZeroID} : k.ids = {i}
         /\ k.name \in ForAll => k.ids = IDs
         /\ k.name \in ForOne \cup ForMany => Cardinality(k.ids) <= k.len
<1>1. CASE k \in [name : Methods \cap ForOne, ids : Singles, len : {1}]
  <2>1. PICK i \in IDs \cup {ZeroID} : k.ids = {i}
    BY <1>1, IDAssumption
  <2>2. Cardinality(k.ids) = 1
    BY <2>1, FS_Singleton
  <2> QED
    BY <1>1, <2>1, <2>2 DEF Methods, ForOne, ForAll
<1>2. CASE k \in {[name |-> m, ids |-> ToSet(l), len |-> Len(l)] : m \in Methods \cap ForMany, l \in Lists}
  <2>1. PICK m \in Methods \cap ForMany, l \in Lists : k = [name |-> m, ids |-> ToSet(l), len |-> Len(l)]
    BY <1>2
  <2>2. l \in Seq(IDs \cup {ZeroID})
    BY IDAssumption
  <2> QED
    BY <2>1, <2>2, ListSize DEF Methods, ForOne, ForMany, ForAll
<1>3. CASE k \in [name : Methods \cap ForAll, ids : {IDs}, len : {0}]
  BY <1>3 DEF Methods, ForOne, ForMany, ForAll
<1> QED
  BY <1>1, <1>2, <1>3 DEF Calls

LEMMA CallKeeps ==
  ASSUME IInv, NEW c \in Clients, NEW k \in Calls(Methods), Call(c, k)
  PROVE  IInv' /\ Touches(c)
<1>1. Client(c) /\ Functions
  BY DEF IInv
<1>2. k.ids \subseteq IDs \cup {ZeroID} /\ k # None
  BY CallType, NoCallAssumption
<1>3. Touches(c)
  <2>1. unit' = [unit EXCEPT ![c] = unit'[c]] /\ tx' = [tx EXCEPT ![c] = tx'[c]]
    BY Stay DEF Call
  <2>2. left' = [left EXCEPT ![c] = left'[c]]
    BY <1>1 DEF Call, Functions
  <2>3. /\ call' = [call EXCEPT ![c] = call'[c]] /\ at' = [at EXCEPT ![c] = at'[c]]
    BY <1>1 DEF Call, GoTo, Functions, position
  <2>4. todo' = [todo EXCEPT ![c] = todo'[c]]
    BY <1>1 DEF Call, Functions, position
  <2>5. touch' = [touch EXCEPT ![c] = touch'[c]] /\ conn' = [conn EXCEPT ![c] = conn'[c]]
    BY <1>1 DEF Call, Functions, position
  <2> QED
    BY <2>1, <2>2, <2>3, <2>4, <2>5 DEF Touches
<1>4. left'[c] \in 0 .. MaxCalls
  BY <1>1, PoolAssumption DEF Call, Client, Functions
<1>5. Client(c)'
  <2>1. CASE UNCHANGED position
    BY <1>1, <1>4, <2>1 DEF Call, Client, position
  <2>2. CASE call' = [call EXCEPT ![c] = k] /\ GoTo(c, First(k)) /\ todo' = [todo EXCEPT ![c] = k.ids]
             /\ UNCHANGED <<touch, conn>>
    <3>1. call'[c] = k /\ at'[c] = First(k) /\ todo'[c] = k.ids
      BY <1>1, <2>2 DEF Functions, GoTo
    <3>2. /\ First(k) \in {"look", "begin", "ready"}
          /\ First(k) = "look" => k.name = "AddAll"
          /\ First(k) = "begin" <=> k.name \in {"UpdateAll", "AllIter"}
          /\ First(k) = "ready" => k.name # "AddAll"
      BY DEF First
    <3>3. k.name \in {"Create", "Save"} => ZeroID \notin k.ids
      <4>1. CASE MissingID(k) /\ k.name \in {"Create", "Update", "Save", "Delete"}
        BY <1>1, <1>2, <2>2, <3>1, <4>1 DEF Call, Client, position
      <4> QED
        BY <4>1 DEF MissingID
    <3> QED
      BY <1>1, <1>2, <1>4, <2>2, <3>1, <3>2, <3>3 DEF Call, Client, Phases, Creates
  <2> QED
    BY <2>1, <2>2 DEF Call
<1>6. Shared'
  BY <1>1, <1>3, QuietShared DEF Call, IInv, Shared, Holds, position
<1> QED
  BY <1>3, <1>5, <1>6, StepKeeps

(* Calls that end and change no row, and give back at most a transaction.  *)
LEMMA EndKeeps ==
  ASSUME IInv, NEW c \in Clients, Idle(c), UNCHANGED <<unit, left, lost>>,
         rows' \in [IDs -> Clients \cup {Absent}],
         tx' = [tx EXCEPT ![c] = tx'[c]], tx'[c] \in Txs,
         tx'[c].st # "none" => unit[c] = "open",
         Holds(c)' => Holds(c)
  PROVE  IInv' /\ Touches(c)
<1>1. Touches(c) /\ Client(c)'
  BY IdleClient
<1>2. ~conn'[c]
  BY DEF Idle, IInv, Functions
<1>3. Shared'
  BY <1>1, <1>2, QuietShared
<1> QED
  BY <1>1, <1>3, StepKeeps

(* Between calls only a use case has a transaction: a method that does not *)
(* begin one leaves things as they are.                                    *)
LEMMA OwnTx ==
  ASSUME IInv, NEW c \in Clients, call[c] # None, call[c].name \notin {"UpdateAll", "AllIter"}
  PROVE  tx[c].st # "none" => unit[c] = "open"
  BY DEF IInv, Client

LEMMA LookUpKeeps ==
  ASSUME IInv, NEW c \in Clients, NEW i \in IDs \cup {ZeroID}, LookUp(c, i)
  PROVE  IInv' /\ Touches(c)
<1>1. Client(c) /\ Functions /\ at[c] = "look"
  BY DEF IInv, LookUp
<1>2. UNCHANGED <<rows, unit, left, tx, lost>> /\ rows \in [IDs -> Clients \cup {Absent}]
  BY DEF LookUp, IInv, Shared
<1>3. CASE Idle(c)
  BY <1>1, <1>2, <1>3, SameTx, OwnTx, EndKeeps DEF Client
<1>4. CASE i # ZeroID /\ todo' = [todo EXCEPT ![c] = @ \ {i}] /\ UNCHANGED <<call, at, touch, conn>>
  <2>1. todo' = [todo EXCEPT ![c] = todo'[c]] /\ todo'[c] = todo[c] \ {i}
    BY <1>1, <1>4 DEF Functions
  <2>2. Touches(c)
    BY <1>2, <1>4, <2>1, Stay DEF Touches
  <2>3. Client(c)'
    BY <1>1, <1>2, <1>4, <2>1 DEF Client
  <2>4. Shared'
    BY <1>2, <1>4, <2>2, SameTx, QuietShared
  <2> QED
    BY <2>2, <2>3, <2>4, StepKeeps
<1> QED
  BY <1>3, <1>4 DEF LookUp, Finish

LEMMA LookedUpKeeps ==
  ASSUME IInv, NEW c \in Clients, LookedUp(c)
  PROVE  IInv' /\ Touches(c)
<1>1. Client(c) /\ Functions /\ at[c] = "look" /\ todo[c] = {}
  BY DEF IInv, LookedUp
<1>2. UNCHANGED <<rows, unit, left, tx, lost>> /\ rows \in [IDs -> Clients \cup {Absent}]
  BY DEF LookedUp, IInv, Shared
<1>3. CASE Idle(c)
  BY <1>1, <1>2, <1>3, SameTx, OwnTx, EndKeeps DEF Client
<1>4. CASE GoTo(c, "ready") /\ UNCHANGED <<call, todo, touch, conn>>
  <2>1. at' = [at EXCEPT ![c] = at'[c]] /\ at'[c] = "ready"
    BY <1>1, <1>4 DEF Functions, GoTo
  <2>2. Touches(c)
    BY <1>2, <1>4, <2>1, Stay DEF Touches
  <2>3. Client(c)'
    BY <1>1, <1>2, <1>4, <2>1 DEF Client, Phases
  <2>4. Shared'
    BY <1>2, <1>4, <2>2, SameTx, QuietShared
  <2> QED
    BY <2>2, <2>3, <2>4, StepKeeps
<1> QED
  BY <1>3, <1>4 DEF LookedUp, Finish

(***************************************************************************)
(* A transaction, or a connection, is taken.                               *)
(***************************************************************************)
LEMMA OpenTx ==
  ASSUME IInv, NEW c \in Clients, tx' = [tx EXCEPT ![c].st = "open"]
  PROVE  tx' = [tx EXCEPT ![c] = tx'[c]] /\ tx'[c] \in Txs /\ tx'[c].st = "open"
<1>1. tx[c] \in Txs /\ tx = [d \in Clients |-> tx[d]]
  BY DEF IInv, Functions, Client
<1>2. tx'[c] = [tx[c] EXCEPT !.st = "open"]
  BY <1>1
<1>3. tx' = [tx EXCEPT ![c] = tx'[c]]
  BY <1>1, <1>2
<1>4. [tx[c] EXCEPT !.st = "open"] \in Txs /\ [tx[c] EXCEPT !.st = "open"].st = "open"
  BY <1>1 DEF Txs
<1> QED
  BY <1>2, <1>3, <1>4

LEMMA BeginOwnKeeps ==
  ASSUME IInv, NEW c \in Clients, BeginOwn(c)
  PROVE  IInv' /\ Touches(c)
<1>1. Client(c) /\ Functions /\ at[c] = "begin" /\ call[c] # None
  BY DEF IInv, BeginOwn, Client
<1>2. UNCHANGED <<rows, unit, left, call, todo, touch, conn, lost>>
  BY DEF BeginOwn
<1>3. /\ at' = [at EXCEPT ![c] = at'[c]]
      /\ at'[c] \in {"declare", "commit", "ready"} /\ (call[c].name = "AllIter" <=> at'[c] = "declare")
  BY <1>1 DEF BeginOwn, GoTo, Functions
<1>4. /\ tx' = [tx EXCEPT ![c] = tx'[c]] /\ tx'[c] \in Txs /\ tx'[c].st # "none"
      /\ \/ UNCHANGED tx
         \/ Free /\ tx[c].st = "none" /\ tx'[c].st = "open"
  BY SameTx, OpenTx DEF BeginOwn, TxOrConn
<1>5. Touches(c)
  BY <1>2, <1>3, <1>4, Stay DEF Touches
<1>6. Client(c)'
  BY <1>1, <1>2, <1>3, <1>4 DEF Client, Phases, Creates
<1>7. InUse' <= MaxConns
  BY <1>1, <1>2, <1>4, <1>5, SameTx, UseKept DEF Client, Holds, IInv, Shared
<1>8. Shared'
  BY <1>2, <1>7 DEF IInv, Shared
<1> QED
  BY <1>5, <1>6, <1>8, StepKeeps

LEMMA BeginOwnFailsKeeps ==
  ASSUME IInv, NEW c \in Clients, BeginOwnFails(c)
  PROVE  IInv' /\ Touches(c)
<1>1. tx[c].st = "none" /\ Idle(c) /\ UNCHANGED <<rows, unit, left, tx, lost>>
  BY DEF BeginOwnFails, TxOrConn, Finish
<1> QED
  BY <1>1, SameTx, EndKeeps DEF IInv, Shared

LEMMA SendKeeps ==
  ASSUME IInv, NEW c \in Clients, NEW ids \in SUBSET (IDs \cup {ZeroID}), Send(c, ids)
  PROVE  IInv' /\ Touches(c)
<1>1. Client(c) /\ Functions /\ at[c] = "ready" /\ call[c] # None
  BY DEF IInv, Send, Client
<1>2. UNCHANGED <<rows, unit, left, tx, call, lost>>
  BY DEF Send
<1>3. at' = [at EXCEPT ![c] = at'[c]] /\ at'[c] = "sent"
  BY <1>1 DEF Send, GoTo, Functions
<1>4. conn' = [conn EXCEPT ![c] = conn'[c]] /\ conn'[c] = (tx[c].st = "none")
  BY <1>1 DEF Send, TxOrConn, Functions
<1>5. todo' = [todo EXCEPT ![c] = todo'[c]] /\ todo'[c] = todo[c] \ ids
  BY <1>1 DEF Send, Functions
<1>6. touch' = [touch EXCEPT ![c] = touch'[c]] /\ touch'[c] = Reached(c, ids)
  BY <1>1 DEF Send, Functions
<1>7. Reached(c, ids) \subseteq IDs
  BY <1>1 DEF Send, Reached, Client, Creates
<1>8. Touches(c)
  BY <1>2, <1>3, <1>4, <1>5, <1>6, Stay DEF Touches
<1>9. Client(c)'
  BY <1>1, <1>2, <1>3, <1>4, <1>5, <1>6, <1>7 DEF Client, Phases
<1>10. InUse' <= MaxConns
  <2>1. tx[c].st = "none" => Free /\ ~Holds(c)
    BY DEF Send, Holds
  <2>2. ~conn[c] /\ (Holds(c)' <=> Holds(c)) /\ lost.conns \in Nat
    BY <1>1, <1>2 DEF Client, Holds, IInv, Shared
  <2> QED
    BY <1>2, <1>4, <1>8, <2>1, <2>2, UseKept
<1>11. Shared'
  BY <1>2, <1>10 DEF IInv, Shared
<1> QED
  BY <1>8, <1>9, <1>11, StepKeeps

(***************************************************************************)
(* What a statement does.                                                  *)
(***************************************************************************)
LEMMA ExecutedDoes ==
  ASSUME IInv, NEW c \in Clients, Executed(c)
  PROVE  /\ rows' \in [IDs -> Clients \cup {Absent}]
         /\ tx' = [tx EXCEPT ![c] = tx'[c]] /\ tx'[c] \in Txs /\ tx'[c].st = tx[c].st
         /\ Holds(c)' <=> Holds(c)
<1>1. tx[c] \in Txs /\ tx = [d \in Clients |-> tx[d]] /\ rows \in [IDs -> Clients \cup {Absent}]
  BY DEF IInv, Functions, Client, Shared
<1>2. CASE TxOrConn(c)
  <2> DEFINE p == Overlay(tx[c].pend, Change(c))
  <2>1. p \in [IDs -> Clients \cup {Absent, Same}]
    BY ChangeType
  <2>2. tx' = [tx EXCEPT ![c].pend = p] /\ UNCHANGED rows
    BY <1>2 DEF Executed
  <2> HIDE DEF p
  <2>3. tx'[c] = [tx[c] EXCEPT !.pend = p]
    BY <1>1, <2>2
  <2>4. tx' = [tx EXCEPT ![c] = tx'[c]]
    BY <1>1, <2>2, <2>3
  <2>5. /\ [tx[c] EXCEPT !.pend = p] \in Txs
        /\ [tx[c] EXCEPT !.pend = p].st = tx[c].st
    BY <1>1, <2>1 DEF Txs
  <2> QED
    BY <1>1, <2>2, <2>3, <2>4, <2>5 DEF Holds
<1>3. CASE ~TxOrConn(c)
  BY <1>3, SameTx, ChangeType DEF Executed
<1> QED
  BY <1>2, <1>3

LEMMA ExecuteKeeps ==
  ASSUME IInv, NEW c \in Clients, Execute(c)
  PROVE  IInv' /\ Touches(c)
<1>1. Client(c) /\ Functions /\ at[c] = "sent" /\ call[c] # None
  BY DEF IInv, Execute, Client
<1>2. /\ UNCHANGED <<unit, left, lost>>
      /\ rows' \in [IDs -> Clients \cup {Absent}]
      /\ tx' = [tx EXCEPT ![c] = tx'[c]] /\ tx'[c] \in Txs /\ tx'[c].st = tx[c].st
      /\ Holds(c)' <=> Holds(c)
  BY ExecutedDoes DEF Execute
<1>3. CASE call[c].name = "UpdateAll"
  <2>1. UNCHANGED <<call, todo, touch, conn>>
    BY <1>3 DEF Execute
  <2>2. at' = [at EXCEPT ![c] = at'[c]] /\ at'[c] \in {"commit", "ready"}
    BY <1>1, <1>3 DEF Execute, GoTo, Functions
  <2>3. Touches(c)
    BY <1>2, <2>1, <2>2, Stay DEF Touches
  <2>4. Client(c)'
    BY <1>1, <1>2, <1>3, <2>1, <2>2 DEF Client, Phases, Creates
  <2>5. Shared'
    BY <1>2, <2>1, <2>3, QuietShared
  <2> QED
    BY <2>3, <2>4, <2>5, StepKeeps
<1>4. CASE call[c].name # "UpdateAll"
  BY <1>1, <1>2, <1>4, OwnTx, EndKeeps DEF Execute, Finish, Client
<1> QED
  BY <1>3, <1>4

LEMMA RefusedKeeps ==
  ASSUME IInv, NEW c \in Clients, AlreadyExists(c) \/ NotFound(c)
  PROVE  IInv' /\ Touches(c)
<1>1. Client(c) /\ at[c] = "sent" /\ call[c] # None
  BY DEF IInv, AlreadyExists, NotFound, Client
<1>2. /\ UNCHANGED <<rows, unit, left, lost>> /\ Idle(c)
      /\ rows \in [IDs -> Clients \cup {Absent}]
  BY DEF AlreadyExists, NotFound, Finish, IInv, Shared
<1>3. CASE AlreadyExists(c)
  <2>1. tx' = Failed(c) /\ call[c].name # "UpdateAll"
    BY <1>3 DEF AlreadyExists, Violates, Creates
  <2> QED
    BY <1>1, <1>2, <2>1, FailedDoes, OwnTx, EndKeeps DEF Client
<1>4. CASE NotFound(c)
  <2>1. tx' = IF call[c].name = "UpdateAll" THEN Ended(c) ELSE tx
    BY <1>4 DEF NotFound
  <2> QED
    BY <1>1, <1>2, <2>1, EndedDoes, SameTx, OwnTx, EndKeeps DEF Client
<1> QED
  BY <1>3, <1>4

LEMMA StatementFailsKeeps ==
  ASSUME IInv, NEW c \in Clients, StatementFails(c)
  PROVE  IInv' /\ Touches(c)
<1>1. Client(c) /\ at[c] \in {"look", "ready", "sent"} /\ call[c] # None
  BY DEF IInv, StatementFails, Client
<1>2. /\ UNCHANGED <<rows, unit, left, lost>> /\ Idle(c)
      /\ rows \in [IDs -> Clients \cup {Absent}]
  BY DEF StatementFails, Finish, IInv, Shared
<1>3. CASE call[c].name = "UpdateAll" /\ tx[c].st # "ended" /\ tx' = Ended(c)
  BY <1>2, <1>3, EndedDoes, EndKeeps
<1>4. CASE (call[c].name # "UpdateAll" \/ tx[c].st = "ended") /\ tx' = Failed(c)
  BY <1>1, <1>2, <1>4, FailedDoes, OwnTx, EndKeeps DEF Client
<1> QED
  BY <1>3, <1>4 DEF StatementFails

LEMMA ReadKeeps ==
  ASSUME IInv, NEW c \in Clients, Read(c) \/ All(c)
  PROVE  IInv' /\ Touches(c)
<1>1. /\ Client(c) /\ at[c] = "ready" /\ call[c] # None
      /\ call[c].name \notin {"UpdateAll", "AllIter"}
  BY DEF IInv, Read, All, Reads, Client
<1>2. /\ UNCHANGED <<rows, unit, left, tx, lost>> /\ Idle(c)
      /\ rows \in [IDs -> Clients \cup {Absent}]
  BY DEF Read, All, IInv, Shared
<1> QED
  BY <1>1, <1>2, SameTx, OwnTx, EndKeeps

(***************************************************************************)
(* The iterator and the commit of a method.                                *)
(***************************************************************************)
LEMMA GoOnKeeps ==
  ASSUME IInv, NEW c \in Clients, Declare(c) \/ IterEnds(c)
  PROVE  IInv' /\ Touches(c)
<1>1. Client(c) /\ Functions /\ at[c] \in {"declare", "iterate"} /\ call[c] # None /\ tx[c].st = "open"
  BY DEF IInv, Declare, IterEnds, Client
<1>2. UNCHANGED <<rows, unit, left, tx, call, todo, touch, conn, lost>> /\ rows \in [IDs -> Clients \cup {Absent}]
  BY DEF Declare, IterEnds, IInv, Shared
<1>3. at' = [at EXCEPT ![c] = at'[c]] /\ at'[c] \in {"iterate", "commit"}
  BY <1>1 DEF Declare, IterEnds, Functions, GoTo
<1>4. Touches(c)
  BY <1>2, <1>3, Stay DEF Touches
<1>5. Client(c)'
  BY <1>1, <1>2, <1>3 DEF Client, Phases
<1>6. Shared'
  BY <1>2, <1>4, SameTx, QuietShared
<1> QED
  BY <1>4, <1>5, <1>6, StepKeeps

(* The ways out of AllIter before its COMMIT: the transaction is the one   *)
(* of its use case, or its connection is lost.                             *)
LEMMA LeaveKeeps ==
  ASSUME IInv, NEW c \in Clients, DeclareFails(c) \/ Break(c) \/ ContextDone(c)
  PROVE  IInv' /\ Touches(c)
<1>1. Client(c) /\ Functions /\ at[c] \in {"declare", "iterate"} /\ tx[c].st # "none"
  BY DEF IInv, DeclareFails, Break, ContextDone, Client
<1>2. /\ UNCHANGED <<rows, unit, left>> /\ Idle(c)
      /\ rows \in [IDs -> Clients \cup {Absent}]
  BY DEF DeclareFails, Break, ContextDone, Finish, IInv, Shared
<1>3. Leave(c, tx) \/ Leave(c, Failed(c))
  BY DEF DeclareFails, Break, ContextDone
<1>4. CASE unit[c] = "open"
  <2>1. lost' = lost /\ (tx' = tx \/ tx' = Failed(c))
    BY <1>3, <1>4 DEF Leave
  <2> QED
    BY <1>2, <1>4, <2>1, SameTx, FailedDoes, EndKeeps
<1>5. CASE unit[c] # "open"
  <2>1. tx' = [tx EXCEPT ![c] = NoTx] /\ lost' = [lost EXCEPT !.conns = @ + 1]
    BY <1>3, <1>5 DEF Leave
  <2>2. tx' = [tx EXCEPT ![c] = tx'[c]] /\ tx'[c] \in Txs /\ tx'[c].st = "none" /\ ~Holds(c)'
    BY <1>1, <2>1 DEF Functions, Txs, NoTx, Nothing, Holds
  <2>3. Holds(c)
    BY <1>1, <1>5 DEF Client, Holds, Txs
  <2>4. Touches(c) /\ Client(c)' /\ ~conn'[c]
    BY <1>2, <2>2, IdleClient, IdleDoes
  <2>5. /\ lost'.conns = lost.conns + 1 /\ lost'.rows = lost.rows /\ lost.conns \in Nat
        /\ lost' = [conns |-> lost'.conns, rows |-> lost'.rows]
    BY <2>1 DEF IInv, Shared
  <2>6. InUse' <= MaxConns
    BY <2>2, <2>3, <2>4, <2>5, UseKept
  <2>7. Shared'
    BY <1>2, <2>5, <2>6 DEF IInv, Shared
  <2> QED
    BY <2>4, <2>7, StepKeeps
<1> QED
  BY <1>4, <1>5

LEMMA CommitOwnKeeps ==
  ASSUME IInv, NEW c \in Clients, CommitOwn(c) \/ CommitOwnFails(c)
  PROVE  IInv' /\ Touches(c)
<1>1. UNCHANGED <<unit, left, lost>> /\ tx' = Ended(c) /\ Idle(c)
  BY DEF CommitOwn, CommitOwnFails, Finish
<1>2. rows' \in [IDs -> Clients \cup {Absent}]
  BY ViewType DEF CommitOwn, CommitOwnFails, IInv, Shared
<1> QED
  BY <1>1, <1>2, EndedDoes, EndKeeps

(***************************************************************************)
(* The decorator.                                                          *)
(***************************************************************************)
LEMMA UseCaseKeeps ==
  ASSUME IInv, NEW c \in Clients, UseCase(c)
  PROVE  IInv' /\ Touches(c)
<1>1. Client(c) /\ Functions /\ unit[c] = "none" /\ call[c] = None
  BY DEF IInv, UseCase
<1>2. UNCHANGED <<rows, left, tx, call, at, todo, touch, conn, lost>>
  BY DEF UseCase, position
<1>3. unit' = [unit EXCEPT ![c] = unit'[c]] /\ unit'[c] = "begin"
  BY <1>1 DEF UseCase, Functions
<1>4. Touches(c)
  BY <1>2, <1>3, Stay DEF Touches
<1>5. Client(c)'
  BY <1>1, <1>2, <1>3 DEF Client
<1>6. Shared'
  BY <1>2, <1>4, SameTx, QuietShared DEF IInv, Shared
<1> QED
  BY <1>4, <1>5, <1>6, StepKeeps

LEMMA BeginKeeps ==
  ASSUME IInv, NEW c \in Clients, Begin(c)
  PROVE  IInv' /\ Touches(c)
<1>1. Client(c) /\ Functions /\ unit[c] = "begin" /\ Free
  BY DEF IInv, Begin
<1>2. UNCHANGED <<rows, call, at, todo, touch, conn, lost>>
  BY DEF Begin, position
<1>3. unit' = [unit EXCEPT ![c] = unit'[c]] /\ unit'[c] = "open"
  BY <1>1 DEF Begin, Functions
<1>4. left' = [left EXCEPT ![c] = left'[c]] /\ left'[c] = MaxCalls
  BY <1>1 DEF Begin, Functions
<1>5. tx' = [tx EXCEPT ![c] = tx'[c]] /\ tx'[c] \in Txs /\ tx'[c].st = "open"
  BY OpenTx DEF Begin
<1>6. Touches(c)
  BY <1>2, <1>3, <1>4, <1>5, Stay DEF Touches
<1>7. Client(c)'
  BY <1>1, <1>2, <1>3, <1>4, <1>5, PoolAssumption DEF Client
<1>8. call[c] = None /\ tx[c].st = "none" /\ ~conn[c]
  BY <1>1 DEF Client
<1>9. InUse' <= MaxConns
  BY <1>1, <1>2, <1>6, <1>8, UseKept DEF Holds, IInv, Shared
<1>10. Shared'
  BY <1>2, <1>9 DEF IInv, Shared
<1> QED
  BY <1>6, <1>7, <1>10, StepKeeps

LEMMA UnitEndsKeeps ==
  ASSUME IInv, NEW c \in Clients, BeginFails(c) \/ Commit(c) \/ CommitFails(c) \/ Rollback(c)
  PROVE  IInv' /\ Touches(c)
<1>1. Client(c) /\ Functions /\ call[c] = None
  BY DEF IInv, BeginFails, Commit, CommitFails, Rollback, Client
<1>2. PICK res \in {"ok", "failed"} : UnitEnds(c, res)
  BY DEF BeginFails, Commit, CommitFails, Rollback
<1>3. rows' \in [IDs -> Clients \cup {Absent}]
  BY ViewType DEF BeginFails, Commit, CommitFails, Rollback, IInv, Shared
<1>4. UNCHANGED <<call, at, todo, touch, conn, lost>>
  BY <1>2 DEF UnitEnds, position
<1>5. unit' = [unit EXCEPT ![c] = unit'[c]] /\ unit'[c] = "none"
  BY <1>1, <1>2 DEF UnitEnds, Functions
<1>6. left' = [left EXCEPT ![c] = left'[c]] /\ left'[c] = 0
  BY <1>1, <1>2 DEF UnitEnds, Functions
<1>7. tx' = [tx EXCEPT ![c] = tx'[c]] /\ tx'[c] \in Txs /\ tx'[c].st = "none" /\ ~Holds(c)'
  BY <1>1, <1>2 DEF UnitEnds, Functions, Txs, NoTx, Nothing, Holds
<1>8. Touches(c)
  BY <1>4, <1>5, <1>6, <1>7, Stay DEF Touches
<1>9. Client(c)'
  BY <1>1, <1>4, <1>5, <1>6, <1>7, PoolAssumption DEF Client
<1>10. Shared'
  BY <1>3, <1>4, <1>7, <1>8, QuietShared
<1> QED
  BY <1>8, <1>9, <1>10, StepKeeps

LEMMA PanicsDoes ==
  ASSUME IInv, NEW c \in Clients, Panics(c)
  PROVE  /\ Touches(c) /\ Client(c)' /\ last' = None
         /\ unit'[c] = "none" /\ tx'[c] = NoTx /\ at'[c] = "idle" /\ ~Holds(c)' /\ ~conn'[c]
<1>1. Client(c) /\ Functions /\ Idle(c) /\ last' = None
  BY DEF IInv, Panics
<1>2. unit' = [unit EXCEPT ![c] = unit'[c]] /\ unit'[c] = "none"
  BY <1>1 DEF Panics, Functions
<1>3. left' = [left EXCEPT ![c] = left'[c]] /\ left'[c] = 0
  BY <1>1 DEF Panics, Functions
<1>4. tx' = [tx EXCEPT ![c] = tx'[c]] /\ tx'[c] = NoTx
  BY <1>1 DEF Panics, Functions
<1>5. tx'[c] \in Txs /\ tx'[c].st = "none" /\ ~Holds(c)'
  BY <1>4 DEF Txs, NoTx, Nothing, Holds
<1>6. /\ call' = [call EXCEPT ![c] = call'[c]] /\ call'[c] = None
      /\ at' = [at EXCEPT ![c] = at'[c]] /\ at'[c] = "idle"
  BY <1>1 DEF Idle, Functions
<1>7. /\ todo' = [todo EXCEPT ![c] = todo'[c]] /\ todo'[c] = {}
      /\ touch' = [touch EXCEPT ![c] = touch'[c]] /\ touch'[c] = {}
  BY <1>1 DEF Idle, Functions
<1>8. conn' = [conn EXCEPT ![c] = conn'[c]] /\ conn'[c] = FALSE
  BY <1>1 DEF Idle, Functions
<1>9. Touches(c)
  BY <1>2, <1>3, <1>4, <1>6, <1>7, <1>8 DEF Touches
<1>10. Client(c)'
  <2>1. left'[c] \in 0 .. MaxCalls
    BY <1>3, PoolAssumption
  <2>2. call'[c] \in Calls(Methods) \cup {None} /\ at'[c] \in Phases
    BY <1>6 DEF Phases
  <2>3. todo'[c] \subseteq IDs \cup {ZeroID} /\ touch'[c] \subseteq IDs /\ conn'[c] \in BOOLEAN
    BY <1>7, <1>8
  <2> QED
    BY <1>2, <1>5, <1>6, <1>8, <2>1, <2>2, <2>3 DEF Client
<1> QED
  BY <1>1, <1>2, <1>4, <1>5, <1>6, <1>8, <1>9, <1>10

LEMMA PanicKeeps ==
  ASSUME IInv, NEW c \in Clients, Panic(c)
  PROVE  IInv' /\ Touches(c)
<1>1. /\ Touches(c) /\ Client(c)' /\ ~Holds(c)' /\ ~conn'[c] /\ rows' = rows
  BY PanicsDoes DEF Panic
<1>2. /\ lost' = [conns |-> lost'.conns, rows |-> lost'.rows]
      /\ lost'.conns = lost.conns + (IF Holds(c) THEN 1 ELSE 0)
      /\ lost'.rows \subseteq IDs /\ lost.conns \in Nat
  BY DEF Panic, IInv, Shared
<1>3. InUse' <= MaxConns
  BY <1>1, <1>2, UseKept
<1>4. Shared'
  BY <1>1, <1>2, <1>3 DEF IInv, Shared
<1> QED
  BY <1>1, <1>4, StepKeeps

(* The transaction has ended when AllIter yields its second error.         *)
LEMMA IterFailsKeeps ==
  ASSUME IInv, NEW c \in Clients, IterFails(c)
  PROVE  IInv' /\ Touches(c)
<1>1. UNCHANGED <<rows, lost>> /\ rows \in [IDs -> Clients \cup {Absent}]
  BY DEF IterFails, IInv, Shared
<1>2. CASE tx' = Ended(c) /\ Idle(c) /\ UNCHANGED <<unit, left>>
  BY <1>1, <1>2, EndedDoes, EndKeeps
<1>3. CASE Panics(c)
  <2>1. Touches(c) /\ Client(c)' /\ ~Holds(c)' /\ ~conn'[c]
    BY <1>3, PanicsDoes
  <2>2. Shared'
    BY <1>1, <2>1, QuietShared
  <2> QED
    BY <2>1, <2>2, StepKeeps
<1> QED
  BY <1>2, <1>3 DEF IterFails, Finish

Step(c) ==
  \/ (\E k \in Calls(Methods) : Call(c, k))
  \/ (\E i \in IDs \cup {ZeroID} : LookUp(c, i)) \/ LookedUp(c)
  \/ BeginOwn(c) \/ BeginOwnFails(c) \/ (\E ids \in SUBSET (IDs \cup {ZeroID}) : Send(c, ids))
  \/ Execute(c) \/ AlreadyExists(c) \/ NotFound(c) \/ StatementFails(c)
  \/ Read(c) \/ All(c)
  \/ Declare(c) \/ DeclareFails(c) \/ Break(c) \/ ContextDone(c) \/ IterFails(c)
  \/ IterEnds(c) \/ CommitOwn(c) \/ CommitOwnFails(c)
  \/ UseCase(c) \/ Begin(c) \/ BeginFails(c)
  \/ Commit(c) \/ CommitFails(c) \/ Rollback(c) \/ Panic(c)

LEMMA NextStep ==
  ASSUME IInv, Next
  PROVE  IInv' /\ \E c \in Clients : Step(c) /\ Touches(c)
<1>1. PICK c \in Clients : Step(c)
  BY DEF Next, Step
<1>2. IInv' /\ Touches(c)
  BY <1>1, CallKeeps, LookUpKeeps, LookedUpKeeps, BeginOwnKeeps, BeginOwnFailsKeeps,
     SendKeeps, ExecuteKeeps, RefusedKeeps, StatementFailsKeeps, ReadKeeps, GoOnKeeps, LeaveKeeps,
     IterFailsKeeps, CommitOwnKeeps, UseCaseKeeps, BeginKeeps, UnitEndsKeeps, PanicKeeps DEF Step
<1> QED
  BY <1>1, <1>2

LEMMA NextKeeps == IInv /\ [Next]_vars => IInv'
<1> SUFFICES ASSUME IInv, [Next]_vars PROVE IInv'
  OBVIOUS
<1>1. CASE Next
  BY <1>1, NextStep
<1>2. CASE UNCHANGED vars
  BY <1>2 DEF vars, position, IInv, Functions, Shared, Client, InUse, Holds
<1> QED
  BY <1>1, <1>2

(* The repository and the decorators keep their types, and never take more *)
(* connections than the pool has.                                          *)
THEOREM TypeCorrect == Spec => []TypeOK
  BY InitInv, NextKeeps, InvTypes, PTL DEF Spec

(***************************************************************************)
(* Nobody needs more than one connection for good, so one of them is free  *)
(* when the pool has one more than there are clients; and clients that all *)
(* wait for rows wait in a circle, which Postgres resolves.                *)
(***************************************************************************)
LEMMA OneEach ==
  ASSUME IInv, lost.conns = 0
  PROVE  InUse <= Cardinality(Clients)
<1>1. Owners \subseteq Clients \ Holders
  BY DEF IInv, Client, Owners, Holders, Holds
<1>2. Holders \subseteq Clients
  BY DEF Holders
<1>3. /\ Cardinality(Owners) <= Cardinality(Clients \ Holders)
      /\ Cardinality(Clients \ Holders) = Cardinality(Clients) - Cardinality(Holders)
      /\ Cardinality(Clients) \in Nat
      /\ Cardinality(Clients \ Holders) \in Nat
  <2>1. Clients \cap Holders = Holders
    BY <1>2
  <2> QED
    BY <1>1, <2>1, FS_Difference, FS_Subset, FS_CardinalityType, PoolAssumption
<1> QED
  BY <1>3, UseFinite

LEMMA InvPool == IInv => PoolSuffices
<1> SUFFICES ASSUME IInv PROVE PoolSuffices
  OBVIOUS
<1>1. \A c \in Clients : /\ conn[c] => at[c] = "sent" /\ ~TxOrConn(c)
                         /\ TxOrConn(c) => unit[c] = "open" \/ call[c] # None
  BY DEF IInv, Client, TxOrConn
<1>2. ASSUME MaxConns > Cardinality(Clients), lost = [conns |-> 0, rows |-> {}],
             \A c \in Clients : Stuck(c)
      PROVE  FALSE
  <2>1. lost.conns = 0 /\ lost.rows = {}
    BY <1>2
  <2>2. Free
    BY <1>2, <2>1, OneEach, UseFinite, FS_CardinalityType, PoolAssumption DEF Free
  <2>3. \A c \in Clients : (\E d \in Clients : Waits(c, d)) /\ ~Deadlocked(c)
    BY <1>2, <2>1, <2>2 DEF Stuck, Blocked
  <2>4. PICK c : c \in Clients
    BY PoolAssumption
  <2>5. Deadlocked(c)
    BY <2>3, <2>4 DEF Deadlocked
  <2> QED
    BY <2>3, <2>4, <2>5
<1> QED
  BY <1>1, <1>2 DEF PoolSuffices

(* A client has no connection between its calls and at most one otherwise, *)
(* so a pool with one connection more than there are clients never lets    *)
(* all of them wait (postgres.repository.go:257, dependencies.go:394), as  *)
(* long as no SaveAll has panicked in a use case and no AllIter outside of *)
(* one has ended before its COMMIT (712-719, 769-772, 778-781).            *)
THEOREM PoolCorrect == Spec => []PoolSuffices
  BY InitInv, NextKeeps, InvPool, PTL DEF Spec
(***************************************************************************)
(* The refinement of UnitsOfWork. What a client's transaction and its      *)
(* place in a method say about each other: a transaction that is not open  *)
(* has no changes, one outside of a use case only those of UpdateAll, and  *)
(* UpdateAll has written the entities that are no longer to do.            *)
(***************************************************************************)
Wrote(c, i) == i \in IDs /\ tx[c].pend[i] = c

Sent(c) ==
  /\ tx[c].st \in {"none", "open"}
  /\ call[c].name \notin Reads \cup {"All", "SaveAll", "AllIter"}
  /\ touch[c] \subseteq call[c].ids
  /\ call[c].name \in Creates \cup {"Save"} => touch[c] = call[c].ids

\* The statement that is under way is for one entity at most.
UpdatedSoFar(c) ==
  /\ todo[c] \subseteq call[c].ids
  /\ tx[c].st = "open" =>
       IF at[c] = "sent"
       THEN \E j \in IDs : /\ touch[c] \subseteq {j}
                           /\ \A i \in (call[c].ids \ todo[c]) \ {j} : Wrote(c, i)
       ELSE \A i \in call[c].ids \ todo[c] : Wrote(c, i)

OwnWork(c) ==
  \A i \in IDs : \/ tx[c].pend[i] = Same
                 \/ tx[c].pend[i] = c /\ i \in call[c].ids /\ call[c].name = "UpdateAll"

Trace(c) ==
  /\ unit[c] = "open" => tx[c].st # "none"
  /\ tx[c].st # "open" => tx[c].pend = Nothing
  /\ at[c] = "sent" => Sent(c)
  /\ at[c] = "begin" => todo[c] = call[c].ids
  /\ at[c] = "commit" => call[c].name = "AllIter" \/ (call[c].name = "UpdateAll" /\ todo[c] = {})
  /\ at[c] \in {"ready", "sent", "commit"} /\ call[c].name = "UpdateAll" => UpdatedSoFar(c)
  /\ unit[c] # "open" /\ tx[c].st = "open" => OwnWork(c)

RInv == IInv /\ \A c \in Clients : Trace(c)

LEMMA InitTrace == Init => \A c \in Clients : Trace(c)
  BY DEF Init, Trace, NoTx

(* A step of c, and what it leaves of the others.                          *)
LEMMA TraceKeeps ==
  ASSUME RInv, NEW c \in Clients, IInv', Touches(c), Trace(c)'
  PROVE  RInv'
<1>1. ASSUME NEW d \in Clients \ {c} PROVE Trace(d)'
  <2>1. /\ unit'[d] = unit[d] /\ tx'[d] = tx[d] /\ call'[d] = call[d]
        /\ at'[d] = at[d] /\ todo'[d] = todo[d] /\ touch'[d] = touch[d]
    BY DEF RInv, IInv, Functions, Touches
  <2> QED
    BY <2>1 DEF RInv, Trace, Sent, UpdatedSoFar, OwnWork, Wrote
<1> QED
  BY <1>1 DEF RInv

(* A call that is over leaves only the transaction of its use case.        *)
LEMMA IdleTrace ==
  ASSUME RInv, NEW c \in Clients, Idle(c), UNCHANGED unit,
         tx'[c].st # "none" <=> unit[c] = "open",
         tx'[c].st # "open" => tx'[c].pend = Nothing
  PROVE  Trace(c)'
<1>1. at'[c] = "idle"
  BY DEF Idle, RInv, IInv, Functions
<1> QED
  BY <1>1 DEF Trace

(* A method that begins no transaction is in the one of its use case, if   *)
(* there is one.                                                           *)
LEMMA InUseCase ==
  ASSUME RInv, NEW c \in Clients, call[c] # None, call[c].name \notin {"UpdateAll", "AllIter"}
  PROVE  tx[c].st # "none" <=> unit[c] = "open"
  BY OwnTx DEF RInv, Trace

LEMMA FailedTrace ==
  ASSUME RInv, NEW c \in Clients, call[c] # None, call[c].name \notin {"UpdateAll", "AllIter"},
         Idle(c), UNCHANGED unit, tx' = Failed(c)
  PROVE  Trace(c)'
<1>1. /\ tx'[c].st = "none" <=> tx[c].st = "none"
      /\ tx'[c] = tx[c] \/ tx'[c] = [st |-> "failed", pend |-> Nothing]
  BY FailedDoes DEF RInv
<1>2. tx'[c].st # "open" => tx'[c].pend = Nothing
  BY <1>1 DEF RInv, Trace
<1> QED
  BY <1>1, <1>2, InUseCase, IdleTrace

LEMMA EndedTrace ==
  ASSUME RInv, NEW c \in Clients, Idle(c), UNCHANGED unit, tx' = Ended(c)
  PROVE  Trace(c)'
<1>1. tx'[c].st = (IF unit[c] = "open" THEN "ended" ELSE "none") /\ tx'[c].pend = Nothing
  BY EndedDoes DEF RInv
<1> QED
  BY <1>1, IdleTrace

LEMMA SameTrace ==
  ASSUME RInv, NEW c \in Clients, call[c] # None, call[c].name \notin {"UpdateAll", "AllIter"},
         Idle(c), UNCHANGED <<unit, tx>>
  PROVE  Trace(c)'
<1>1. tx[c].st # "open" => tx[c].pend = Nothing
  BY DEF RInv, Trace
<1> QED
  BY <1>1, InUseCase, IdleTrace

LEMMA CallTrace ==
  ASSUME RInv, NEW c \in Clients, NEW k \in Calls(Methods), Call(c, k)
  PROVE  Trace(c)'
<1>1. Client(c) /\ Functions /\ Trace(c) /\ call[c] = None /\ UNCHANGED <<unit, tx>>
  BY DEF RInv, IInv, Call
<1>2. tx[c].st # "none" => unit[c] = "open"
  BY <1>1 DEF Client
<1>3. CASE UNCHANGED position
  BY <1>1, <1>3 DEF Trace, position, Client
<1>4. CASE call' = [call EXCEPT ![c] = k] /\ GoTo(c, First(k)) /\ todo' = [todo EXCEPT ![c] = k.ids]
  <2>1. call'[c] = k /\ at'[c] = First(k) /\ todo'[c] = k.ids
    BY <1>1, <1>4 DEF Functions, GoTo
  <2>2. First(k) \in {"look", "begin", "ready"} /\ (First(k) = "ready" => k.name # "UpdateAll")
    BY DEF First
  <2> QED
    BY <1>1, <1>2, <2>1, <2>2 DEF Trace
<1> QED
  BY <1>3, <1>4 DEF Call

LEMMA LookTrace ==
  ASSUME RInv, NEW c \in Clients, (\E i \in IDs \cup {ZeroID} : LookUp(c, i)) \/ LookedUp(c)
  PROVE  Trace(c)'
<1>1. /\ Functions /\ Trace(c) /\ Client(c) /\ at[c] = "look" /\ UNCHANGED <<unit, tx>>
  BY DEF RInv, IInv, LookUp, LookedUp
<1>2. call[c] # None /\ call[c].name = "AddAll"
  BY <1>1 DEF Client
<1>3. CASE Idle(c)
  BY <1>1, <1>2, <1>3, SameTrace
<1>4. CASE UNCHANGED <<call, at>>
  BY <1>1, <1>2, <1>4, InUseCase DEF Trace
<1>5. CASE UNCHANGED call /\ GoTo(c, "ready")
  <2>1. at'[c] = "ready" /\ call'[c].name # "UpdateAll"
    BY <1>1, <1>2, <1>5 DEF Functions, GoTo
  <2> QED
    BY <1>1, <1>2, <2>1, InUseCase DEF Trace
<1> QED
  BY <1>3, <1>4, <1>5 DEF LookUp, LookedUp, Finish
LEMMA BeginOwnTrace ==
  ASSUME RInv, NEW c \in Clients, BeginOwn(c)
  PROVE  Trace(c)'
<1>1. /\ Functions /\ Trace(c) /\ Client(c) /\ at[c] = "begin" /\ UNCHANGED <<unit, call, todo, touch>>
  BY DEF RInv, IInv, BeginOwn
<1>2. /\ at'[c] = IF call[c].name = "AllIter" THEN "declare"
                  ELSE IF todo[c] = {} THEN "commit" ELSE "ready"
  BY <1>1 DEF BeginOwn, GoTo, Functions
<1>3. /\ tx'[c].st # "none" /\ tx'[c].pend = tx[c].pend
      /\ tx'[c] = tx[c] \/ (tx[c].st = "none" /\ tx'[c].st = "open")
  BY <1>1 DEF BeginOwn, TxOrConn, Functions, Client, Txs
<1>4. call[c].name \in {"UpdateAll", "AllIter"} /\ todo[c] = call[c].ids
  BY <1>1 DEF Client, Trace
<1>5. unit[c] # "open" /\ tx[c].st = "open" => OwnWork(c)
  BY <1>1 DEF Trace, Client
<1>6. unit'[c] # "open" /\ tx'[c].st = "open" => OwnWork(c)'
  BY <1>1, <1>3, <1>5 DEF OwnWork, Trace, Nothing
<1> QED
  BY <1>1, <1>2, <1>3, <1>4, <1>6 DEF Trace, UpdatedSoFar

LEMMA SendTrace ==
  ASSUME RInv, NEW c \in Clients, NEW ids \in SUBSET (IDs \cup {ZeroID}), Send(c, ids)
  PROVE  Trace(c)'
<1>1. /\ Functions /\ Trace(c) /\ Client(c) /\ at[c] = "ready" /\ call[c].name # "AllIter"
      /\ UNCHANGED <<unit, tx, call>>
  BY DEF RInv, IInv, Send, Client
<1>2. at'[c] = "sent" /\ todo'[c] = todo[c] \ ids /\ touch'[c] = Reached(c, ids)
  BY <1>1 DEF Send, GoTo, Functions
<1>3. /\ Reached(c, ids) \subseteq ids
      /\ call[c].name \in Creates \cup {"Save"} => Reached(c, ids) = ids
  BY DEF Reached
<1>4. CASE call[c].name = "UpdateAll"
  <2>1. PICK i \in todo[c] \cap IDs : ids = {i}
    BY <1>4 DEF Send
  <2>2. UpdatedSoFar(c)
    BY <1>1, <1>4 DEF Trace
  <2>3. Sent(c)'
    BY <1>1, <1>2, <1>3, <1>4, <2>1, <2>2 DEF Send, Sent, UpdatedSoFar, Creates, Reads
  <2>4. UpdatedSoFar(c)'
    BY <1>1, <1>2, <1>3, <2>1, <2>2 DEF UpdatedSoFar, Wrote
  <2> QED
    BY <1>1, <1>2, <2>3, <2>4 DEF Trace, OwnWork
<1>5. CASE call[c].name # "UpdateAll"
  <2>1. Sent(c)'
    BY <1>1, <1>2, <1>3, <1>5 DEF Send, Sent
  <2> QED
    BY <1>1, <1>2, <1>5, <2>1 DEF Trace, OwnWork
<1> QED
  BY <1>4, <1>5

(* What a statement makes of the entities that its transaction has seen.   *)
LEMMA HitsDo ==
  ASSUME RInv, NEW c \in Clients, at[c] = "sent"
  PROVE  /\ Hits(c) \subseteq touch[c] /\ touch[c] \subseteq IDs /\ touch[c] \subseteq call[c].ids
         /\ DOMAIN Change(c) = IDs
         /\ \A i \in IDs : Change(c)[i] = IF i \notin Hits(c) THEN Same
                                          ELSE IF call[c].name \in Deletes THEN Absent ELSE c
         /\ c # Same /\ c # Absent /\ Absent # Same
  BY ValueAssumption DEF RInv, IInv, Client, Trace, Sent, Hits, Change

LEMMA ExecuteTrace ==
  ASSUME RInv, NEW c \in Clients, Execute(c)
  PROVE  Trace(c)'
<1>1. /\ Functions /\ Trace(c) /\ Client(c) /\ at[c] = "sent" /\ call[c] # None
      /\ Sent(c) /\ UNCHANGED unit
  BY DEF RInv, IInv, Execute, Client, Trace
<1>2. tx'[c].st = tx[c].st
  BY ExecutedDoes DEF RInv, Execute
<1>3. CASE call[c].name = "UpdateAll"
  <2>1. tx[c].st = "open" /\ TxOrConn(c) /\ UNCHANGED <<call, todo, touch>>
    BY <1>1, <1>3 DEF Sent, Client, TxOrConn, Execute
  <2>2. at'[c] = IF todo[c] = {} THEN "commit" ELSE "ready"
    BY <1>1, <1>3 DEF Execute, GoTo, Functions
  <2>3. tx'[c].pend = Overlay(tx[c].pend, Change(c))
    BY <1>1, <2>1 DEF Execute, Executed, Functions, Client, Txs
  <2>4. PICK j \in IDs : /\ touch[c] \subseteq {j}
                         /\ \A i \in (call[c].ids \ todo[c]) \ {j} : Wrote(c, i)
    BY <1>1, <1>3, <2>1 DEF Trace, UpdatedSoFar
  <2>5. Hits(c) = {j}
    BY <1>3, <2>4, HitsDo, <1>1 DEF Execute
  <2>6. \A i \in IDs : tx'[c].pend[i] = IF i = j THEN c ELSE tx[c].pend[i]
    BY <1>1, <1>3, <2>3, <2>5, HitsDo DEF Overlay, Deletes
  <2>7. UpdatedSoFar(c)'
    BY <1>1, <1>2, <1>3, <2>1, <2>2, <2>4, <2>6 DEF Trace, UpdatedSoFar, Wrote
  <2>8. unit[c] # "open" => OwnWork(c)'
    BY <1>1, <1>3, <2>1, <2>5, <2>6, HitsDo DEF Trace, OwnWork
  <2> QED
    BY <1>1, <1>2, <1>3, <2>1, <2>2, <2>7, <2>8 DEF Trace
<1>4. CASE call[c].name # "UpdateAll"
  <2>1. Idle(c) /\ tx[c].st \in {"none", "open"} /\ call[c].name # "AllIter"
    BY <1>1, <1>4 DEF Execute, Finish, Sent
  <2>2. tx[c].st = "none" => tx'[c].pend = Nothing
    BY <1>1 DEF Execute, Executed, TxOrConn, Trace
  <2> QED
    BY <1>1, <1>2, <1>4, <2>1, <2>2, InUseCase, IdleTrace
<1> QED
  BY <1>3, <1>4

LEMMA RefusedTrace ==
  ASSUME RInv, NEW c \in Clients, AlreadyExists(c) \/ NotFound(c) \/ StatementFails(c)
  PROVE  Trace(c)'
<1>1. /\ Client(c) /\ at[c] \in {"look", "ready", "sent"} /\ Idle(c) /\ UNCHANGED unit
  BY DEF RInv, IInv, AlreadyExists, NotFound, StatementFails, Finish
<1>2. call[c] # None /\ call[c].name # "AllIter"
  BY <1>1 DEF Client
<1>3. CASE AlreadyExists(c)
  BY <1>1, <1>2, <1>3, FailedTrace DEF AlreadyExists, Violates, Creates
<1>4. CASE NotFound(c)
  BY <1>1, <1>2, <1>4, EndedTrace, SameTrace DEF NotFound
<1>5. CASE StatementFails(c)
  <2>1. CASE tx' = Ended(c)
    BY <1>1, <2>1, EndedTrace
  <2>2. CASE call[c].name # "UpdateAll" /\ tx' = Failed(c)
    BY <1>1, <1>2, <2>2, FailedTrace
  <2>3. CASE tx[c].st = "ended" /\ tx' = Failed(c)
    <3>1. tx'[c] = tx[c] /\ unit[c] = "open" /\ tx[c].pend = Nothing
      BY <1>1, <2>3 DEF Failed, RInv, IInv, Functions, Client, Trace
    <3> QED
      BY <1>1, <2>3, <3>1, IdleTrace
  <2> QED
    BY <1>5, <2>1, <2>2, <2>3 DEF StatementFails
<1> QED
  BY <1>3, <1>4, <1>5

LEMMA ReadTrace ==
  ASSUME RInv, NEW c \in Clients, Read(c) \/ All(c)
  PROVE  Trace(c)'
<1>1. /\ at[c] = "ready" /\ call[c].name \notin {"UpdateAll", "AllIter"} /\ Idle(c)
      /\ UNCHANGED <<unit, tx>>
  BY DEF Read, All, Reads
<1>2. call[c] # None
  BY <1>1 DEF RInv, IInv, Client
<1> QED
  BY <1>1, <1>2, SameTrace

LEMMA LeaveTrace ==
  ASSUME RInv, NEW c \in Clients, DeclareFails(c) \/ Break(c) \/ ContextDone(c)
  PROVE  Trace(c)'
<1>1. /\ Functions /\ Client(c) /\ Trace(c) /\ UNCHANGED unit /\ Idle(c)
      /\ Leave(c, tx) \/ Leave(c, Failed(c))
  BY DEF RInv, IInv, DeclareFails, Break, ContextDone, Finish
<1>2. CASE unit[c] = "open"
  <2>1. tx' = tx \/ tx' = Failed(c)
    BY <1>1, <1>2 DEF Leave
  <2>2. /\ tx'[c].st = "none" <=> tx[c].st = "none"
        /\ tx'[c] = tx[c] \/ tx'[c] = [st |-> "failed", pend |-> Nothing]
    BY <2>1, FailedDoes DEF RInv
  <2>3. tx[c].st # "none" /\ (tx[c].st # "open" => tx[c].pend = Nothing)
    BY <1>1, <1>2 DEF Trace
  <2> QED
    BY <1>1, <1>2, <2>2, <2>3, IdleTrace
<1>3. CASE unit[c] # "open"
  <2>1. tx'[c] = NoTx
    BY <1>1, <1>3 DEF Leave, Functions
  <2> QED
    BY <1>1, <1>3, <2>1, IdleTrace DEF NoTx
<1> QED
  BY <1>2, <1>3

LEMMA PanicsTrace ==
  ASSUME RInv, NEW c \in Clients, Panics(c)
  PROVE  Trace(c)'
<1>1. unit'[c] = "none" /\ tx'[c] = NoTx /\ at'[c] = "idle"
  BY PanicsDoes DEF RInv
<1> QED
  BY <1>1 DEF Trace, NoTx

LEMMA IterTrace ==
  ASSUME RInv, NEW c \in Clients,
         \/ BeginOwnFails(c) \/ Declare(c) \/ IterFails(c)
         \/ IterEnds(c) \/ CommitOwn(c) \/ CommitOwnFails(c)
  PROVE  Trace(c)'
<1>1. Functions /\ Client(c) /\ Trace(c)
  BY DEF RInv, IInv
<1>2. CASE BeginOwnFails(c)
  <2>1. Idle(c) /\ UNCHANGED <<unit, tx>> /\ tx[c].st = "none"
    BY <1>2 DEF BeginOwnFails, TxOrConn, Finish
  <2> QED
    BY <1>1, <2>1, IdleTrace DEF Trace
<1>3. CASE Declare(c) \/ IterEnds(c)
  <2>1. /\ at'[c] \in {"iterate", "commit"} /\ call[c].name = "AllIter"
        /\ UNCHANGED <<unit, tx, call>>
    BY <1>1, <1>3 DEF Declare, IterEnds, GoTo, Functions, Client
  <2>2. unit[c] # "open" /\ tx[c].st = "open" => OwnWork(c)'
    BY <1>1, <2>1 DEF Trace, OwnWork
  <2> QED
    BY <1>1, <2>1, <2>2 DEF Trace
<1>4. CASE tx' = Ended(c) /\ Idle(c) /\ UNCHANGED unit
  BY <1>4, EndedTrace
<1>5. CASE Panics(c)
  BY <1>5, PanicsTrace
<1> QED
  BY <1>2, <1>3, <1>4, <1>5 DEF IterFails, CommitOwn, CommitOwnFails, Finish

(* The decorator begins and ends the transaction between the calls.        *)
LEMMA UnitTrace ==
  ASSUME RInv, NEW c \in Clients,
         \/ UseCase(c) \/ Begin(c) \/ BeginFails(c)
         \/ Commit(c) \/ CommitFails(c) \/ Rollback(c)
  PROVE  Trace(c)'
<1>1. Functions /\ Client(c) /\ Trace(c)
  BY DEF RInv, IInv
<1>2. at'[c] = "idle"
  BY <1>1 DEF UseCase, Begin, BeginFails, Commit, CommitFails, Rollback, UnitEnds,
     position, Functions, Client
<1>3. CASE UseCase(c)
  <2>1. unit'[c] = "begin" /\ tx' = tx /\ tx[c].st = "none" /\ tx[c].pend = Nothing
    BY <1>1, <1>3 DEF UseCase, Functions, Client, Trace
  <2> QED
    BY <1>2, <2>1 DEF Trace
<1>4. CASE Begin(c)
  <2>1. unit'[c] = "open" /\ tx'[c].st = "open"
    BY <1>1, <1>4, OpenTx DEF Begin, Functions, RInv
  <2> QED
    BY <1>2, <2>1 DEF Trace
<1>5. CASE BeginFails(c) \/ Commit(c) \/ CommitFails(c) \/ Rollback(c)
  <2>1. unit'[c] = "none" /\ tx'[c] = NoTx
    BY <1>1, <1>5 DEF BeginFails, Commit, CommitFails, Rollback, UnitEnds, Functions
  <2> QED
    BY <1>2, <2>1 DEF Trace, NoTx
<1> QED
  BY <1>3, <1>4, <1>5

LEMMA NextTrace == RInv /\ [Next]_vars => RInv'
<1> SUFFICES ASSUME RInv, [Next]_vars PROVE RInv'
  OBVIOUS
<1>1. ASSUME NEW c \in Clients, Touches(c), Trace(c)' PROVE RInv'
  BY <1>1, NextKeeps, TraceKeeps DEF RInv
<1>2. CASE Next
  <2>1. PICK c \in Clients : Step(c) /\ Touches(c)
    BY <1>2, NextStep DEF RInv
  <2>2. Trace(c)'
    BY <2>1, CallTrace, LookTrace, BeginOwnTrace, SendTrace, ExecuteTrace, RefusedTrace, ReadTrace,
       LeaveTrace, IterTrace, UnitTrace, PanicsTrace DEF Step, Panic
  <2> QED
    BY <1>1, <2>1, <2>2
<1>3. CASE UNCHANGED vars
  BY <1>3, NextKeeps DEF vars, position, RInv, Trace, Sent, UpdatedSoFar, OwnWork, Wrote
<1> QED
  BY <1>2, <1>3
(***************************************************************************)
(* The mapped state.                                                       *)
(***************************************************************************)
LEMMA WorkDoes ==
  ASSUME RInv, NEW c \in Clients, Touches(c)
  PROVE  /\ Work' = [Work EXCEPT ![c] = WorkOf(c)']
         /\ \A d \in Clients \ {c} : Work'[d] = Work[d]
         /\ Work[c] = WorkOf(c) /\ Work'[c] = WorkOf(c)'
         /\ WorkOf(c)' = WorkOf(c) => Work' = Work
<1>1. ASSUME NEW d \in Clients \ {c} PROVE WorkOf(d)' = WorkOf(d)
  BY DEF RInv, IInv, Functions, Touches, WorkOf
<1> QED
  BY <1>1 DEF Work

(* What the use case of a client has done is told from None and Doomed.    *)
LEMMA WorkIs ==
  ASSUME RInv, NEW c \in Clients
  PROVE  /\ unit[c] # "open" <=> WorkOf(c) = None
         /\ unit[c] = "open" /\ tx[c].st = "open" <=> WorkOf(c) \notin {None, Doomed}
         /\ unit[c] = "open" /\ tx[c].st # "open" <=> WorkOf(c) = Doomed
         /\ Units!Open(c) <=> unit[c] = "open" /\ tx[c].st = "open"
<1>1. tx[c].pend \in [IDs -> Clients \cup {Absent, Same}]
  BY DEF RInv, IInv, Client, Txs
<1>2. tx[c].pend \notin {None, Doomed}
  BY <1>1, ValueAssumption
<1> QED
  BY <1>2, ValueAssumption DEF WorkOf, Work, Units!Open

(* A call outside of a use case sees the rows, one in it the work as well. *)
LEMMA Seen ==
  ASSUME RInv, NEW c \in Clients
  PROVE  /\ View(c) = Units!Overlay(rows, tx[c].pend)
         /\ tx[c].st # "open" => View(c) = rows
<1>1. View(c) = Units!Overlay(rows, tx[c].pend)
  BY DEF View, Overlay, Units!Overlay
<1>2. ASSUME tx[c].st # "open" PROVE View(c) = rows
  BY <1>2 DEF View, Overlay, Nothing, RInv, IInv, Shared, Trace
<1> QED
  BY <1>1, <1>2

LEMMA ReturnDoes ==
  ASSUME NEW c \in Clients, NEW k, k.name \in Methods \cup {"unit"},
         k.ids \in (SUBSET (IDs \cup {ZeroID})) \cup Queries, k.len \in Nat,
         NEW res \in {"ok", "refused", "failed"},
         NEW val \in [IDs -> Clients \cup {Absent}] \cup {None}, Return(c, k, res, val)
  PROVE  /\ Units!Returned(c, k.name, res)
         /\ last' # None /\ last'.by = c /\ last'.name = k.name /\ last'.res = res
         /\ last'.arg = k.ids /\ last'.len = k.len /\ last'.val = val
<1>1. last' \in Answers
  BY DEF Return, Answers
<1> QED
  BY <1>1, NoCallAssumption DEF Return, Units!Returned

LEMMA CallIs ==
  ASSUME IInv, NEW c \in Clients, call[c] # None
  PROVE  /\ call[c].name \in Methods \ {"unit"} /\ call[c].len \in Nat
         /\ call[c].ids \subseteq IDs \cup {ZeroID}
<1>1. call[c] \in Calls(Methods)
  BY DEF IInv, Client
<1> QED
  BY <1>1, CallType DEF Methods, ForOne, ForMany, ForAll

LEMMA FinishDoes ==
  ASSUME RInv, NEW c \in Clients, call[c] # None, NEW res \in {"ok", "refused", "failed"},
         Finish(c, res)
  PROVE  /\ Units!Returned(c, call[c].name, res) /\ call[c].name # "unit"
         /\ last' # None /\ last'.name = call[c].name /\ last'.res = res /\ last'.arg = call[c].ids
<1>1. PICK k, val : k = call[c] /\ val = None
  OBVIOUS
<1>2. k.name \in Methods \ {"unit"} /\ k.ids \subseteq IDs \cup {ZeroID} /\ k.len \in Nat
  BY <1>1, CallIs DEF RInv
<1>3. /\ k.name \in Methods \cup {"unit"} /\ k.ids \in (SUBSET (IDs \cup {ZeroID})) \cup Queries
      /\ val \in [IDs -> Clients \cup {Absent}] \cup {None}
  BY <1>1, <1>2
<1>4. Return(c, k, res, val)
  BY <1>1 DEF Finish
<1>5. /\ Units!Returned(c, k.name, res)
      /\ last' # None /\ last'.name = k.name /\ last'.res = res /\ last'.arg = k.ids
  BY <1>2, <1>3, <1>4, ReturnDoes
<1> QED
  BY <1>1, <1>2, <1>5

(***************************************************************************)
(* Each step is a step of UnitsOfWork. First the ones that nobody sees and *)
(* the calls that fail, with the transaction of their use case or not.     *)
(***************************************************************************)
LEMMA QuietStep ==
  ASSUME RInv, NEW c \in Clients, Touches(c), last' = None, UNCHANGED rows,
         WorkOf(c)' = WorkOf(c)
  PROVE  Units!Next
  BY WorkDoes DEF Units!Next, Units!Busy

LEMMA FailStep ==
  ASSUME RInv, NEW c \in Clients, Touches(c), call[c] # None, UNCHANGED <<rows, unit>>,
         NEW res \in {"refused", "failed"}, Finish(c, res),
         \/ UNCHANGED tx
         \/ tx' = Failed(c)
         \/ tx' = Ended(c)
  PROVE  Units!Next
<1>1. /\ Units!Returned(c, call[c].name, res) /\ call[c].name # "unit" /\ last'.name = call[c].name
  BY FinishDoes
<1>2. \/ tx'[c] = tx[c]
      \/ tx'[c].st # "open"
  BY FailedDoes, EndedDoes DEF RInv
<1>3. WorkOf(c)' \in {WorkOf(c), IF WorkOf(c) = None THEN None ELSE Doomed}
  BY <1>2, WorkIs DEF WorkOf
<1>4. Units!CallFails(c)
  BY <1>1, <1>3, WorkDoes DEF Units!CallFails, Units!Only
<1> QED
  BY <1>4 DEF Units!Next

LEMMA CallStep ==
  ASSUME RInv, NEW c \in Clients, Touches(c), NEW k \in Calls(Methods), Call(c, k)
  PROVE  Units!Next
<1>1. UNCHANGED <<rows, unit, tx>> /\ WorkOf(c)' = WorkOf(c)
  BY DEF Call, WorkOf
<1>2. CASE last' = None
  BY <1>1, <1>2, QuietStep
<1>3. CASE /\ MissingID(k) /\ k.name \in {"Create", "Update", "Save", "Delete"}
           /\ Return(c, k, IF k.name = "Delete" THEN "ok" ELSE "failed", None)
  <2>1. k.name \in Methods /\ k.len \in Nat /\ k.ids \subseteq IDs \cup {ZeroID}
    BY CallType
  <2>2. PICK res \in {"ok", "failed"} :
          /\ res = IF k.name = "Delete" THEN "ok" ELSE "failed"
          /\ Return(c, k, res, None)
    BY <1>3
  <2>3. Units!Returned(c, k.name, res) /\ last'.name = k.name /\ last'.arg = k.ids
    BY <2>1, <2>2, ReturnDoes
  <2>4. CASE k.name = "Delete"
    <3>1. k.ids \cap IDs = {}
      BY <1>3, <2>4, IDAssumption, CallType DEF MissingID, ForOne
    <3>2. Units!DeleteNothing(c)
      BY <1>1, <2>2, <2>3, <2>4, <3>1, WorkDoes DEF Units!DeleteNothing
    <3> QED
      BY <3>2 DEF Units!Next
  <2>5. CASE k.name # "Delete"
    <3>1. Units!CallFails(c)
      BY <1>1, <1>3, <2>2, <2>3, <2>5, WorkDoes DEF Units!CallFails, Units!Only
    <3> QED
      BY <3>1 DEF Units!Next
  <2> QED
    BY <2>4, <2>5
<1> QED
  BY <1>2, <1>3 DEF Call

LEMMA LookStep ==
  ASSUME RInv, NEW c \in Clients, Touches(c),
         (\E i \in IDs \cup {ZeroID} : LookUp(c, i)) \/ LookedUp(c)
  PROVE  Units!Next
<1>1. UNCHANGED <<rows, unit, tx>> /\ call[c] # None /\ WorkOf(c)' = WorkOf(c)
  BY DEF LookUp, LookedUp, WorkOf, RInv, IInv, Client
<1>2. CASE last' = None
  BY <1>1, <1>2, QuietStep
<1>3. CASE \E res \in {"refused", "failed"} : Finish(c, res)
  BY <1>1, <1>3, FailStep
<1> QED
  BY <1>2, <1>3 DEF LookUp, LookedUp

LEMMA BeginOwnStep ==
  ASSUME RInv, NEW c \in Clients, Touches(c),
         \/ BeginOwn(c) \/ Declare(c) \/ IterEnds(c)
         \/ (\E ids \in SUBSET (IDs \cup {ZeroID}) : Send(c, ids)) \/ UseCase(c)
  PROVE  Units!Next
<1>1. last' = None /\ UNCHANGED rows
  BY DEF BeginOwn, Declare, IterEnds, Send, UseCase
<1>2. Functions /\ Client(c) /\ Trace(c)
  BY DEF RInv, IInv
<1>3. WorkOf(c)' = WorkOf(c)
  <2>1. CASE BeginOwn(c)
    BY <1>2, <2>1 DEF BeginOwn, TxOrConn, WorkOf, Trace
  <2>2. CASE \E ids \in SUBSET (IDs \cup {ZeroID}) : Send(c, ids)
    BY <2>2 DEF Send, WorkOf
  <2>3. CASE UseCase(c)
    BY <1>2, <2>3 DEF UseCase, WorkOf, Functions
  <2>4. CASE Declare(c) \/ IterEnds(c)
    BY <2>4 DEF Declare, IterEnds, WorkOf
  <2> QED
    BY <2>1, <2>2, <2>3, <2>4
<1> QED
  BY <1>1, <1>3, QuietStep

LEMMA RefusedStep ==
  ASSUME RInv, NEW c \in Clients, Touches(c), AlreadyExists(c) \/ NotFound(c) \/ StatementFails(c)
  PROVE  Units!Next
<1>1. UNCHANGED <<rows, unit>> /\ call[c] # None
  BY DEF AlreadyExists, NotFound, StatementFails, RInv, IInv, Client
<1>2. \E res \in {"refused", "failed"} : Finish(c, res)
  BY DEF AlreadyExists, NotFound, StatementFails
<1>3. tx' = tx \/ tx' = Failed(c) \/ tx' = Ended(c)
  BY DEF AlreadyExists, NotFound, StatementFails
<1> QED
  BY <1>1, <1>2, <1>3, FailStep
(* A statement that succeeds: inside of a use case or outside.             *)
LEMMA ExecutedChange ==
  ASSUME RInv, NEW c \in Clients, Execute(c), call[c].name # "UpdateAll",
         NEW base \in [IDs -> Clients \cup {Absent}], NEW changed, base = View(c),
         \A i \in IDs : changed[i] = IF Change(c)[i] = Same THEN base[i] ELSE Change(c)[i]
  PROVE  /\ Units!Writes(c, call[c].name, call[c].ids, base, changed)
         /\ Units!Done(c, call[c].name, call[c].ids, base, changed)
<1>1. /\ at[c] = "sent" /\ Sent(c) /\ call[c].name \notin {"UpdateAll", "AllIter"} /\ ~Violates(c)
      /\ call[c] \in Calls(Methods)
  BY DEF RInv, IInv, Execute, Trace, Client, Sent
<1>2. Units!Writes(c, call[c].name, call[c].ids, base, changed)
  BY <1>1, HitsDo DEF Units!Writes, Units!Value, Deletes
<1>3. CASE call[c].name \in Creates \cup {"Save"}
  <2>1. touch[c] = call[c].ids /\ Hits(c) = call[c].ids /\ call[c].name \notin Deletes
    BY <1>1, <1>3 DEF Sent, Hits, Creates, Deletes
  <2>2. \A i \in call[c].ids : i \in IDs /\ changed[i] = c
    BY <1>1, <2>1, HitsDo
  <2>3. call[c].name \in Creates => \A i \in call[c].ids : base[i] = Absent
    BY <1>1, <2>1 DEF Violates
  <2> QED
    BY <1>2, <1>3, <2>2, <2>3 DEF Units!Done, Creates
<1>4. CASE call[c].name = "Update"
  <2>1. PICK j \in IDs \cup {ZeroID} : call[c].ids = {j}
    BY <1>1, <1>4, CallType DEF ForOne
  <2>2. Hits(c) = {j} /\ j \in IDs
    BY <1>1, <1>4, <2>1, HitsDo DEF Execute
  <2>3. base[j] # Absent /\ changed[j] = c
    BY <1>1, <1>4, <2>2, HitsDo DEF Hits, Creates, Deletes
  <2> QED
    BY <1>2, <1>4, <2>1, <2>3 DEF Units!Done
<1>5. CASE call[c].name \notin Creates \cup {"Save", "Update"}
  BY <1>1, <1>2, <1>5 DEF Units!Done, Creates
<1> QED
  BY <1>3, <1>4, <1>5

LEMMA ExecuteStep ==
  ASSUME RInv, NEW c \in Clients, Touches(c), Execute(c)
  PROVE  Units!Next
<1>1. /\ Functions /\ Client(c) /\ Trace(c) /\ Sent(c) /\ at[c] = "sent" /\ call[c] # None
      /\ UNCHANGED unit
  BY DEF RInv, IInv, Execute, Trace, Client
<1>2. tx'[c].st = tx[c].st
  BY ExecutedDoes DEF RInv, Execute
<1>3. CASE unit[c] = "open"
  <2>1. tx[c].st = "open" /\ TxOrConn(c) /\ UNCHANGED rows
    BY <1>1, <1>3 DEF Trace, Sent, TxOrConn, Execute, Executed
  <2>2. tx'[c].pend = Overlay(tx[c].pend, Change(c))
    BY <1>1, <2>1 DEF Execute, Executed, Functions, Client, Txs
  <2> DEFINE seen == Units!Overlay(rows, WorkOf(c))
             sees == Units!Overlay(rows, WorkOf(c)')
  <2>3. WorkOf(c) = tx[c].pend /\ WorkOf(c)' = tx'[c].pend
    BY <1>1, <1>2, <1>3, <2>1 DEF WorkOf
  <2>4. tx'[c].pend \in [IDs -> Clients \cup {Absent, Same}]
    BY <2>2, ChangeType DEF RInv
  <2>5. Units!Open(c) /\ Units!Open(c)'
    BY <1>3, <2>1, <2>3, <2>4, WorkIs, WorkDoes, ValueAssumption DEF Units!Open
  <2>6. seen = View(c) /\ seen \in [IDs -> Clients \cup {Absent}]
    BY <2>3, Seen, ViewType DEF RInv
  <2>7. \A i \in IDs : sees[i] = IF Change(c)[i] = Same THEN seen[i] ELSE Change(c)[i]
    BY <2>2, <2>3 DEF Overlay, Units!Overlay
  <2> HIDE DEF seen, sees
  <2>8. CASE call[c].name = "UpdateAll"
    <3>1. Units!Writes(c, "UpdateAll", IDs, seen, sees)
      BY <1>1, <2>7, <2>8, HitsDo DEF Units!Writes, Units!Value, Deletes
    <3>2. last' = None
      BY <2>8 DEF Execute
    <3>3. Units!Progress(c)
      BY <2>1, <2>5, <3>1, <3>2, WorkDoes DEF Units!Progress, Units!Only, seen, sees
    <3> QED
      BY <3>3 DEF Units!Next
  <2>9. CASE call[c].name # "UpdateAll"
    <3>1. Finish(c, "ok")
      BY <2>9 DEF Execute
    <3>2. /\ Units!Writes(c, call[c].name, call[c].ids, seen, sees)
          /\ Units!Done(c, call[c].name, call[c].ids, seen, sees)
      BY <2>6, <2>7, <2>9, ExecutedChange
    <3>3. Units!CallInside(c)
      BY <1>1, <2>1, <2>5, <3>1, <3>2, FinishDoes, WorkDoes
         DEF Units!CallInside, Units!Only, seen, sees
    <3> QED
      BY <3>3 DEF Units!Next
  <2> QED
    BY <2>8, <2>9
<1>4. CASE unit[c] # "open"
  <2>1. WorkOf(c) = None /\ WorkOf(c)' = None
    BY <1>1, <1>4 DEF WorkOf
  <2>2. CASE call[c].name = "UpdateAll"
    <3>1. last' = None /\ UNCHANGED rows
      BY <1>1, <2>2 DEF Execute, Executed, TxOrConn, Client
    <3> QED
      BY <2>1, <3>1, QuietStep
  <2>3. CASE call[c].name # "UpdateAll"
    <3>1. tx[c].st = "none" /\ Finish(c, "ok") /\ rows' = Overlay(rows, Change(c))
      BY <1>1, <1>4, <2>3, InUseCase DEF Execute, Executed, TxOrConn, Sent
    <3>2. View(c) = rows /\ rows \in [IDs -> Clients \cup {Absent}]
      BY <3>1, Seen DEF RInv, IInv, Shared
    <3>3. \A i \in IDs : rows'[i] = IF Change(c)[i] = Same THEN rows[i] ELSE Change(c)[i]
      BY <3>1 DEF Overlay
    <3>4. /\ Units!Writes(c, call[c].name, call[c].ids, rows, rows')
          /\ Units!Done(c, call[c].name, call[c].ids, rows, rows')
      BY <2>3, <3>2, <3>3, ExecutedChange
    <3>5. Units!CallOutside(c)
      BY <1>1, <2>1, <3>1, <3>4, FinishDoes, WorkDoes DEF Units!CallOutside
    <3> QED
      BY <3>5 DEF Units!Next
  <2> QED
    BY <2>2, <2>3
<1> QED
  BY <1>3, <1>4

(* What reads.                                                             *)
LEMMA ReadStep ==
  ASSUME RInv, NEW c \in Clients, Touches(c), Read(c)
  PROVE  Units!Next
<1>1. /\ Functions /\ Client(c) /\ Trace(c) /\ at[c] = "ready" /\ call[c] # None
      /\ call[c].name \in Reads /\ call[c] \in Calls(Methods) /\ call[c].ids \subseteq IDs \cup {ZeroID}
      /\ UNCHANGED <<rows, unit, tx>>
  BY CallIs DEF RInv, IInv, Read, Client
<1>2. tx[c].st # "none" <=> unit[c] = "open"
  BY <1>1, InUseCase DEF Reads
<1>3. Work' = Work
  BY <1>1, WorkDoes DEF WorkOf
<1> DEFINE sees == IF Units!Open(c) THEN Units!Overlay(rows, Work[c]) ELSE rows
<1>4. View(c) = sees
  BY <1>2, Seen, WorkIs, WorkDoes DEF WorkOf, RInv, IInv, Client, Txs
<1>5. View(c) \in [IDs -> Clients \cup {Absent}]
  BY ViewType DEF RInv
<1> HIDE DEF sees
<1>6. ASSUME NEW ids \in SUBSET {i \in IDs : sees[i] # Absent}, NEW k, k.name = call[c].name,
             k.ids \in (SUBSET (IDs \cup {ZeroID})) \cup Queries, k.len \in Nat,
             NEW res \in {"ok", "refused"}, Return(c, k, res, Only(c, ids))
      PROVE  /\ Units!Returned(c, call[c].name, res)
             /\ last'.name = call[c].name /\ last'.res = res /\ last'.arg = k.ids /\ last'.len = k.len
             /\ {i \in IDs : last'.val[i] # Absent} = ids
             /\ \A i \in ids : last'.val[i] = sees[i]
  <2>1. Only(c, ids) \in [IDs -> Clients \cup {Absent}]
    BY <1>5 DEF Only
  <2>2. Units!Returned(c, call[c].name, res) /\ last'.val = Only(c, ids)
        /\ last'.name = call[c].name /\ last'.res = res /\ last'.arg = k.ids /\ last'.len = k.len
    <3>1. k.name \in Methods \cup {"unit"} /\ res \in {"ok", "refused", "failed"}
      BY <1>1, <1>6, CallIs DEF RInv
    <3>2. Only(c, ids) \in [IDs -> Clients \cup {Absent}] \cup {None}
      BY <2>1
    <3>3. Return(c, k, res, Only(c, ids))
      BY <1>6
    <3> QED
      BY <1>6, <3>1, <3>2, <3>3, ReturnDoes
  <2> QED
    BY <1>4, <2>2 DEF Only
<1>7. CASE call[c].name \in {"AllBy", "FindBy"}
  <2>1. PICK q \in Queries :
          Answer(c, [call[c] EXCEPT !.ids = q], Found(c, {i \in IDs : Matches(q, View(c)[i])}))
    BY <1>7 DEF Read
  <2> DEFINE ids == Found(c, {i \in IDs : Matches(q, View(c)[i])})
             k == [call[c] EXCEPT !.ids = q]
  <2>2. ids \in SUBSET {i \in IDs : sees[i] # Absent}
    BY <1>4 DEF Found
  <2>3. k.name = call[c].name /\ k.len = call[c].len /\ k.ids = q
    BY <1>1 DEF Calls
  <2>4. q.is # {} => ids = {i \in IDs : /\ sees[i] # Absent
                                        /\ \A v \in q.is : sees[i] = v
                                        /\ \A g \in q.groups : sees[i] \in g}
    BY <1>4 DEF Found, Matches
  <2>5. IsFiniteSet(ids)
    BY <2>2, IDAssumption, FS_Subset
  <2>6. Answer(c, k, ids)
    BY <2>1
  <2> HIDE DEF ids, k
  <2>7. PICK res \in {"ok", "refused"} :
          /\ Return(c, k, res, Only(c, ids))
          /\ call[c].name = "FindBy" /\ res = "ok" => Cardinality(ids) = 1
    BY <1>7, <2>3, <2>6 DEF Answer
  <2>8. /\ Units!Returned(c, call[c].name, res)
        /\ last'.name = call[c].name /\ last'.res = res /\ last'.arg = q
        /\ {i \in IDs : last'.val[i] # Absent} = ids
        /\ \A i \in ids : last'.val[i] = sees[i]
    <3>1. k.ids \in (SUBSET (IDs \cup {ZeroID})) \cup Queries /\ k.len \in Nat
      BY <1>1, <2>3, CallIs DEF RInv
    <3> QED
      BY <1>6, <2>2, <2>3, <2>7, <3>1
  <2>9. call[c].name = "FindBy" /\ res = "ok" => \E i \in IDs : ids = {i}
    BY <2>2, <2>5, <2>7, FS_Singleton
  <2>10. Work[c] # Doomed
    <3>1. call[c].ids # {}
      BY <1>1, <1>7, IDAssumption, CallType DEF ForAll
    <3> QED
      BY <1>1, <1>2, <3>1, WorkIs, WorkDoes DEF Read
  <2>11. Units!Read(c)
    BY <1>1, <1>3, <1>7, <2>4, <2>8, <2>9, <2>10 DEF Units!Read, sees
  <2> QED
    BY <2>11 DEF Units!Next
<1>8. CASE call[c].name \in {"FindByID", "AllByIDs", "ContainsIDs"}
  <2> DEFINE k == call[c]
             arg == k.ids
             ids == Found(c, arg)
             n == Cardinality(arg)
  <2>1. Answer(c, k, ids)
    BY <1>8 DEF Read
  <2>2. ids \in SUBSET {i \in IDs : sees[i] # Absent} /\ ids \subseteq arg
        /\ (ids = arg <=> \A i \in arg : i \in IDs /\ sees[i] # Absent)
    BY <1>4 DEF Found
  <2>3. IsFiniteSet(arg)
    <3>1. IsFiniteSet(IDs \cup {ZeroID})
      BY IDAssumption, FS_AddElement
    <3>2. arg \subseteq IDs \cup {ZeroID}
      BY <1>1
    <3> QED
      BY <3>1, <3>2, FS_Subset
  <2>4. /\ Cardinality(ids) <= n /\ (Cardinality(ids) = n => ids = arg)
        /\ Cardinality(ids) \in Nat /\ n \in Nat
    BY <2>2, <2>3, FS_Subset, FS_CardinalityType
  <2>5. n <= k.len /\ k.len \in Nat /\ (arg # {} => n # 0)
    BY <1>1, <1>8, <2>3, CallType, FS_EmptySet DEF ForOne, ForMany
  <2>6. Cardinality(ids) = k.len <=> ids = arg /\ k.len = n
    BY <2>4, <2>5
  <2>7. k.name = call[c].name /\ k.ids = arg /\ arg \subseteq IDs \cup {ZeroID}
    BY <1>1
  <2>8. arg # {} => Work[c] # Doomed
    BY <1>1, <1>2, WorkIs, WorkDoes DEF Read
  <2> HIDE DEF ids, arg, n, k
  <2>9. PICK res \in {"ok", "refused"} :
          /\ Return(c, k, res, Only(c, ids))
          /\ res = "ok" => ids = arg
          /\ arg # {} => (res = "ok" <=> ids = arg /\ k.len = n)
    BY <1>8, <2>1, <2>5, <2>6, <2>7 DEF Answer
  <2>10. /\ Units!Returned(c, call[c].name, res)
         /\ last'.name = call[c].name /\ last'.res = res /\ last'.arg = arg /\ last'.len = k.len
         /\ {i \in IDs : last'.val[i] # Absent} = ids
         /\ \A i \in ids : last'.val[i] = sees[i]
    BY <1>6, <2>2, <2>5, <2>7, <2>9
  <2>11. Units!Cardinality(arg) = n
    BY DEF Units!Cardinality, Cardinality, n
  <2>12. Units!Read(c)
    BY <1>1, <1>3, <1>8, <2>2, <2>8, <2>9, <2>10, <2>11 DEF Units!Read, sees
  <2> QED
    BY <2>12 DEF Units!Next
<1> QED
  BY <1>1, <1>7, <1>8 DEF Reads

LEMMA AllStep ==
  ASSUME RInv, NEW c \in Clients, Touches(c), All(c)
  PROVE  Units!Next
<1>1. /\ call[c].ids \subseteq IDs \cup {ZeroID} /\ call[c].len \in Nat /\ call[c].name = "All"
      /\ rows \in [IDs -> Clients \cup {Absent}]
  BY CallIs DEF All, RInv, IInv, Client, Shared
<1>2. PICK res \in {"ok", "failed"}, val \in {rows, None} :
        Return(c, call[c], res, val) /\ (res = "ok" => val = rows)
  BY DEF All
<1>3. Units!Returned(c, "All", res) /\ last'.name = "All" /\ last'.val = val
  BY <1>1, <1>2, ReturnDoes DEF Methods, ForAll
<1>4. UNCHANGED rows /\ Work' = Work /\ WorkOf(c)' = WorkOf(c)
  BY WorkDoes DEF All, WorkOf
<1>5. CASE res = "ok"
  <2>1. Units!All(c)
    BY <1>2, <1>3, <1>4, <1>5 DEF Units!All
  <2> QED
    BY <2>1 DEF Units!Next
<1>6. CASE res = "failed"
  <2>1. Units!CallFails(c)
    BY <1>3, <1>4, <1>6 DEF Units!CallFails, Units!Only
  <2> QED
    BY <2>1 DEF Units!Next
<1> QED
  BY <1>5, <1>6

(***************************************************************************)
(* The iterator, and the commit of a method.                               *)
(***************************************************************************)
LEMMA BreakStep ==
  ASSUME RInv, NEW c \in Clients, Touches(c), Break(c)
  PROVE  Units!Next
<1>1. /\ Functions /\ Client(c) /\ call[c] # None /\ call[c].name = "AllIter" /\ tx[c].st = "open"
      /\ UNCHANGED <<rows, unit>> /\ Finish(c, "ok")
  BY DEF RInv, IInv, Break, Client
<1>2. WorkOf(c)' = WorkOf(c)
  BY <1>1 DEF Break, Leave, WorkOf
<1>3. ASSUME NEW seen
      PROVE  /\ Units!Writes(c, "AllIter", call[c].ids, seen, seen)
             /\ Units!Done(c, "AllIter", call[c].ids, seen, seen)
  BY DEF Units!Writes, Units!Done
<1>4. CASE unit[c] = "open"
  <2>1. Units!Open(c) /\ Units!Open(c)'
    BY <1>1, <1>2, <1>4, WorkIs, WorkDoes DEF Units!Open
  <2>2. Units!CallInside(c)
    BY <1>1, <1>2, <1>3, <2>1, FinishDoes, WorkDoes DEF Units!CallInside, Units!Only
  <2> QED
    BY <2>2 DEF Units!Next
<1>5. CASE unit[c] # "open"
  <2>1. Units!CallOutside(c)
    BY <1>1, <1>2, <1>3, <1>5, FinishDoes, WorkIs, WorkDoes DEF Units!CallOutside
  <2> QED
    BY <2>1 DEF Units!Next
<1> QED
  BY <1>4, <1>5

LEMMA PanicsStep ==
  ASSUME RInv, NEW c \in Clients, Panics(c), UNCHANGED rows
  PROVE  Units!Next
<1>1. Touches(c) /\ last' = None /\ unit'[c] = "none"
  BY PanicsDoes DEF RInv
<1>2. WorkOf(c)' = None
  BY <1>1 DEF WorkOf
<1>3. Units!Panic(c)
  BY <1>1, <1>2, WorkDoes DEF Units!Panic
<1> QED
  BY <1>3 DEF Units!Next

LEMMA IterFailsStep ==
  ASSUME RInv, NEW c \in Clients, Touches(c),
         BeginOwnFails(c) \/ DeclareFails(c) \/ ContextDone(c) \/ IterFails(c)
  PROVE  Units!Next
<1>1. Functions /\ Client(c) /\ call[c] # None /\ UNCHANGED rows
  BY DEF RInv, IInv, BeginOwnFails, DeclareFails, ContextDone, IterFails, Client
<1>2. CASE BeginOwnFails(c)
  <2>1. UNCHANGED <<unit, tx>> /\ WorkOf(c)' = WorkOf(c)
    BY <1>2 DEF BeginOwnFails, WorkOf
  <2>2. CASE last' = None
    BY <1>1, <2>1, <2>2, QuietStep
  <2>3. CASE Finish(c, "failed")
    BY <1>1, <2>1, <2>3, FailStep
  <2> QED
    BY <1>2, <2>2, <2>3 DEF BeginOwnFails
<1>3. CASE DeclareFails(c) \/ ContextDone(c)
  <2>1. UNCHANGED unit /\ Finish(c, "failed") /\ (Leave(c, tx) \/ Leave(c, Failed(c)))
    BY <1>3 DEF DeclareFails, ContextDone
  <2>2. CASE unit[c] = "open"
    <3>1. tx' = tx \/ tx' = Failed(c)
      BY <2>1, <2>2 DEF Leave
    <3> QED
      BY <1>1, <2>1, <3>1, FailStep
  <2>3. CASE unit[c] # "open"
    <3>1. WorkOf(c)' = WorkOf(c)
      BY <2>1, <2>3 DEF WorkOf
    <3>2. Units!CallFails(c)
      BY <1>1, <2>1, <3>1, FinishDoes, WorkDoes DEF Units!CallFails, Units!Only
    <3> QED
      BY <3>2 DEF Units!Next
  <2> QED
    BY <2>2, <2>3
<1>4. CASE IterFails(c)
  <2>1. CASE tx' = Ended(c) /\ Finish(c, "failed") /\ UNCHANGED unit
    BY <1>1, <2>1, FailStep
  <2>2. CASE Panics(c)
    BY <1>1, <2>2, PanicsStep
  <2> QED
    BY <1>4, <2>1, <2>2 DEF IterFails
<1> QED
  BY <1>2, <1>3, <1>4

(* What is there to commit when a method does.                             *)
LEMMA CommitIs ==
  ASSUME RInv, NEW c \in Clients, at[c] = "commit"
  PROVE  /\ call[c] # None /\ call[c].name \in {"UpdateAll", "AllIter"}
         /\ tx[c].st = "open" /\ call[c].name = "UpdateAll" =>
              \A i \in call[c].ids : i \in IDs /\ tx[c].pend[i] = c
         /\ tx[c].st = "open" /\ unit[c] # "open" =>
              \A i \in IDs : tx[c].pend[i] = IF call[c].name = "UpdateAll" /\ i \in call[c].ids
                                             THEN c ELSE Same
<1>1. Client(c) /\ Trace(c)
  BY DEF RInv, IInv
<1>2. call[c] # None /\ call[c].name \in {"UpdateAll", "AllIter"}
  BY <1>1 DEF Client, Trace
<1>3. tx[c].st = "open" /\ call[c].name = "UpdateAll" =>
        \A i \in call[c].ids : i \in IDs /\ tx[c].pend[i] = c
  BY <1>1 DEF Trace, UpdatedSoFar, Wrote
<1> QED
  BY <1>1, <1>2, <1>3 DEF Trace, OwnWork

LEMMA CommitOwnStep ==
  ASSUME RInv, NEW c \in Clients, Touches(c), CommitOwn(c) \/ CommitOwnFails(c)
  PROVE  Units!Next
<1>1. /\ Functions /\ at[c] = "commit" /\ call[c] # None /\ call[c].name \in {"UpdateAll", "AllIter"}
      /\ UNCHANGED unit /\ tx' = Ended(c)
  BY CommitIs DEF RInv, IInv, CommitOwn, CommitOwnFails
<1>2. PICK res \in {"ok", "failed"} :
        /\ Finish(c, res)
        /\ rows' = View(c) \/ (res = "failed" /\ rows' = rows)
        /\ res = "ok" \/ rows' # rows => tx[c].st = "open"
  BY DEF CommitOwn, CommitOwnFails
<1>3. /\ Units!Returned(c, call[c].name, res) /\ call[c].name # "unit"
      /\ last' # None /\ last'.name = call[c].name /\ last'.res = res /\ last'.arg = call[c].ids
  BY <1>1, <1>2, FinishDoes
<1>4. WorkOf(c)' = IF unit[c] = "open" THEN Doomed ELSE None
  BY <1>1, EndedDoes DEF WorkOf, RInv
<1>5. CASE unit[c] = "open" /\ tx[c].st = "open"
  <2>1. Units!Open(c) /\ WorkOf(c) = tx[c].pend
    BY <1>5, WorkIs DEF WorkOf
  <2>2. rows' = Units!Overlay(rows, Work[c]) \/ (res = "failed" /\ rows' = rows)
    BY <1>2, <2>1, Seen, WorkDoes
  <2>3. call[c].name = "UpdateAll" => \A i \in call[c].ids : Work[c][i] = c
    BY <1>1, <1>5, <2>1, CommitIs, WorkDoes
  <2>4. Units!Early(c)
    BY <1>1, <1>3, <1>4, <1>5, <2>1, <2>2, <2>3, WorkDoes DEF Units!Early
  <2> QED
    BY <2>4 DEF Units!Next
<1>6. CASE res = "failed" /\ rows' = rows
  BY <1>1, <1>2, <1>6, FailStep
<1>7. CASE unit[c] # "open" /\ tx[c].st = "open" /\ rows' = View(c)
  <2>1. WorkOf(c) = None /\ Work' = Work
    BY <1>4, <1>7, WorkIs, WorkDoes
  <2>2. \A i \in IDs : rows'[i] = IF call[c].name = "UpdateAll" /\ i \in call[c].ids
                                  THEN c ELSE rows[i]
    BY <1>1, <1>7, CommitIs, ValueAssumption DEF View, Overlay
  <2>3. call[c].name = "UpdateAll" => call[c].ids \subseteq IDs
    BY <1>1, <1>7, CommitIs
  <2>4. CASE res = "ok"
    <3>1. /\ Units!Writes(c, call[c].name, call[c].ids, rows, rows')
          /\ Units!Done(c, call[c].name, call[c].ids, rows, rows')
      BY <1>1, <2>2, <2>3 DEF Units!Writes, Units!Value, Units!Done
    <3>2. Units!CallOutside(c)
      BY <1>3, <2>1, <2>4, <3>1, WorkDoes DEF Units!CallOutside
    <3> QED
      BY <3>2 DEF Units!Next
  <2>5. CASE res = "failed" /\ call[c].name = "UpdateAll"
    <3>1. Units!CallUnknown(c)
      BY <1>3, <2>1, <2>2, <2>5, WorkDoes DEF Units!CallUnknown
    <3> QED
      BY <3>1 DEF Units!Next
  <2>6. CASE res = "failed" /\ call[c].name = "AllIter"
    <3>1. rows' = rows
      BY <1>7, <2>2, <2>6, ViewType DEF RInv, IInv, Shared
    <3> QED
      BY <1>6, <2>6, <3>1
  <2> QED
    BY <1>1, <2>4, <2>5, <2>6
<1> QED
  BY <1>2, <1>5, <1>6, <1>7

(***************************************************************************)
(* The decorator.                                                          *)
(***************************************************************************)
LEMMA UnitEndsStep ==
  ASSUME RInv, NEW c \in Clients, Touches(c),
         BeginFails(c) \/ Commit(c) \/ CommitFails(c) \/ Rollback(c)
  PROVE  Units!Next
<1>1. PICK res \in {"ok", "failed"} :
        /\ UnitEnds(c, res)
        /\ \/ res = "failed" /\ rows' = rows
           \/ unit[c] = "open" /\ tx[c].st = "open" /\ rows' = View(c)
  BY DEF BeginFails, Commit, CommitFails, Rollback
<1>2. Units!Returned(c, "unit", res) /\ last'.res = res
  <2>1. PICK k : k = [name |-> "unit", ids |-> {}, len |-> 0]
    OBVIOUS
  <2>2. Return(c, k, res, None)
    BY <1>1, <2>1 DEF UnitEnds
  <2> QED
    BY <2>1, <2>2, ReturnDoes
<1>3. WorkOf(c)' = None
  BY <1>1 DEF UnitEnds, WorkOf, RInv, IInv, Functions
<1>4. unit[c] = "open" /\ tx[c].st = "open" =>
        Units!Open(c) /\ View(c) = Units!Overlay(rows, Work[c])
  BY WorkIs, WorkDoes, Seen DEF WorkOf
<1>5. CASE res = "ok"
  <2>1. Units!Commit(c)
    BY <1>1, <1>2, <1>3, <1>4, <1>5, WorkDoes DEF Units!Commit
  <2> QED
    BY <2>1 DEF Units!Next
<1>6. CASE res = "failed"
  <2>1. Units!Fail(c)
    BY <1>1, <1>2, <1>3, <1>4, <1>6, WorkDoes DEF Units!Fail
  <2> QED
    BY <2>1 DEF Units!Next
<1> QED
  BY <1>5, <1>6

LEMMA UnitStep ==
  ASSUME RInv, NEW c \in Clients, Touches(c), Begin(c) \/ Panic(c)
  PROVE  Units!Next
<1>1. Functions /\ Client(c) /\ Trace(c)
  BY DEF RInv, IInv
<1>2. CASE Begin(c)
  <2>1. WorkOf(c) = None /\ tx[c].st = "none" /\ tx[c].pend = Nothing
    BY <1>1, <1>2, WorkIs DEF Begin, Client, Trace
  <2>2. unit'[c] = "open" /\ tx'[c].st = "open" /\ tx'[c].pend = Nothing
    BY <1>1, <1>2, <2>1 DEF Begin, Functions, Client, Txs
  <2>3. WorkOf(c)' = Units!Nothing
    BY <2>2 DEF WorkOf, Nothing, Units!Nothing
  <2>4. Units!Begin(c)
    BY <1>2, <2>1, <2>3, WorkDoes DEF Begin, Units!Begin
  <2> QED
    BY <2>4 DEF Units!Next
<1>3. CASE Panic(c)
  BY <1>3, PanicsStep DEF Panic
<1> QED
  BY <1>2, <1>3

LEMMA InitUnits == Init => Units!Init
  BY DEF Init, Units!Init, Work, WorkOf

LEMMA StepUnits == RInv /\ [Next]_vars => [Units!Next]_Units!unitVars
<1> SUFFICES ASSUME RInv, [Next]_vars PROVE Units!Next \/ UNCHANGED Units!unitVars
  OBVIOUS
<1>1. CASE Next
  <2>1. PICK c \in Clients : Step(c) /\ Touches(c)
    BY <1>1, NextStep DEF RInv
  <2> QED
    BY <2>1, CallStep, LookStep, BeginOwnStep, ExecuteStep, RefusedStep, ReadStep, AllStep,
       BreakStep, IterFailsStep, CommitOwnStep, UnitEndsStep, UnitStep DEF Step
<1>2. CASE UNCHANGED vars
  BY <1>2 DEF vars, Units!unitVars, Work, WorkOf
<1> QED
  BY <1>1, <1>2

(* The repository and the decorators implement UnitsOfWork (app/tx.decorator.go,    *)
(* arepo/postgres.repository.go): a use case takes effect as a whole or not at all, *)
(* a call outside of one is a unit of its own, and only UpdateAll and AllIter       *)
(* commit what their use case has done before.                                     *)
THEOREM UnitsCorrect == Spec => UnitsSpec
<1>1. Init => RInv
  BY InitInv, InitTrace DEF RInv
<1> QED
  BY <1>1, NextTrace, InitUnits, StepUnits, PTL DEF Spec, UnitsSpec, Units!Spec
=============================================================================
