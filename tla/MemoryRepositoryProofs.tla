------------------------- MODULE MemoryRepositoryProofs -------------------------
(***************************************************************************)
(* Proofs about MemoryRepository: its invariants, and that it implements   *)
(* EntityStore for any number of goroutines, entities and errors.          *)
(***************************************************************************)
EXTENDS MemoryRepository, WellFoundedInduction, TLAPS

USE ValuesAssumption

(* The client in a method has a call, and AddAll is the only one that      *)
(* looks up before it takes the mutex.                                     *)
CallKnown ==
  \A c \in Clients :
    /\ phase[c] # "idle" => call[c] \in Calls
    /\ phase[c] = "add" => call[c].op = "AddAll"

(* The checks of the method that works held for the collection as it was.  *)
ValidBefore(k) ==
  /\ k.op \notin {"Delete", "DeleteByIDs", "DeleteAll"} => ZeroID \notin Names(k)
  /\ k.op = "Create" => \A i \in Names(k) : before[i] = Absent
  /\ k.op \in {"Update", "UpdateAll"} => \A i \in Names(k) : before[i] # Absent

(* It has changed the entities of its call and no others.                  *)
Working ==
  \A c \in Clients : mutex = c =>
    /\ ValidBefore(call[c])
    /\ Data = [i \in IDs |-> IF i \in Names(call[c]) THEN Given(call[c], i) ELSE before[i]]

Down == ~up => mutex = None /\ \A c \in Clients : phase[c] = "idle"

IInv == TypeOK /\ MutexHeld /\ CallKnown /\ Working /\ Down

(* A set of positions in a list has a first one, and Max is the last one.  *)
LEMMA FirstIs ==
  ASSUME NEW l \in Nat, NEW S, S \subseteq 1 .. l, S # {}
  PROVE  \E m \in S : \A n \in S : m <= n
<1>1. PICK m \in S : \A n \in S : <<n, m>> \notin OpToRel(<, Nat)
  <2>1. S \subseteq Nat
    OBVIOUS
  <2> QED
    BY <2>1, NatLessThanWellFounded, WFMin, Zenon
<1>2. \A n \in S : ~(n < m)
  <2>1. ASSUME NEW n \in S, n < m PROVE <<n, m>> \in OpToRel(<, Nat)
    <3>1. n \in Nat /\ m \in Nat
      OBVIOUS
    <3> QED
      BY <2>1, <3>1, Zenon DEF OpToRel
  <2> QED
    BY <1>1, <2>1
<1> QED
  BY <1>2

LEMMA MaxIs ==
  ASSUME NEW l \in Nat, NEW S, S \subseteq 1 .. l, S # {}
  PROVE  Max(S) \in S
<1> DEFINE T == {(l + 1) - n : n \in S}
<1>1. T \subseteq 1 .. l /\ T # {}
  <2>1. \A n \in S : n \in 1 .. l => (l + 1) - n \in 1 .. l
    OBVIOUS
  <2>2. \E n \in S : (l + 1) - n \in T
    BY Zenon
  <2> QED
    BY <2>1, <2>2
<1>2. PICK t \in T : \A u \in T : t <= u
  BY <1>1, FirstIs
<1>3. PICK m \in S : t = (l + 1) - m
  BY <1>2
<1>4. \A n \in S : m >= n
  <2> TAKE n \in S
  <2>1. (l + 1) - m <= (l + 1) - n
    BY <1>2, <1>3
  <2> QED
    BY <2>1
<1> QED
  BY <1>4 DEF Max

LEMMA CallType ==
  ASSUME NEW k \in Calls
  PROVE  /\ \E l \in Nat : DOMAIN k.list = 1 .. l
         /\ Len(k.list) \in Nat /\ DOMAIN k.list = 1 .. Len(k.list)
         /\ \A n \in DOMAIN k.list : k.list[n].id \in IDs /\ k.list[n].val \in Values \cup {Absent}
         /\ k.op = "DeleteByIDs" => \A n \in DOMAIN k.list : k.list[n].val = Absent
         /\ k.op \in {"Create", "Update", "Save", "SaveAll", "UpdateAll", "AddAll",
                      "Delete", "DeleteByIDs", "DeleteAll"}
<1>0. ASSUME NEW l \in Lists
      PROVE  /\ Len(l) \in Nat /\ DOMAIN l = 1 .. Len(l)
             /\ \A n \in DOMAIN l : l[n].id \in IDs /\ l[n].val \in Values
  <2> DEFINE E == [id : IDs, val : Values]
  <2>1. l \in Seq(E)
    BY ListsAssumption DEF IDs
  <2>2. \A e \in E : e.id \in IDs /\ e.val \in Values
    OBVIOUS
  <2> HIDE DEF E
  <2>3. Len(l) \in Nat /\ DOMAIN l = 1 .. Len(l) /\ \A n \in DOMAIN l : l[n] \in E
    BY <2>1
  <2> QED
    BY <2>2, <2>3
<1>1. CASE k \in Single
  <2>1. PICK i \in IDs, v \in Values : k.list = <<Entity(i, v)>>
    BY <1>1 DEF Single
  <2> QED
    BY <1>1, <2>1 DEF Single, Entity
<1>2. CASE k \in List
  <2>1. k.list \in Lists /\ k.op \in {"SaveAll", "UpdateAll", "AddAll"}
    BY <1>2 DEF List
  <2> QED
    BY <1>0, <2>1
<1>3. CASE k \in [op : {"Delete"}, list : {<<Entity(i, Absent)>> : i \in IDs}]
  <2>1. PICK i \in IDs : k.list = <<Entity(i, Absent)>>
    BY <1>3
  <2> QED
    BY <1>3, <2>1 DEF Entity
<1>4. CASE k \in [op : {"DeleteByIDs"}, list : {Gone(l) : l \in Lists}]
  <2>1. PICK l \in Lists : k.list = Gone(l)
    BY <1>4
  <2>2. k.list = [n \in 1 .. Len(l) |-> Entity(l[n].id, Absent)] /\ Len(l) \in Nat
    BY <1>0, <2>1 DEF Gone
  <2>3. \A n \in DOMAIN k.list : k.list[n].id \in IDs /\ k.list[n].val = Absent
    BY <1>0, <2>2 DEF Entity
  <2>4. Len(k.list) = Len(l)
    BY <2>2
  <2> QED
    BY <1>4, <2>2, <2>3, <2>4
<1>5. CASE k \in [op : {"DeleteAll"}, list : {<<>>}]
  BY <1>5
<1> QED
  BY <1>1, <1>2, <1>3, <1>4, <1>5 DEF Calls, Remove

LEMMA GivenType ==
  ASSUME NEW k \in Calls, NEW i \in Names(k)
  PROVE  i \in IDs /\ Given(k, i) \in Values \cup {Absent}
<1>1. CASE k.op = "DeleteAll"
  BY <1>1 DEF Names, Given
<1>2. CASE k.op # "DeleteAll"
  <2>1. PICK l \in Nat : DOMAIN k.list = 1 .. l
    BY CallType
  <2>2. At(k, i) \subseteq 1 .. l /\ At(k, i) # {} /\ i \in IDs
    BY <1>2, <2>1 DEF Names, At
  <2>3. Max(At(k, i)) \in DOMAIN k.list
    BY <2>1, <2>2, MaxIs
  <2> QED
    BY <1>2, <2>2, <2>3, CallType DEF Given
<1> QED
  BY <1>1, <1>2

LEMMA ChangedType ==
  ASSUME NEW k \in Calls, Data \in Collection
  PROVE  Changed(k) \in Collection
BY GivenType DEF Changed, Collection

(* What the undoing of a method with a list puts back under an ID.         *)
LEMMA BackMax ==
  ASSUME NEW k \in Calls, NEW i \in IDs, Back(k, i) # {}
  PROVE  Max(Back(k, i)) \in Back(k, i)
<1>1. PICK l \in Nat : DOMAIN k.list = 1 .. l
  BY CallType
<1>2. Back(k, i) \subseteq 1 .. l
  BY <1>1 DEF Back, At
<1> QED
  BY <1>2, MaxIs

LEMMA ReinstatedType ==
  ASSUME NEW k \in Calls, Data \in Collection, before \in Collection
  PROVE  Reinstated(k) \in Collection
<1>1. \A i \in IDs : Back(k, i) # {} => Old(k, Max(Back(k, i))) \in Values
  BY BackMax DEF Back
<1> QED
  BY <1>1 DEF Reinstated, Collection

LEMMA UndoneType ==
  ASSUME NEW k \in Calls, Data \in Collection, before \in Collection
  PROVE  Undone(k) \in Collection
<1>1. Reinstated(k) \in Collection
  BY ReinstatedType
<1>2. Dropped(k) \in Collection /\ PutBack(k) \in Collection /\ Copied \in Collection
  BY DEF Dropped, PutBack, Copied, Collection
<1> QED
  BY <1>1, <1>2, CallType DEF Undone

(* The entity an ID has had comes back: at once, for an ID the list names  *)
(* once, from the first place that names it, when they are deleted, and    *)
(* from any place, when all were looked at before the first was changed.   *)
RestoredBefore(k, i) ==
  /\ i \in Names(k) /\ before[i] \in Values /\ k.op # "Save"
  /\ k.op \in {"SaveAll", "AddAll"} => ~Repeats(k, i)

ListOps == {"SaveAll", "UpdateAll", "AddAll", "DeleteByIDs"}

LEMMA BackIs ==
  ASSUME NEW k \in Calls, k.op \in ListOps, NEW i \in IDs, RestoredBefore(k, i)
  PROVE  Back(k, i) # {} /\ \A n \in Back(k, i) : Old(k, n) = before[i]
<1>1. PICK l \in Nat : DOMAIN k.list = 1 .. l
  BY CallType
<1>2. At(k, i) # {} /\ At(k, i) \subseteq 1 .. l /\ before[i] \in Values
  BY <1>1 DEF RestoredBefore, Names, At, ListOps
<1>3. \A n \in At(k, i) : k.list[n].id = i /\ n \in DOMAIN k.list
  BY DEF At
<1>4. ASSUME NEW n \in At(k, i), k.op = "UpdateAll" \/ Earlier(k, n) = {}
      PROVE  Old(k, n) = before[i] /\ n \in Back(k, i)
  BY <1>2, <1>3, <1>4 DEF Old, Back
<1>5. CASE k.op = "UpdateAll"
  BY <1>2, <1>4, <1>5 DEF Back
<1>6. CASE k.op \in {"SaveAll", "AddAll"}
  <2>1. ~Repeats(k, i)
    BY <1>6 DEF RestoredBefore
  <2>2. \A n \in At(k, i) : Earlier(k, n) = {}
    BY <1>1, <1>2, <1>3, <2>1 DEF Earlier, Repeats
  <2> QED
    BY <1>2, <1>4, <2>2 DEF Back
<1>7. CASE k.op = "DeleteByIDs"
  <2>1. PICK m \in At(k, i) : \A n \in At(k, i) : m <= n
    BY <1>2, FirstIs
  <2>2. Earlier(k, m) = {}
    BY <1>2, <1>3, <2>1 DEF Earlier
  <2>3. ASSUME NEW n \in Back(k, i), Earlier(k, n) # {}
        PROVE  FALSE
    <3>1. n \in At(k, i) /\ Earlier(k, n) \subseteq At(k, i)
      BY <1>3 DEF Back, Earlier
    <3>2. Max(Earlier(k, n)) \in At(k, i)
      BY <1>2, <2>3, <3>1, MaxIs
    <3>3. Old(k, n) = Absent
      BY <1>3, <1>7, <2>3, <3>2, CallType DEF Old
    <3> QED
      BY <3>3 DEF Back
  <2>4. \A n \in Back(k, i) : n \in At(k, i)
    BY DEF Back
  <2> QED
    BY <1>4, <2>1, <2>2, <2>3, <2>4
<1> QED
  BY <1>5, <1>6, <1>7 DEF ListOps

(* What the undoing restores, once a method has changed the collection.    *)
LEMMA UndoneRestores ==
  ASSUME NEW k \in Calls, Data \in Collection, before \in Collection, ValidBefore(k),
         Data = [i \in IDs |-> IF i \in Names(k) THEN Given(k, i) ELSE before[i]]
  PROVE  /\ \A i \in IDs : i \notin Names(k) \cup {ZeroID} => Undone(k)[i] = before[i]
         /\ \A i \in IDs : RestoredBefore(k, i) => Undone(k)[i] = before[i]
         /\ k.op \in {"Create", "Update"} => Undone(k) = before
         /\ (\A i \in Names(k) : RestoredBefore(k, i)
                                 /\ (k.op = "DeleteByIDs" => ~Repeats(k, i))) => Undone(k) = before
<1> USE DEF Collection
<1>0. Names(k) \subseteq IDs /\ Undone(k) \in [IDs -> Values \cup {Absent, Zero}]
  BY UndoneType DEF Names
<1>1. CASE k.op = "Create"
  <2>1. Dropped(k) = before /\ Undone(k) = Dropped(k)
    BY <1>1 DEF ValidBefore, Dropped, Undone
  <2> QED
    BY <2>1
<1>2. CASE k.op = "Save"
  <2>1. Undone(k) = Dropped(k)
    BY <1>2 DEF Undone
  <2>2. (\A i \in Names(k) : RestoredBefore(k, i)) => Names(k) = {}
    BY <1>2 DEF RestoredBefore
  <2> QED
    BY <1>0, <1>2, <2>1, <2>2 DEF Dropped, RestoredBefore
<1>3. CASE k.op = "Update"
  BY <1>3 DEF Undone
<1>4. CASE k.op = "Delete"
  <2>1. Undone(k) = PutBack(k)
    BY <1>4 DEF Undone
  <2>2. \A i \in IDs : RestoredBefore(k, i) => PutBack(k)[i] = before[i]
    BY DEF PutBack, RestoredBefore
  <2>3. \A i \in IDs : i \notin Names(k) => PutBack(k)[i] = before[i]
    BY DEF PutBack
  <2> QED
    BY <1>0, <1>4, <2>1, <2>2, <2>3
<1>5. CASE k.op = "DeleteAll"
  <2>1. Undone(k) = Copied /\ Names(k) = IDs
    BY <1>5 DEF Undone, Names
  <2>2. \A i \in IDs : RestoredBefore(k, i) => Copied[i] = before[i]
    BY DEF Copied, RestoredBefore
  <2> QED
    BY <1>0, <1>5, <2>1, <2>2
<1>6. CASE k.op \in ListOps
  <2>1. Undone(k) = Reinstated(k)
    BY <1>6 DEF Undone, ListOps
  <2>2. \A i \in IDs : i \notin Names(k) => Back(k, i) = {} /\ Data[i] = before[i]
    BY <1>6 DEF Names, Back, ListOps
  <2>3. ASSUME NEW i \in IDs, RestoredBefore(k, i)
        PROVE  Reinstated(k)[i] = before[i]
    <3>1. Back(k, i) # {} /\ Old(k, Max(Back(k, i))) = before[i]
      BY <1>6, <2>3, BackIs, BackMax
    <3> QED
      BY <3>1 DEF Reinstated
  <2>4. ASSUME \A i \in Names(k) : RestoredBefore(k, i)
                                  /\ (k.op = "DeleteByIDs" => ~Repeats(k, i)),
               NEW n \in DOMAIN k.list
        PROVE  Old(k, n) \in Values
    <3> DEFINE i == k.list[n].id
    <3>1. i \in IDs /\ n \in At(k, i)
      BY CallType DEF At
    <3>2. i \in Names(k)
      BY <1>6, <3>1 DEF Names, ListOps
    <3>3. RestoredBefore(k, i) /\ (k.op # "UpdateAll" => ~Repeats(k, i))
      BY <1>6, <2>4, <3>2 DEF RestoredBefore, ListOps
    <3>4. before[i] \in Values
      BY <3>3 DEF RestoredBefore
    <3>5. ~Repeats(k, i) => Earlier(k, n) = {}
      <4>1. DOMAIN k.list \subseteq Nat
        BY CallType
      <4>2. At(k, i) \subseteq Nat
        BY <4>1 DEF At
      <4> QED
        BY <3>1, <4>2 DEF Repeats, Earlier
    <3> QED
      BY <3>3, <3>4, <3>5 DEF Old
  <2>5. ASSUME \A i \in Names(k) : RestoredBefore(k, i)
                                  /\ (k.op = "DeleteByIDs" => ~Repeats(k, i))
        PROVE  Reinstated(k) = before
    <3>1. \A n \in DOMAIN k.list : Old(k, n) \in Values
      BY <2>4, <2>5
    <3>2. ASSUME NEW i \in IDs PROVE Reinstated(k)[i] = before[i]
      <4>1. CASE i \in Names(k)
        BY <2>3, <2>5, <4>1
      <4>2. CASE i \notin Names(k)
        BY <2>2, <3>1, <4>2 DEF Reinstated
      <4> QED
        BY <4>1, <4>2
    <3>3. Reinstated(k) = [i \in IDs |-> Reinstated(k)[i]]
      BY DEF Reinstated
    <3> QED
      BY <3>2, <3>3
  <2>6. \A i \in IDs : i \notin Names(k) \cup {ZeroID} => Reinstated(k)[i] = before[i]
    BY <2>2 DEF Reinstated
  <2>7. k.op \notin {"Create", "Update"}
    BY <1>6 DEF ListOps
  <2> QED
    BY <2>1, <2>3, <2>5, <2>6, <2>7
<1> QED
  BY <1>1, <1>2, <1>3, <1>4, <1>5, <1>6, CallType DEF ListOps

LEMMA InitIInv == Init => IInv
<1> SUFFICES ASSUME Init PROVE IInv
  OBVIOUS
<1> USE DEF Init
<1>1. Empty \in Collection
  BY DEF Empty, Collection
<1>2. 0 \in IDs
  BY MaxAssumption DEF IDs
<1>3. TypeOK
  BY <1>1, <1>2 DEF TypeOK
<1>4. MutexHeld /\ CallKnown /\ Working /\ Down
  BY DEF MutexHeld, CallKnown, Working, Down
<1> QED
  BY <1>3, <1>4 DEF IInv

(* A client is done: nothing is known of its call any more.                *)
LEMMA DoneType ==
  ASSUME TypeOK, NEW c \in Clients, Done(c)
  PROVE  /\ phase' \in [Clients -> {"idle", "add", "store", "write"}]
         /\ call' \in [Clients -> Calls \cup {None}]
         /\ seen' \in [Clients -> Nat]
         /\ phase'[c] = "idle"
         /\ \A d \in Clients : d # c => phase'[d] = phase[d] /\ call'[d] = call[d] /\ seen'[d] = seen[d]
BY DEF TypeOK, Done

LEMMA EnterIInv ==
  ASSUME IInv, up, NEW c \in Clients, NEW k \in Calls, phase[c] \in {"idle", "add"}, Enter(c, k)
  PROVE  IInv'
<1> USE DEF IInv
<1>1. CASE Valid(k)
  <2>1. /\ mutex' = c /\ before' = Data /\ Data' = Changed(k)
        /\ phase' = [phase EXCEPT ![c] = "store"] /\ call' = [call EXCEPT ![c] = k]
        /\ seen' = [seen EXCEPT ![c] = 0] /\ mutex = None
        /\ up' = up /\ current' = current /\ file' = file
    BY <1>1 DEF Enter
  <2>2. TypeOK'
    <3>1. Changed(k) \in Collection
      BY ChangedType DEF TypeOK
    <3> QED
      BY <2>1, <3>1 DEF TypeOK
  <2>3. MutexHeld' /\ CallKnown' /\ Down'
    BY <2>1 DEF MutexHeld, CallKnown, Down, TypeOK
  <2>4. Working'
    BY <1>1, <2>1 DEF Working, TypeOK, Valid, ValidBefore, Changed
  <2> QED
    BY <2>2, <2>3, <2>4
<1>2. CASE ~Valid(k)
  <2>1. /\ Done(c) /\ mutex = None
        /\ UNCHANGED <<up, current, file, Data, mutex, before>>
    BY <1>2 DEF Enter
  <2>2. TypeOK'
    BY <2>1, DoneType DEF TypeOK
  <2>3. MutexHeld' /\ CallKnown' /\ Down' /\ Working'
    BY <2>1, DoneType DEF MutexHeld, CallKnown, Down, Working
  <2> QED
    BY <2>2, <2>3
<1> QED
  BY <1>1, <1>2

LEMMA StoreFailedIInv ==
  ASSUME IInv, NEW c \in Clients, phase[c] \in {"store", "write"}, StoreFailed(c), UNCHANGED file
  PROVE  IInv'
<1> USE DEF IInv
<1>1. Empty \in Collection
  BY DEF Empty, Collection
<1>2. Undone(call[c]) \in Collection
  BY UndoneType DEF CallKnown, TypeOK
<1>3. /\ Done(c) /\ Data' = Undone(call[c]) /\ mutex' = None /\ before' = Empty
      /\ up' = up /\ current' = current
  BY DEF StoreFailed, Release
<1>4. TypeOK'
  BY <1>1, <1>2, <1>3, DoneType DEF TypeOK
<1>5. mutex = c
  BY DEF MutexHeld
<1>6. MutexHeld' /\ CallKnown' /\ Down' /\ Working'
  BY <1>3, <1>5, DoneType DEF MutexHeld, CallKnown, Down, Working, TypeOK
<1> QED
  BY <1>4, <1>6

LEMMA NextIInv ==
  ASSUME IInv, [Next]_vars
  PROVE  IInv'
<1> USE DEF IInv
<1>1. CASE Crash
  <2>1. Empty \in Collection /\ 0 \in IDs
    BY MaxAssumption DEF Empty, Collection, IDs
  <2>2. TypeOK'
    BY <1>1, <2>1 DEF Crash, TypeOK
  <2>3. MutexHeld' /\ CallKnown' /\ Down' /\ Working'
    BY <1>1 DEF Crash, MutexHeld, CallKnown, Down, Working
  <2> QED
    BY <2>2, <2>3
<1>2. CASE Open
  <2>1. TypeOK'
    BY <1>2 DEF Open, TypeOK, client
  <2>2. MutexHeld' /\ CallKnown' /\ Down' /\ Working'
    BY <1>2 DEF Open, client, MutexHeld, CallKnown, Down, Working
  <2> QED
    BY <2>1, <2>2
<1>3. ASSUME NEW c \in Clients, NextID(c)
      PROVE  IInv'
  <2>1. current' \in IDs
    <3>1. current \in 0 .. MaxID /\ current' = (current + 1) % (MaxID + 1)
      BY <1>3 DEF NextID, TypeOK, IDs
    <3> QED
      BY <3>1, MaxAssumption DEF IDs
  <2>2. TypeOK'
    BY <1>3, <2>1 DEF NextID, TypeOK, client
  <2>3. MutexHeld' /\ CallKnown' /\ Down' /\ Working'
    BY <1>3 DEF NextID, client, MutexHeld, CallKnown, Down, Working
  <2> QED
    BY <2>2, <2>3
<1>4. ASSUME NEW c \in Clients, AddLookedUp(c)
      PROVE  IInv'
  BY <1>4, EnterIInv DEF AddLookedUp, CallKnown, Down
<1>5. ASSUME NEW c \in Clients, Store(c)
      PROVE  IInv'
  <2>1. CASE OpenFails(c) \/ WriteFails(c)
    BY <2>1, StoreFailedIInv DEF OpenFails, WriteFails
  <2>2. CASE Truncate(c)
    <3>1. TypeOK'
      BY <2>2 DEF Truncate, TypeOK
    <3>2. MutexHeld' /\ CallKnown' /\ Down' /\ Working'
      BY <2>2 DEF Truncate, MutexHeld, CallKnown, Down, Working, ValidBefore, TypeOK
    <3> QED
      BY <3>1, <3>2
  <2>3. CASE Write(c)
    <3>1. Empty \in Collection
      BY DEF Empty, Collection
    <3>2. /\ Done(c) /\ file' = Data /\ mutex' = None /\ before' = Empty
          /\ UNCHANGED <<up, Data, current>>
      BY <2>3 DEF Write, Release
    <3>3. TypeOK'
      BY <3>1, <3>2, DoneType DEF TypeOK
    <3>4. mutex = c
      BY <2>3 DEF Write, MutexHeld
    <3>5. MutexHeld' /\ CallKnown' /\ Down' /\ Working'
      BY <3>2, <3>4, DoneType DEF MutexHeld, CallKnown, Down, Working, TypeOK
    <3> QED
      BY <3>3, <3>5
  <2> QED
    BY <1>5, <2>1, <2>2, <2>3 DEF Store
<1>6. ASSUME NEW c \in Clients, NEW i \in IDs, FindByID(c, i)
      PROVE  IInv'
  BY <1>6 DEF FindByID, memory, client, TypeOK, MutexHeld, CallKnown, Down, Working, ValidBefore
<1>7. ASSUME NEW c \in Clients, All(c)
      PROVE  IInv'
  BY <1>7 DEF All, memory, client, TypeOK, MutexHeld, CallKnown, Down, Working, ValidBefore
<1>8. ASSUME NEW c \in Clients, LookUp(c)
      PROVE  IInv'
  <2> DEFINE i == call[c].list[seen[c] + 1].id
  <2>1. CASE Data[i] # Absent
    <3>1. Done(c) /\ phase[c] = "add" /\ UNCHANGED <<up, memory, mutex, before>>
      BY <1>8, <2>1 DEF LookUp
    <3>2. TypeOK'
      BY <3>1, DoneType DEF TypeOK, memory
    <3>3. MutexHeld' /\ CallKnown' /\ Down' /\ Working'
      BY <3>1, DoneType DEF memory, MutexHeld, CallKnown, Down, Working, ValidBefore
    <3> QED
      BY <3>2, <3>3
  <2>2. CASE Data[i] = Absent
    BY <1>8, <2>2 DEF LookUp, memory, TypeOK, MutexHeld, CallKnown, Down, Working, ValidBefore
  <2> QED
    BY <2>1, <2>2
<1>9. ASSUME NEW c \in Clients, NEW k \in Calls, Call(c, k)
      PROVE  IInv'
  BY <1>9, EnterIInv DEF Call, May
<1>10. ASSUME NEW c \in Clients, NEW k \in Calls, CallAddAll(c, k)
      PROVE  IInv'
  <2>1. TypeOK'
    BY <1>10 DEF CallAddAll, memory, TypeOK
  <2>2. MutexHeld' /\ CallKnown' /\ Down' /\ Working'
    BY <1>10 DEF CallAddAll, May, memory, TypeOK, MutexHeld, CallKnown, Down, Working, ValidBefore
  <2> QED
    BY <2>1, <2>2
<1>11. CASE UNCHANGED vars
  BY <1>11 DEF vars, memory, client, TypeOK, MutexHeld, CallKnown, Down, Working, ValidBefore
<1> QED
  BY <1>1, <1>2, <1>3, <1>4, <1>5, <1>6, <1>8, <1>9, <1>10, <1>11, <1>7 DEF Next

THEOREM InvariantHolds == Spec => []IInv
<1>1. Init => IInv
  BY InitIInv
<1>2. IInv /\ [Next]_vars => IInv'
  BY NextIInv
<1> QED
  BY <1>1, <1>2, PTL DEF Spec

(* The variables keep their types; in particular integer IDs wrap.         *)
THEOREM TypeCorrect == Spec => []TypeOK
<1>1. IInv => TypeOK
  BY DEF IInv
<1> QED
  BY <1>1, InvariantHolds, PTL

(* The mutex is held by the client whose method works, and given back.     *)
THEOREM MutexCorrect == Spec => []MutexHeld
<1>1. IInv => MutexHeld
  BY DEF IInv
<1> QED
  BY <1>1, InvariantHolds, PTL

-----------------------------------------------------------------------------
(* The refinement of EntityStore.                                          *)

USE DEF Abstract!Return, Abstract!Deletes

LEMMA InitRefines == Init => Abstract!Init
BY DEF Init, Abstract!Init, Abstract!Empty, Empty, Mem

LEMMA AcceptsBefore ==
  ASSUME NEW k \in Calls, Mem = before
  PROVE  ValidBefore(k) <=> Abstract!Accepts(k)
BY DEF ValidBefore, Abstract!Accepts

LEMMA AcceptsNow ==
  ASSUME NEW k \in Calls, Mem = Data
  PROVE  Valid(k) <=> Abstract!Accepts(k)
BY DEF Valid, Abstract!Accepts

(* The collection as it was stays visible when a method takes the mutex.   *)
LEMMA EnterRefines ==
  ASSUME IInv, up, NEW c \in Clients, NEW k \in Calls, Enter(c, k)
  PROVE  Abstract!Next
<1>1. Mem = Data /\ mutex = None
  BY DEF Enter, Mem
<1>2. CASE Valid(k)
  <2>1. mutex' = c /\ before' = Data /\ last' = None /\ file' = file /\ up'
    BY <1>2 DEF Enter
  <2>2. Mem' = Mem
    BY <1>1, <2>1 DEF Mem
  <2> QED
    BY <2>1, <2>2 DEF Abstract!Next, Abstract!Busy
<1>3. CASE ~Valid(k)
  <2>1. last' = [call |-> k, res |-> "refused"] /\ UNCHANGED <<up, file, Data, mutex, before>>
    BY <1>3 DEF Enter, Return
  <2>2. Mem' = Mem
    BY <2>1 DEF Mem
  <2>3. Abstract!Refuse(k)
    BY <1>1, <1>3, <2>1, <2>2, AcceptsNow DEF Abstract!Refuse
  <2> QED
    BY <2>3 DEF Abstract!Next
<1> QED
  BY <1>2, <1>3

LEMMA HolderKnows ==
  ASSUME IInv, NEW c \in Clients, phase[c] \in {"store", "write"}
  PROVE  /\ mutex = c /\ up /\ Mem = before /\ call[c] \in Calls
         /\ ValidBefore(call[c])
         /\ Data = [i \in IDs |-> IF i \in Names(call[c]) THEN Given(call[c], i) ELSE before[i]]
<1>1. mutex = c /\ mutex # None
  BY DEF IInv, MutexHeld
<1>2. up
  BY <1>1 DEF IInv, Down
<1> QED
  BY <1>1, <1>2 DEF IInv, Working, CallKnown, Mem

LEMMA StoreFailedRefines ==
  ASSUME IInv, NEW c \in Clients, phase[c] \in {"store", "write"}, StoreFailed(c), UNCHANGED file
  PROVE  Abstract!Next
<1> DEFINE k == call[c]
<1>1. /\ mutex = c /\ up /\ Mem = before /\ k \in Calls /\ ValidBefore(k)
      /\ Data = [i \in IDs |-> IF i \in Names(k) THEN Given(k, i) ELSE before[i]]
  BY HolderKnows
<1>2. /\ Data' = Undone(k) /\ last' = [call |-> k, res |-> "failed"] /\ mutex' = None /\ up' = up
  BY DEF StoreFailed, Return, Release
<1>3. Mem' = Undone(k)
  BY <1>1, <1>2 DEF Mem
<1>4. Data \in Collection /\ before \in Collection
  BY DEF IInv, TypeOK
<1>5. Undone(k) \in [IDs -> Values \cup {Absent, Zero}]
  BY <1>1, <1>4, UndoneType DEF Collection
<1> HIDE DEF k
<1>6. /\ \A i \in IDs : i \notin Names(k) \cup {ZeroID} => Undone(k)[i] = before[i]
      /\ \A i \in IDs : RestoredBefore(k, i) => Undone(k)[i] = before[i]
      /\ k.op \in {"Create", "Update"} => Undone(k) = before
      /\ (\A i \in Names(k) : RestoredBefore(k, i)
                              /\ (k.op = "DeleteByIDs" => ~Repeats(k, i))) => Undone(k) = before
  BY <1>1, <1>4, UndoneRestores
<1>7. Abstract!Fail(k)
  BY <1>1, <1>2, <1>3, <1>5, <1>6, AcceptsBefore DEF Abstract!Fail, Abstract!Untouched,
     Abstract!Restored, Abstract!AllRestored, RestoredBefore
<1> QED
  BY <1>1, <1>7 DEF Abstract!Next

LEMMA WriteRefines ==
  ASSUME IInv, NEW c \in Clients, Write(c)
  PROVE  Abstract!Next
<1> DEFINE k == call[c]
<1>1. /\ up /\ Mem = before /\ k \in Calls /\ ValidBefore(k)
      /\ Data = [i \in IDs |-> IF i \in Names(k) THEN Given(k, i) ELSE before[i]]
  BY HolderKnows DEF Write
<1>2. /\ file' = Data /\ Data' = Data /\ mutex' = None /\ up' = up
      /\ last' = [call |-> k, res |-> "ok"]
  BY DEF Write, Release, Return
<1>3. Mem' = Data
  BY <1>1, <1>2 DEF Mem
<1> HIDE DEF k
<1>4. Abstract!Succeed(k)
  BY <1>1, <1>2, <1>3, AcceptsBefore DEF Abstract!Succeed
<1> QED
  BY <1>1, <1>4 DEF Abstract!Next

LEMMA NextRefines ==
  ASSUME IInv, IInv', [Next]_vars
  PROVE  [Abstract!Next]_(Abstract!storeVars)
<1> USE DEF Abstract!storeVars
<1>1. CASE Crash
  <2>1. Abstract!Restart
    BY <1>1 DEF Crash, Abstract!Restart, Abstract!Empty, Empty, Mem
  <2> QED
    BY <2>1 DEF Abstract!Next
<1>2. CASE Open
  <2>1. Mem' = Mem /\ last' = None /\ file' = file
    BY <1>2 DEF Open, Mem, IInv, Down
  <2> QED
    BY <2>1 DEF Abstract!Next, Abstract!Busy
<1>3. ASSUME NEW c \in Clients, NextID(c)
      PROVE  Abstract!Next
  <2>1. /\ current' \in IDs /\ Mem' = Mem /\ file' = file
        /\ last' = [call |-> [op |-> "NextID", id |-> current'], res |-> "ok"]
    BY <1>3 DEF NextID, Return, Mem, client, IInv, TypeOK
  <2>2. Abstract!NextID(current')
    BY <2>1 DEF Abstract!NextID
  <2> QED
    BY <2>1, <2>2 DEF Abstract!Next
<1>4. ASSUME NEW c \in Clients, AddLookedUp(c)
      PROVE  Abstract!Next
  BY <1>4, EnterRefines DEF AddLookedUp, IInv, CallKnown, Down
<1>5. ASSUME NEW c \in Clients, Store(c)
      PROVE  Abstract!Next
  <2>1. CASE OpenFails(c) \/ WriteFails(c)
    BY <2>1, StoreFailedRefines DEF OpenFails, WriteFails
  <2>2. CASE Truncate(c)
    <3>1. Mem' = Mem
      BY <2>2, HolderKnows DEF Truncate, Mem
    <3> QED
      BY <2>2, <3>1 DEF Truncate, Abstract!Next, Abstract!Busy
  <2>3. CASE Write(c)
    BY <2>3, WriteRefines
  <2> QED
    BY <1>5, <2>1, <2>2, <2>3 DEF Store
<1>6. ASSUME NEW c \in Clients, NEW i \in IDs, FindByID(c, i)
      PROVE  Abstract!Next
  <2>1. /\ Mem = Data /\ Mem' = Mem /\ file' = file
        /\ last' = [call |-> [op |-> "FindByID", id |-> i], res |-> Data[i]]
    BY <1>6 DEF FindByID, May, Return, Mem, memory, client
  <2>2. Abstract!Find(i)
    BY <2>1 DEF Abstract!Find
  <2> QED
    BY <2>2 DEF Abstract!Next
<1>7. ASSUME NEW c \in Clients, All(c)
      PROVE  Abstract!Next
  <2>1. /\ Mem = Data /\ Mem' = Mem /\ file' = file
        /\ last' = [call |-> [op |-> "All"], res |-> Data]
    BY <1>7 DEF All, May, Return, Mem, memory, client
  <2>2. Abstract!All
    BY <2>1 DEF Abstract!All
  <2> QED
    BY <2>2 DEF Abstract!Next
<1>8. ASSUME NEW c \in Clients, LookUp(c)
      PROVE  Abstract!Next
  <2> DEFINE n == seen[c] + 1
             i == call[c].list[n].id
  <2>1. /\ up /\ Mem = Data /\ Mem' = Mem /\ file' = file
        /\ call[c] \in Calls /\ call[c].op = "AddAll"
    BY <1>8 DEF LookUp, memory, Mem, IInv, Down, CallKnown
  <2>2. CASE Data[i] = Absent
    BY <1>8, <2>1, <2>2 DEF LookUp, Abstract!Next, Abstract!Busy
  <2>3. CASE Data[i] # Absent
    <3>1. n \in DOMAIN call[c].list
      BY <1>8, <2>1, CallType DEF LookUp, IInv, TypeOK
    <3>2. i \in IDs /\ n \in At(call[c], i)
      BY <2>1, <3>1, CallType DEF At
    <3>3. i \in Names(call[c])
      BY <2>1, <3>2 DEF Names
    <3>4. last' = [call |-> call[c], res |-> "refused"]
      BY <1>8, <2>3 DEF LookUp, Return
    <3>5. Abstract!Refuse(call[c])
      BY <2>1, <2>3, <3>3, <3>4 DEF Abstract!Refuse
    <3> QED
      BY <2>1, <3>5 DEF Abstract!Next
  <2> QED
    BY <2>2, <2>3
<1>9. ASSUME NEW c \in Clients, NEW k \in Calls, Call(c, k)
      PROVE  Abstract!Next
  BY <1>9, EnterRefines DEF Call, May
<1>10. ASSUME NEW c \in Clients, NEW k \in Calls, CallAddAll(c, k)
      PROVE  Abstract!Next
  <2>1. Mem' = Mem /\ last' = None /\ file' = file
    BY <1>10 DEF CallAddAll, memory, Mem
  <2> QED
    BY <2>1 DEF Abstract!Next, Abstract!Busy
<1>11. CASE UNCHANGED vars
  BY <1>11 DEF vars, memory, Mem
<1> QED
  BY <1>1, <1>2, <1>3, <1>4, <1>5, <1>6, <1>8, <1>9, <1>10, <1>11, <1>7 DEF Next

(* MemoryRepository implements EntityStore, also for lists that repeat an  *)
(* ID: its methods are atomic, refuse what they should, disturb no more    *)
(* than EntityStore says when the store fails, and what they have          *)
(* acknowledged is what a restart finds.                                   *)
THEOREM Refinement == Spec => EntityStoreSpec
<1>1. Init => Abstract!Init
  BY InitRefines
<1>2. IInv /\ IInv' /\ [Next]_vars => [Abstract!Next]_(Abstract!storeVars)
  BY NextRefines
<1> QED
  BY <1>1, <1>2, InvariantHolds, PTL DEF Spec, EntityStoreSpec, Abstract!Spec

================================================================================
