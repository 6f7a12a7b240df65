---------------------------- MODULE MemoryRepository ----------------------------
(***************************************************************************)
(* MemoryRepository with a JSONStore (arepo/inmemory.repository.go,        *)
(* arepo/json-store.go): entities with an unsigned integer ID in a map,    *)
(* written to a file as a whole by every method that changes it, undone in *)
(* memory when that fails, and read back when the process starts.          *)
(*                                                                         *)
(* A method holds the mutex from its first check to its return, and AddAll *)
(* takes it once for each entity it looks up and once more to save them.   *)
(* A list may repeat an ID with another value, as a slice may.             *)
(***************************************************************************)
EXTENDS Naturals, Sequences, FiniteSetsExt

CONSTANTS
  MaxID,    \* the largest ID; the counter wraps after it
  Values,   \* what the fields of an entity but its ID may hold
  Clients,  \* goroutines that call the repository
  Lists,    \* the lists of entities [id, val] they may be called with
  Uses,     \* the methods each of them calls
  Faults,   \* "open", "write": errors of the store; "crash": the process ends
  Absent,   \* no entity
  Zero,     \* the zero value of the entity type, its ID included
  Broken,   \* a file that is not JSON
  None      \* nobody, no call

ASSUME MaxAssumption == MaxID \in Nat
ASSUME ValuesAssumption ==
  /\ Absent \notin Values /\ Zero \notin Values /\ Absent # Zero
  /\ None \notin Clients
ASSUME ListsAssumption == Lists \subseteq Seq([id : 0 .. MaxID, val : Values])
ASSUME UsesAssumption == Uses \in [Clients -> SUBSET STRING]
ASSUME BrokenAssumption == Broken \notin [0 .. MaxID -> Values \cup {Absent, Zero}]

IDs    == 0 .. MaxID
ZeroID == 0

VARIABLES
  up,       \* the process runs
  Data,     \* repo.Data: the entity under a key
  current,  \* repo.currentIntID
  file,     \* content of the JSON file; a missing file loads as an empty one
  mutex,    \* who holds repo.Mutex
  phase,    \* where a client is in its call
  call,     \* the method it has called and its argument
  seen,     \* AddAll: how many entities of its list it has looked up
  before,   \* Data when the method that works has taken the mutex
  last      \* the call that has just returned, with its result

memory == <<Data, current, file>>
client == <<phase, call, seen>>
vars   == <<up, memory, mutex, client, before, last>>

Collection == [IDs -> Values \cup {Absent, Zero}]
Empty      == [i \in IDs |-> Absent]

Entity(i, v) == [id |-> i, val |-> v]

\* A list of IDs: what a delete leaves under each of them.
Gone(l) == [n \in DOMAIN l |-> Entity(l[n].id, Absent)]

Single == [op : {"Create", "Update", "Save"}, list : {<<Entity(i, v)>> : i \in IDs, v \in Values}]
List   == [op : {"SaveAll", "UpdateAll", "AddAll"}, list : Lists]
Remove == [op : {"Delete"}, list : {<<Entity(i, Absent)>> : i \in IDs}]
            \cup [op : {"DeleteByIDs"}, list : {Gone(l) : l \in Lists}]
            \cup [op : {"DeleteAll"}, list : {<<>>}]
Calls  == Single \cup List \cup Remove

Init ==
  /\ up = TRUE
  /\ Data = Empty /\ file = Empty /\ before = Empty
  /\ current = 0
  /\ mutex = None /\ last = None
  /\ phase = [c \in Clients |-> "idle"]
  /\ call = [c \in Clients |-> None]
  /\ seen = [c \in Clients |-> 0]

-----------------------------------------------------------------------------
(* What a call does to the collection.                                     *)

\* Where the list of a call names an ID, the IDs it names, and what it gives one
\* of them: the last entity of the list counts.
At(k, i)      == {n \in DOMAIN k.list : k.list[n].id = i}
Names(k)      == IF k.op = "DeleteAll" THEN IDs ELSE {i \in IDs : At(k, i) # {}}
Given(k, i)   == IF k.op = "DeleteAll" THEN Absent ELSE k.list[Max(At(k, i))].val
Repeats(k, i) == \E m, n \in At(k, i) : m # n

\* The early returns.
Valid(k) ==
  /\ k.op \notin {"Delete", "DeleteByIDs", "DeleteAll"} => ZeroID \notin Names(k)
  /\ k.op = "Create" => \A i \in Names(k) : Data[i] = Absent
  /\ k.op \in {"Update", "UpdateAll"} => \A i \in Names(k) : Data[i] # Absent

Changed(k) == [i \in IDs |-> IF i \in Names(k) THEN Given(k, i) ELSE Data[i]]

\* oldEntities of the methods with a list: what was under the n-th ID when it was
\* replaced or deleted. UpdateAll looks at all of them before it changes one.
Earlier(k, n) == {m \in At(k, k.list[n].id) : m < n}
Old(k, n) ==
  IF k.op = "UpdateAll" \/ Earlier(k, n) = {} THEN before[k.list[n].id]
  ELSE k.list[Max(Earlier(k, n))].val

\* They are put back in order, each under the ID it carries: the zero value that
\* stands for a missing one ends up under the zero ID.
Back(k, i) == {n \in At(k, i) : Old(k, n) \in Values}
Reinstated(k) ==
  [i \in IDs |-> IF Back(k, i) # {} THEN Old(k, Max(Back(k, i)))
                 ELSE IF i = ZeroID /\ \E n \in DOMAIN k.list : Old(k, n) \notin Values THEN Zero
                 ELSE Data[i]]

\* DeleteAll keeps a copy of the map.
Copied == [i \in IDs |-> IF before[i] \in Values THEN before[i]
                        ELSE IF i = ZeroID /\ \E j \in IDs : before[j] = Zero THEN Zero
                        ELSE Data[i]]

Dropped(k) == [i \in IDs |-> IF i \in Names(k) THEN Absent ELSE Data[i]]

\* What Delete puts back is the zero value if there was nothing.
PutBack(k) == [i \in IDs |-> IF i \in Names(k) /\ before[i] = Absent THEN Zero ELSE before[i]]

\* The undoing after the store has failed. Mutant: Update forgets it.
UndoneNoUpdate(k) ==
  CASE k.op \in {"Create", "Save"} -> Dropped(k)
    [] k.op = "Update" -> Data
    [] k.op = "Delete" -> PutBack(k)
    [] k.op = "DeleteAll" -> Copied
    [] OTHER -> Reinstated(k)
Undone(k) ==
  CASE k.op \in {"Create", "Save"} -> Dropped(k)
    [] k.op = "Update" -> before
    [] k.op = "Delete" -> PutBack(k)
    [] k.op = "DeleteAll" -> Copied
    [] OTHER -> Reinstated(k)

-----------------------------------------------------------------------------
(* The methods.                                                            *)

May(c, method) == up /\ phase[c] = "idle" /\ method \in Uses[c]

Return(k, res) == last' = [call |-> k, res |-> res]

Done(c) ==
  /\ phase' = [phase EXCEPT ![c] = "idle"]
  /\ call' = [call EXCEPT ![c] = None]
  /\ seen' = [seen EXCEPT ![c] = 0]

\* The queries that look for one ID or for several,
FindByID(c, i) ==
  /\ May(c, "FindByID") /\ mutex = None
  /\ Return([op |-> "FindByID", id |-> i], Data[i])
  /\ UNCHANGED <<up, memory, mutex, client, before>>

\* and the ones that go through the whole collection.
All(c) ==
  /\ May(c, "All") /\ mutex = None
  /\ Return([op |-> "All"], Data)
  /\ UNCHANGED <<up, memory, mutex, client, before>>

\* Mutant: the counter does not wrap.
NextIDWide(c) ==
  /\ May(c, "NextID") /\ mutex = None
  /\ current' = current + 1
  /\ Return([op |-> "NextID", id |-> current'], "ok")
  /\ UNCHANGED <<up, Data, file, mutex, client, before>>

NextID(c) ==
  /\ May(c, "NextID") /\ mutex = None
  /\ current' = (current + 1) % (MaxID + 1)
  /\ Return([op |-> "NextID", id |-> current'], "ok")
  /\ UNCHANGED <<up, Data, file, mutex, client, before>>

\* A method takes the mutex, checks its argument and changes the collection.
Enter(c, k) ==
  /\ mutex = None
  /\ IF Valid(k)
     THEN /\ mutex' = c
          /\ before' = Data
          /\ Data' = Changed(k)
          /\ phase' = [phase EXCEPT ![c] = "store"]
          /\ call' = [call EXCEPT ![c] = k]
          /\ seen' = [seen EXCEPT ![c] = 0]
          /\ last' = None
     ELSE /\ Return(k, "refused")
          /\ Done(c)
          /\ UNCHANGED <<Data, mutex, before>>
  /\ UNCHANGED <<up, current, file>>

Call(c, k) == May(c, k.op) /\ k.op # "AddAll" /\ Enter(c, k)

\* AddAll looks up one ID after the other,
CallAddAll(c, k) ==
  /\ May(c, "AddAll") /\ k.op = "AddAll"
  /\ phase' = [phase EXCEPT ![c] = "add"]
  /\ call' = [call EXCEPT ![c] = k]
  /\ seen' = [seen EXCEPT ![c] = 0]
  /\ last' = None
  /\ UNCHANGED <<up, memory, mutex, before>>

LookUp(c) ==
  /\ phase[c] = "add" /\ seen[c] < Len(call[c].list) /\ mutex = None
  /\ IF Data[call[c].list[seen[c] + 1].id] # Absent
     THEN Return(call[c], "refused") /\ Done(c)
     ELSE /\ seen' = [seen EXCEPT ![c] = @ + 1]
          /\ last' = None
          /\ UNCHANGED <<phase, call>>
  /\ UNCHANGED <<up, memory, mutex, before>>

\* and then calls SaveAll.
AddLookedUp(c) ==
  /\ phase[c] = "add" /\ seen[c] = Len(call[c].list)
  /\ Enter(c, call[c])

-----------------------------------------------------------------------------
(* JSONStore.Store and what the method makes of its result.                *)

\* Mutant: a method returns early without unlocking.
ReleaseNot == UNCHANGED mutex
Release == mutex' = None

StoreFailed(c) ==
  /\ Data' = Undone(call[c])
  /\ Return(call[c], "failed")
  /\ Done(c)
  /\ Release
  /\ before' = Empty
  /\ UNCHANGED <<up, current>>

\* os.Create fails,
OpenFails(c) ==
  /\ phase[c] = "store" /\ "open" \in Faults
  /\ StoreFailed(c)
  /\ UNCHANGED file

\* or truncates the file,
Truncate(c) ==
  /\ phase[c] = "store"
  /\ phase' = [phase EXCEPT ![c] = "write"]
  /\ file' = Broken
  /\ last' = None
  /\ UNCHANGED <<up, Data, current, mutex, call, seen, before>>

\* which is then filled, or not: MarshalIndent or Copy fails.
WriteFails(c) ==
  /\ phase[c] = "write" /\ "write" \in Faults
  /\ StoreFailed(c)
  /\ UNCHANGED file

Write(c) ==
  /\ phase[c] = "write"
  /\ file' = Data
  /\ Return(call[c], "ok")
  /\ Done(c)
  /\ Release
  /\ before' = Empty
  /\ UNCHANGED <<up, Data, current>>

Crash ==
  /\ up /\ "crash" \in Faults
  /\ up' = FALSE
  /\ Data' = Empty /\ current' = 0 /\ before' = Empty
  /\ mutex' = None /\ last' = None
  /\ phase' = [c \in Clients |-> "idle"]
  /\ call' = [c \in Clients |-> None]
  /\ seen' = [c \in Clients |-> 0]
  /\ UNCHANGED file

\* NewMemoryRepository: it panics if the file cannot be decoded.
Open ==
  /\ ~up /\ file # Broken
  /\ up' = TRUE
  /\ Data' = file
  /\ last' = None
  /\ UNCHANGED <<current, file, mutex, client, before>>

Store(c) == OpenFails(c) \/ Truncate(c) \/ WriteFails(c) \/ Write(c)

Next ==
  \/ Crash \/ Open
  \/ \E c \in Clients :
       \/ All(c) \/ NextID(c) \/ LookUp(c) \/ AddLookedUp(c) \/ Store(c)
       \/ \E i \in IDs : FindByID(c, i)
       \/ \E k \in Calls : Call(c, k) \/ CallAddAll(c, k)

Spec == Init /\ [][Next]_vars

-----------------------------------------------------------------------------
(* Properties.                                                             *)

TypeOK ==
  /\ up \in BOOLEAN
  /\ Data \in Collection /\ before \in Collection /\ file \in Collection \cup {Broken}
  /\ current \in IDs
  /\ mutex \in Clients \cup {None}
  /\ phase \in [Clients -> {"idle", "add", "store", "write"}]
  /\ call \in [Clients -> Calls \cup {None}]
  /\ seen \in [Clients -> Nat]

(* What the process can see: the methods lock it out while one of them     *)
(* works, and a process that is down will find the file.                   *)
Mem == IF ~up THEN IF file = Broken THEN Empty ELSE file
       ELSE IF mutex = None THEN Data ELSE before

Abstract == INSTANCE EntityStore WITH mem <- Mem, kept <- file

(* Every method of MemoryRepository takes effect at once or not at all,    *)
(* nobody reads a change that is undone later, a restart finds what the    *)
(* last method that succeeded has left, or nothing it can open, and a      *)
(* failed method disturbs at most what EntityStore says.                   *)
EntityStoreSpec == Abstract!Spec

(* The mutex belongs to the one client whose method works with the         *)
(* collection, and every return gives it back, whatever the store says.    *)
MutexHeld ==
  \A c \in Clients : mutex = c <=> phase[c] \in {"store", "write"}

(* An entity is still there, as it was, after a Save of it whose store has *)
(* failed: "save should not happen if store fails" (inmemory.repository_test.go). *)
FailedSaveChangesNothing ==
  [][\A c \in Clients : (call[c] # None /\ call[c].op = "Save" /\ (OpenFails(c) \/ WriteFails(c)))
       => Data' = before]_vars

================================================================================
