------------------------------ MODULE EntityStore ------------------------------
(***************************************************************************)
(* What a repository of entities with a store promises (arepo/repository.go *)
(* and the tests "With Store" of arepo/inmemory.repository_test.go): each  *)
(* call takes effect at once or not at all, a call that succeeded survives *)
(* a restart, and a call whose store fails changes nothing. The exceptions *)
(* are part of the promise, as the tests leave them open. A failed call    *)
(* may disturb an entity that it names and that was not there, or that     *)
(* Save was to replace, or that the list of SaveAll and AddAll repeats; a  *)
(* failed call with a list may leave a zero value under the zero ID if an  *)
(* entity of the list was not there or is repeated. Locks, files and       *)
(* undoing are hidden; module MemoryRepository has them.                   *)
(***************************************************************************)
EXTENDS Naturals

CONSTANTS
  IDs, ZeroID,
  Values,        \* what an entity holds,
  Absent, Zero,  \* no entity, and the zero value of its type
  Calls,         \* [op, list]: the method and its argument,
  Names(_),      \* the IDs a call names,
  Given(_, _),   \* what it gives an entity it names,
  Repeats(_, _), \* whether its list names an ID more than once
  Broken,        \* what was kept cannot be read
  None

VARIABLES
  mem,   \* the entity with an ID, or Absent
  kept,  \* what a restart finds, or Broken
  last   \* the call that has just returned and its result, or None

storeVars == <<mem, kept, last>>

Empty == [i \in IDs |-> Absent]

Init == mem = Empty /\ kept = Empty /\ last = None

Return(k, res) == last' = [call |-> k, res |-> res]

Deletes == {"Delete", "DeleteByIDs", "DeleteAll"}

\* When a call is legal.
Accepts(k) ==
  /\ k.op \notin Deletes => ZeroID \notin Names(k)
  /\ k.op = "Create" => \A i \in Names(k) : mem[i] = Absent
  /\ k.op \in {"Update", "UpdateAll"} => \A i \in Names(k) : mem[i] # Absent

Succeed(k) ==
  /\ Return(k, "ok")
  /\ Accepts(k)
  /\ mem' = [i \in IDs |-> IF i \in Names(k) THEN Given(k, i) ELSE mem[i]]
  /\ kept' = mem'

Refuse(k) ==
  /\ Return(k, "refused")
  /\ ~Accepts(k) \/ (k.op = "AddAll" /\ \E i \in Names(k) : mem[i] # Absent)
  /\ UNCHANGED <<mem, kept>>

\* What a call whose store fails leaves alone: entities it does not name, what
\* one of its entities was before, and everything.
Untouched(k, i) == i \notin Names(k) \cup {ZeroID}
Restored(k, i) ==
  /\ i \in Names(k) /\ mem[i] \in Values /\ k.op # "Save"
  /\ k.op \in {"SaveAll", "AddAll"} => ~Repeats(k, i)
AllRestored(k) ==
  \/ k.op \in {"Create", "Update"}
  \/ \A i \in Names(k) :
       Restored(k, i) /\ (k.op = "DeleteByIDs" => ~Repeats(k, i))

\* The store fails.
Fail(k) ==
  /\ Return(k, "failed")
  /\ Accepts(k)
  /\ mem' \in [IDs -> Values \cup {Absent, Zero}]
  /\ \A i \in IDs : Untouched(k, i) \/ Restored(k, i) => mem'[i] = mem[i]
  /\ AllRestored(k) => mem' = mem
  /\ kept' \in {kept, Broken}

Find(i) ==
  /\ Return([op |-> "FindByID", id |-> i], mem[i])
  /\ UNCHANGED <<mem, kept>>

All ==
  /\ Return([op |-> "All"], mem)
  /\ UNCHANGED <<mem, kept>>

NextID(i) ==
  /\ Return([op |-> "NextID", id |-> i], "ok")
  /\ UNCHANGED <<mem, kept>>

\* A call is under way.
Busy ==
  /\ last' = None
  /\ kept' \in {kept, Broken}
  /\ UNCHANGED mem

\* The process ends; the next one finds what was kept, or does not start.
Restart ==
  /\ mem' = (IF kept = Broken THEN Empty ELSE kept)
  /\ last' = None
  /\ UNCHANGED kept

Next ==
  \/ Busy \/ Restart \/ All
  \/ \E i \in IDs : Find(i) \/ NextID(i)
  \/ \E k \in Calls : Succeed(k) \/ Refuse(k) \/ Fail(k)

Spec == Init /\ [][Next]_storeVars

================================================================================
