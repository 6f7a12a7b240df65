---------------------------- MODULE UnitsOfWork ----------------------------
(***************************************************************************)
(* What use cases with a transaction and a repository in Postgres promise  *)
(* together (app/tx.decorator.go, arepo/postgres.repository.go): the calls *)
(* of a use case take effect together when it returns without an error, or *)
(* not at all; a call outside of a use case is a unit of its own. Two      *)
(* methods break that promise and are named here: UpdateAll and AllIter    *)
(* commit what their use case has done so far, which then can only fail.   *)
(* An error of COMMIT leaves open whether the unit has taken effect.       *)
(***************************************************************************)
EXTENDS FiniteSets

CONSTANTS
  IDs, Clients,
  Absent,   \* no entity
  Same,     \* not changed by the unit
  Doomed,   \* the work of a unit that can only fail
  None

VARIABLES
  rows,  \* the entities that everybody sees
  work,  \* by client: what its use case has changed so far, Doomed, or None
  last   \* what has just returned, its result, and what it has read

unitVars == <<rows, work, last>>

Nothing == [i \in IDs |-> Same]

Init ==
  /\ rows = [i \in IDs |-> Absent]
  /\ work = [c \in Clients |-> None]
  /\ last = None

Overlay(base, change) == [i \in IDs |-> IF change[i] = Same THEN base[i] ELSE change[i]]

Open(c) == work[c] \notin {None, Doomed}

Returned(c, name, res) ==
  last' # None /\ last'.by = c /\ last'.name = name /\ last'.res = res

Only(c) == \A d \in Clients \ {c} : work'[d] = work[d]

\* What a writing call gives the entities it names. Deletions and Update only
\* reach entities that the client can see.
Value(c, name) == IF name \in {"Delete", "DeleteByIDs", "DeleteAll"} THEN Absent ELSE c

Writes(c, name, ids, base, changed) ==
  \A i \in IDs :
    changed[i] = base[i] \/ (i \in ids /\ changed[i] = Value(c, name))

\* What a call has certainly done when it returns without an error.
Done(c, name, ids, base, changed) ==
  /\ name \in {"Create", "Update", "Save", "AddAll", "UpdateAll"} =>
       \A i \in ids : changed[i] = c
  /\ name \in {"Create", "AddAll"} => \A i \in ids : base[i] = Absent
  /\ name = "Update" => \A i \in ids : base[i] # Absent

Begin(c) ==
  /\ work[c] = None
  /\ work' = [work EXCEPT ![c] = Nothing]
  /\ last' = None
  /\ UNCHANGED rows

\* A call in a use case has succeeded.
CallInside(c) ==
  /\ Open(c)
  /\ last' # None /\ Returned(c, last'.name, "ok") /\ last'.name # "unit"
  /\ Open(c)' /\ Only(c)
  /\ LET seen == Overlay(rows, work[c])
         sees == Overlay(rows, work'[c])
     IN  Writes(c, last'.name, last'.arg, seen, sees) /\ Done(c, last'.name, last'.arg, seen, sees)
  /\ UNCHANGED rows

\* One outside has.
CallOutside(c) ==
  /\ work[c] = None
  /\ last' # None /\ Returned(c, last'.name, "ok") /\ last'.name # "unit"
  /\ Writes(c, last'.name, last'.arg, rows, rows') /\ Done(c, last'.name, last'.arg, rows, rows')
  /\ UNCHANGED work

\* To delete an entity without an ID succeeds, also when nothing else can.
DeleteNothing(c) ==
  /\ Returned(c, "Delete", "ok") /\ last'.arg \cap IDs = {}
  /\ UNCHANGED <<rows, work>>

\* A call was refused or has failed, and the use case with it or not.
CallFails(c) ==
  /\ \E res \in {"refused", "failed"} : Returned(c, last'.name, res)
  /\ last'.name # "unit"
  /\ work'[c] \in {work[c], IF work[c] = None THEN None ELSE Doomed} /\ Only(c)
  /\ UNCHANGED rows

\* What reads sees the changes of its own use case. FindByID, AllByIDs and ContainsIDs
\* answer for all entities they were asked for or refuse, and they refuse exactly if one
\* of them is not there or the list names one twice (nothing is said of an empty one).
\* A query without conditions ignores its groups.
Read(c) ==
  /\ \E name \in {"FindByID", "AllByIDs", "ContainsIDs", "AllBy", "FindBy"},
        res \in {"ok", "refused"} : Returned(c, name, res)
  /\ last'.arg # {} => work[c] # Doomed
  /\ LET sees == IF Open(c) THEN Overlay(rows, work[c]) ELSE rows
         found == {i \in IDs : last'.val[i] # Absent}
     IN  /\ \A i \in found : last'.val[i] = sees[i]
         /\ IF last'.name \in {"AllBy", "FindBy"}
            THEN /\ last'.arg.is # {} =>
                      found = {i \in IDs : /\ sees[i] # Absent
                                           /\ \A v \in last'.arg.is : sees[i] = v
                                           /\ \A g \in last'.arg.groups : sees[i] \in g}
                 /\ (last'.name = "FindBy" /\ last'.res = "ok") => \E i \in IDs : found = {i}
            ELSE /\ found \subseteq last'.arg
                 /\ last'.arg # {} =>
                      (last'.res = "ok" <=> /\ \A i \in last'.arg : i \in IDs /\ sees[i] # Absent
                                            /\ last'.len = Cardinality(last'.arg))
                 /\ last'.res = "ok" => found = last'.arg
  /\ UNCHANGED <<rows, work>>

\* All does not look into its use case.
All(c) ==
  /\ Returned(c, "All", "ok")
  /\ last'.val = rows
  /\ UNCHANGED <<rows, work>>

\* The two methods that commit the work of their use case.
Early(c) ==
  /\ Open(c)
  /\ \E name \in {"UpdateAll", "AllIter"}, res \in {"ok", "failed"} : Returned(c, name, res)
  /\ rows' = Overlay(rows, work[c]) \/ (last'.res = "failed" /\ rows' = rows)
  /\ last'.name = "UpdateAll" => \A i \in last'.arg : work[c][i] = c
  /\ work' = [work EXCEPT ![c] = Doomed]

\* Inside of UpdateAll.
Progress(c) ==
  /\ Open(c) /\ Open(c)' /\ Only(c)
  /\ Writes(c, "UpdateAll", IDs, Overlay(rows, work[c]), Overlay(rows, work'[c]))
  /\ last' = None
  /\ UNCHANGED rows

Commit(c) ==
  /\ Open(c)
  /\ Returned(c, "unit", "ok")
  /\ rows' = Overlay(rows, work[c])
  /\ work' = [work EXCEPT ![c] = None]

\* The use case fails, or the answer to COMMIT is lost.
Fail(c) ==
  /\ Returned(c, "unit", "failed")
  /\ rows' = rows \/ (Open(c) /\ rows' = Overlay(rows, work[c]))
  /\ work' = [work EXCEPT ![c] = None]

\* A call outside of a use case whose COMMIT is not answered.
CallUnknown(c) ==
  /\ work[c] = None
  /\ Returned(c, "UpdateAll", "failed")
  /\ \A i \in IDs : rows'[i] = IF i \in last'.arg THEN c ELSE rows[i]
  /\ UNCHANGED work

\* A use case that panics leaves nothing.
Panic(c) ==
  /\ work' = [work EXCEPT ![c] = None]
  /\ last' = None
  /\ UNCHANGED rows

Busy == last' = None /\ UNCHANGED <<rows, work>>

Next ==
  \/ Busy
  \/ \E c \in Clients :
       \/ Begin(c) \/ CallInside(c) \/ CallOutside(c) \/ CallFails(c) \/ CallUnknown(c)
       \/ DeleteNothing(c)
       \/ Read(c) \/ All(c)
       \/ Early(c) \/ Progress(c) \/ Commit(c) \/ Fail(c) \/ Panic(c)

Spec == Init /\ [][Next]_unitVars
=============================================================================
