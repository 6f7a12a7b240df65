-------------------------- MODULE MCMemoryRepository ---------------------------
(***************************************************************************)
(* Instances of MemoryRepository for TLC.                                  *)
(***************************************************************************)
EXTENDS MemoryRepository

CONSTANTS adder, writer, v1, v2

\* One goroutine reads, draws IDs and adds lists, the other one changes entities.
UsesApart ==
  [c \in {adder, writer} |->
     IF c = adder THEN {"FindByID", "All", "NextID", "AddAll"}
     ELSE {"Create", "Update", "Save", "Delete", "SaveAll", "UpdateAll", "DeleteByIDs", "DeleteAll"}]

\* Entities with and without an ID, and one that is there twice.
SomeLists ==
  {<<Entity(1, v1), Entity(2, v1)>>, <<Entity(0, v1), Entity(2, v1)>>,
   <<Entity(1, v1), Entity(1, v2)>>}

================================================================================
