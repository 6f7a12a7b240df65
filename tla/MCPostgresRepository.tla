------------------------ MODULE MCPostgresRepository ------------------------
(* Instances of PostgresRepository: one client has the methods with several *)
(* statements, the other one those with one; lists of no and both entities,  *)
(* one that names an entity twice and one with an entity without an ID.     *)
EXTENDS PostgresRepository, TLC

CONSTANTS i1, i2, c1, c2

MCSingles == {{i1}, {ZeroID}}
MCLists == {<<>>, <<i1, i2>>, <<i1, ZeroID>>, <<i2, i2>>}
MCQueries == {[is |-> {c1}, groups |-> {}], [is |-> {}, groups |-> {{c1}}],
              [is |-> {c1}, groups |-> {{c2}, {c1, c2}}]}
MCInside  == c1 :> {"Save", "AddAll", "UpdateAll", "AllIter", "FindByID", "AllBy"} @@ c2 :> {"Update", "Delete", "All", "SaveAll"}
MCOutside == c1 :> {"AllIter"} @@ c2 :> {"Create", "AddAll", "DeleteByIDs", "UpdateAll", "DeleteAll", "AllByIDs", "ContainsIDs", "FindBy"}
=============================================================================
