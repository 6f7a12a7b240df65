------------------------------ MODULE MCJobQueue -------------------------------
(***************************************************************************)
(* Instances of JobQueue for TLC.                                          *)
(***************************************************************************)
EXTENDS JobQueue

\* Every pool knows every job type.
KnowsAll == [w \in Workers |-> Jobs]
\* Pools of an older deployment: the first worker knows no job type.
KnowsSome == [w \in Workers |-> IF w = CHOOSE v \in Workers : TRUE THEN {} ELSE Jobs]

================================================================================
