----------------------------- MODULE MCMemoryQueue -----------------------------
(***************************************************************************)
(* Instances of MemoryQueue for TLC.                                       *)
(***************************************************************************)
EXTENDS MemoryQueue

CONSTANTS good, other, poison, typeA, typeB

\* Two jobs of one type, one of which always fails, and a job of another type.
TwoTypes == [j \in {good, other, poison} |-> IF j = other THEN typeB ELSE typeA]

================================================================================
