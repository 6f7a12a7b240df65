------------------------------ MODULE MCLogging ------------------------------
(***************************************************************************)
(* Two goroutines, one of them for a user, with a logger and one that is   *)
(* derived from it at some moment.                                         *)
(***************************************************************************)
EXTENDS Logging

CONSTANTS t1, t2, root, derived

MCThreads == {t1, t2}
MCUsers == {t1}
MCLoggers == {root, derived}
MCLevels == {0, 1}

\* The two loggers of the project: that of NewDevelopment with a database, and one
\* without settings and batches.
MCInit == Init /\ async = usesSettings /\ level = 1
MCSpec == MCInit /\ [][Next]_vars /\ Fairness
=============================================================================
