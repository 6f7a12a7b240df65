----------------------------- MODULE MCJobsHandler -----------------------------
(* Instances of JobsHandler for TLC.                                        *)
EXTENDS JobsHandler, TLC

\* Callers and workers are interchangeable; used by safety runs only.
ThreadSymmetry == Permutations(Callers) \cup Permutations(Workers)

================================================================================
