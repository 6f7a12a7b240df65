\* Two workers, one of which knows no job type, run a job as it should be, one
\* whose arguments do not fit its JobFunc and one whose arguments nobody can
\* read; JobFuncs may do all they can, connections are lost.
CONSTANTS
  Jobs = {jobA, jobB, jobC}
  Workers = {w1, w2}
  Clients = {client}
  Knows <- KnowsSome
  BadArgs = {jobB, jobC}
  Garbled = {jobC}
  Behaviours = {"panic", "swallow"}
  MaxErrors = 2
  MaxLosses = 2
  NoJob = NoJob
SPECIFICATION Spec
INVARIANTS TypeOK OwnJob HistoryComplete
CHECK_DEADLOCK FALSE
