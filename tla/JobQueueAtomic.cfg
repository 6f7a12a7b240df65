\* The refinement of AtomicJobs and its progress, for JobFuncs that neither panic
\* nor hide a failed statement.
CONSTANTS
  Jobs = {jobA, jobB}
  Workers = {w1, w2}
  Clients = {client}
  Knows <- KnowsAll
  BadArgs = {}
  Garbled = {}
  Behaviours = {}
  MaxErrors = 2
  MaxLosses = 1
  NoJob = NoJob
SPECIFICATION FairSpec
PROPERTIES AtomicSpec JobsFinish
CHECK_DEADLOCK FALSE
