\* Two callers and the JobFuncs race with the timers, the pools and the life probes
\* of up to three starts; every external call may fail.
CONSTANTS
  Callers = {c1, c2}
  Workers = {w1}
  JobTypes = {jobA}
  Specs = {broken}
  BadSpecs = {broken}
  Faults = {"load", "pool", "unregister"}
  Reentrant = TRUE
  MaxStarts = 3
  NoThread = NoThread
SPECIFICATION Spec
SYMMETRY ThreadSymmetry
INVARIANTS MutexHeld SingleStart Quiescent
CHECK_DEADLOCK FALSE
