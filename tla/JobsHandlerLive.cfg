\* Liveness: one caller that races with the timers and a running job.
CONSTANTS
  Callers = {c1}
  Workers = {w1}
  JobTypes = {jobA}
  Specs = {hourly}
  BadSpecs = {}
  Faults = {}
  Reentrant = FALSE
  MaxStarts = 2
  NoThread = NoThread
SPECIFICATION FairSpec
PROPERTIES StartHappens CallsReturn ProbesStop
CHECK_DEADLOCK FALSE
