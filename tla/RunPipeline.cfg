SPECIFICATION Spec
CONSTANTS
  Tabs = {t1}
  MaxChanges = 2
  Faults = {"watch", "build", "tidy", "start", "sigterm", "kill", "browser"}
INVARIANTS OneApp ToldTabsCurrent CleanExit
PROPERTIES ChangesBuilt ShutdownEnds
CHECK_DEADLOCK FALSE
