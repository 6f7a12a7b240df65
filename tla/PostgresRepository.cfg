SPECIFICATION Spec
CONSTANTS
  i1 = i1
  i2 = i2
  c1 = c1
  c2 = c2
  IDs = {i1, i2}
  ZeroID = ZeroID
  Clients = {c1, c2}
  Queries <- MCQueries
  Singles <- MCSingles
  Lists <- MCLists
  Inside <- MCInside
  Outside <- MCOutside
  MaxCalls = 2
  MaxConns = 3
  Faults = {"begin", "statement", "commit", "context"}
  Absent = Absent
  Same = Same
  Doomed = Doomed
  None = None
INVARIANTS TypeOK PoolSuffices
PROPERTIES UnitsSpec
CHECK_DEADLOCK FALSE
