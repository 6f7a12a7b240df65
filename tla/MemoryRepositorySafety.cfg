CONSTANTS
  MaxID = 2
  v1 = v1
  v2 = v2
  Lists <- SomeLists
  Values = {v1, v2}
  adder = adder
  writer = writer
  Clients = {adder, writer}
  Uses <- UsesApart
  Faults = {"open", "write", "crash"}
  Absent = Absent
  Zero = Zero
  Broken = Broken
  None = None
SPECIFICATION Spec
INVARIANTS TypeOK
PROPERTIES EntityStoreSpec
CHECK_DEADLOCK FALSE
