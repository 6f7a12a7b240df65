CONSTANTS
  good = good
  other = other
  poison = poison
  typeA = typeA
  typeB = typeB
  Jobs = {good, other, poison}
  Types = {typeA, typeB}
  TypeOf <- TwoTypes
  Poison = {poison}
  Gors = {g1, g2}
  MaxBatch = 2
  Faults = {"panic"}
  NoJob = NoJob
SPECIFICATION FairSpec
INVARIANTS TypeOK Conserved
PROPERTIES JobsFinish StopsInTheEnd
CHECK_DEADLOCK FALSE
