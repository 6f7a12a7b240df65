SPECIFICATION SettingsSpec
CONSTANTS
  IntKinds = {"int8", "int64"}
  UintKinds = {"uint8", "uint64"}
  Bits <- MCBits
  Keys = {k1, k2}
  Clients = {c1, c2}
  GoValues <- MCGoValues
  Values <- MCValues
  Rounded <- MCRounded
  CutKeys = {k1, k2}
  TxClients = {c2}
  Nobody = Nobody
  c1 = c1
  c2 = c2
INVARIANTS SettingsTypeOK ReadsBack
PROPERTIES RegisterKeeps CallsReturn
CHECK_DEADLOCK FALSE
