SPECIFICATION MCSpec
CONSTANTS
    t1 = t1
    t2 = t2
    root = root
    derived = derived
    None = None
    Torn = Torn
    Threads <- MCThreads
    Users <- MCUsers
    Loggers <- MCLoggers
    Root = root
    Levels <- MCLevels
    ChanCap = 1
    MaxBatch = 2
    MaxRecords = 2
    MaxEvents = 1
INVARIANTS TypeOK RowsHonest LokiKeeps
PROPERTIES RecordsArrive
CHECK_DEADLOCK FALSE
