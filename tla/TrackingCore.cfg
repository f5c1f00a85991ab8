SPECIFICATION Spec
CONSTANTS
    Main = main
    Jobs = {j1, j2}
    FlushThreshold = 2
    FlushInterval = 3
    Retention = 3
    MaxRecords = 1
    Dispositions = {"forwarded"}
    Requests = {"history", "wipe"}
    Signals = {}
    MaxTime = 4
    MaxFaults = 0
    MaxKills = 0
SYMMETRY PoolSymmetry
INVARIANT TypeOK
INVARIANT ExactlyOnce
INVARIANT BufferFresh
INVARIANT HistoryComplete
