SPECIFICATION FairSpec
CONSTANTS
    Main = main
    Jobs = {j1, j2}
    FlushThreshold = 2
    FlushInterval = 1
    Retention = 2
    MaxRecords = 1
    Dispositions = {"forwarded"}
    Requests = {"reset"}
    Signals = {"SIGINT"}
    MaxTime = 3
    MaxFaults = 0
    MaxKills = 0
INVARIANT CappedWhenQuiet
PROPERTY BatchLands
PROPERTY ShutdownCompletes
