SPECIFICATION Spec
CONSTANTS
    Main = main
    Jobs = {j1}
    FlushThreshold = 2
    FlushInterval = 2
    Retention = 1
    MaxRecords = 1
    Dispositions = {"forwarded", "partially_forwarded", "dropped"}
    Requests = {"history", "reset", "wipe"}
    Signals = {"SIGINT", "SIGKILL"}
    MaxTime = 3
    MaxFaults = 1
    MaxKills = 1
INVARIANT StatsBalanced
INVARIANT WholeMessages
PROPERTY ImplementsLog
