SPECIFICATION Spec
CONSTANTS
    Main = main
    Jobs = {j1}
    FlushThreshold = 2
    FlushInterval = 2
    Retention = 9
    MaxRecords = 1
    Dispositions = {"forwarded"}
    Requests = {"history"}
    Signals = {}
    MaxTime = 6
    MaxFaults = 0
    MaxKills = 0
INVARIANT DatabaseBounded
