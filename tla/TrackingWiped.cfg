SPECIFICATION Spec
CONSTANTS
    Main = main
    Jobs = {j1, j2}
    FlushThreshold = 2
    FlushInterval = 3
    Retention = 3
    MaxRecords = 0
    Dispositions = {"forwarded"}
    Requests = {"wipe"}
    Signals = {}
    MaxTime = 3
    MaxFaults = 0
    MaxKills = 0
INVARIANT WipeIsFinal
