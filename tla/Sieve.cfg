SPECIFICATION Spec
CONSTANTS
    LowerCase <- SmallLetters
    Cased <- CasedLetters
    Ignorable <- IgnorableMarks
    Interfaces = {"lan", "iot"}
    Files <- OneFile
    Packets <- SomePackets
    Capacity = 2
    MaxPackets = 3
    Main = main
    Jobs = {j1}
    FlushThreshold = 2
    FlushInterval = 3
    Retention = 3
    MaxRecords = 1
    Signals = {"SIGINT", "SIGTERM"}
    MaxTime = 3
    MaxFaults = 0
    MaxKills = 1
CHECK_DEADLOCK FALSE
INVARIANTS
    Conserved
    CountersTrue
    InOrder
PROPERTIES
    LogsPackets
    EveryPacketHandled
