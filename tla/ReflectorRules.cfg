SPECIFICATION Spec
CONSTANTS
    LowerCase <- SmallLetters
    Cased <- CasedLetters
    Ignorable <- IgnorableMarks
    Interfaces = {"lan", "iot", "guest"}
    Files <- AllFiles
    Packets <- AllPackets
    Capacity = 1
    MaxPackets = 1
CHECK_DEADLOCK FALSE
INVARIANT TypeOK
INVARIANT LogMatchesWire
INVARIANT DispositionExact
INVARIANT OnlyGranted
INVARIANT FirstMatchWins
