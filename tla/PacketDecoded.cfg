SPECIFICATION Spec
CONSTANTS
    LowerCase <- SmallLetters
    Cased <- CasedLetters
    Ignorable <- IgnorableMarks
    Wires <- PointedWires
    MaxPointers = 20
CHECK_DEADLOCK FALSE
INVARIANT DecodedDataSurvives
