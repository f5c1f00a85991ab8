SPECIFICATION Spec
CONSTANTS
    LowerCase <- SmallLetters
    Cased <- CasedLetters
    Ignorable <- IgnorableMarks
    Wires <- SomeWires
    MaxPointers = 20
CHECK_DEADLOCK FALSE
INVARIANT RewriteFaithful
INVARIANT RewriteStable
INVARIANT FailsOnlyForGrownLabels
