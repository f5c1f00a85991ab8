SPECIFICATION Spec
CONSTANTS
    Inputs <- SomeInputs
    MaxPointers = 1
CHECK_DEADLOCK FALSE
INVARIANT WorkBounded
INVARIANT Advances
INVARIANT ReadsTheName
