SPECIFICATION Spec
CONSTANTS
    Unset = Unset
    Messages <- SomeMessages
    Inputs <- SomeInputs
    Calls = {1, 2}
    DefaultLimit = 2
    MaxLimit = 2
    Sign = 8
    ApiPages = {0, 1, 2, 3, 5, Unset}
    ApiLimits = {0, 3, Unset}
    Opened = 2
    MaxEvents = 2
INVARIANTS
    ReplyExact
    ShownTogether
PROPERTIES
    PagesPartition
    Settles
CHECK_DEADLOCK FALSE
