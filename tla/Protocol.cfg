CONSTANTS
    Small = 3
    Medium = 4
    KeyLen = 2
    Scripts <- AnyScript
    Expands <- Inflated
    MaxFrame = 5
    SplitMaxFrame = 1
    MaxMessage = 5
    Setups <- Endpoints
SPECIFICATION Spec
INVARIANTS FragmentsExact TextValidated OnlyBadInputFails CloseStates
CHECK_DEADLOCK FALSE
