CONSTANTS
    Capacity = 2
    MaxInbound = 1
    MaxSends = 1
    MaxCancels = 0
    MaxPings = 0
    Handover <- Fresh
SPECIFICATION Spec
INVARIANTS NoPanic
CHECK_DEADLOCK FALSE
