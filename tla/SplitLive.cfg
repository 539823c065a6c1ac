CONSTANTS
    Capacity = 1
    MaxInbound = 1
    MaxSends = 2
    MaxCancels = 0
    MaxPings = 0
    Handover <- Fresh
SPECIFICATION FairSpec
INVARIANTS NoDataAfterClose
PROPERTIES CloseEnds TimeoutReported
CHECK_DEADLOCK FALSE
