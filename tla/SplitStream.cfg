CONSTANTS
    Capacity = 2
    MaxInbound = 1
    MaxSends = 1
    MaxCancels = 1
    MaxPings = 1
    Handover <- AnyHandover
SPECIFICATION Spec
INVARIANTS TypeOK FrameBoundaries CloseAnswered SinkExclusive EofIsThePeers
PROPERTIES FirstCauseWins
CHECK_DEADLOCK FALSE
