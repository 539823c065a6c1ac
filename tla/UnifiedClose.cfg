CONSTANTS
    ZeroCopyMin = 2
    MaxWriteSlices = 2
    Setups <- SilentPeer
    Tasks = {t1, t2}
SYMMETRY AnyTask
SPECIFICATION Spec
INVARIANT CloseTimesOut
CHECK_DEADLOCK FALSE
