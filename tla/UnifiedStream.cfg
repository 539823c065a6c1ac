CONSTANTS
    ZeroCopyMin = 2
    MaxWriteSlices = 2
    Setups <- SomeSetups
    Tasks = {t1, t2}
SYMMETRY AnyTask
SPECIFICATION Spec
INVARIANTS NoLostWakeup OutputOrder DeliveredInOrder PingsAnswered
CHECK_DEADLOCK FALSE
