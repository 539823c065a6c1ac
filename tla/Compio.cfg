CONSTANTS
    Setups <- SomeSetups
    ControlCapacity = 1
    ApplicationCapacity = 1
SPECIFICATION Spec
INVARIANTS WholeFrames DeliveredInOrder HandedOver ClosingBudget TimeoutReleases
PROPERTY ClosingEnds
CHECK_DEADLOCK FALSE
