CONSTANTS
    Configs <- AllConfigs
    MaxTime = 7
    Far = 20
    MaxQueue = 1
SPECIFICATION Spec
INVARIANTS PongTimeoutJustified IdleTimeoutJustified NoDeadlineMissed
PROPERTIES OnlyItsPongSettlesPing
CHECK_DEADLOCK FALSE
