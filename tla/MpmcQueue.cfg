CONSTANTS
    N = 2
    Modulus = 8
    Start = 7
    Values = {a, b}
    Producers = {p1, p2}
    Consumers = {c1, c2}
    MaxPush = 3
    MaxPop = 3
SPECIFICATION FairSpec
INVARIANTS SlotsExclusive
PROPERTIES ImplementsFifo CallsEnd
CHECK_DEADLOCK FALSE
