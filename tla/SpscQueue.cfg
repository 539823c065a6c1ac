CONSTANTS
    N = 2
    Modulus = 8
    Values = {a, b, c}
SPECIFICATION Spec
INVARIANTS NoSlotRace
PROPERTIES ImplementsFifo
