SPECIFICATION Spec
CONSTANTS
    Null = Null
    a = a
    b = b
    c = c
    OrderIds = {a, b, c}
    Prices = {1, 2}
    Quantities = {0, 1, 2}
    InitialCapacity = 2
    AllocationFails = TRUE
    MaxSequence = 3
    MaxCapacity = 4
INVARIANTS OrderCountIsResting
CHECK_DEADLOCK FALSE
