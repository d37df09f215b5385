SPECIFICATION FairSpec
CONSTANTS
    Null = Null
    a = a
    b = b
    c = c
    OrderIds = {a, b}
    Prices = {1, 2}
    Quantities = {0, 1, 2}
    InitialCapacity = 1
    AllocationFails = TRUE
    MaxSequence = 3
    MaxCapacity = 2
PROPERTIES CallsReturn
CHECK_DEADLOCK FALSE
