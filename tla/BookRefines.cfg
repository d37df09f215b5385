SPECIFICATION FairSpec
CONSTANTS
    Null = Null
    a = a
    b = b
    c = c
    OrderIds = {a, b, c}
    Prices = {1, 2}
    Quantities = {0, 1, 2}
    InitialCapacity = 2
    AllocationFails = FALSE
    MaxSequence = 4
    MaxCapacity = 4
INVARIANTS LocationsExact QueriesDescribeOrders
PROPERTIES ImplementsBook
CHECK_DEADLOCK FALSE
