SPECIFICATION Spec
CONSTANTS
    Null = Null
    a = a
    b = b
    c = c
    OrderIds = {a, b, c}
    Prices = {1, 2}
    Quantities = {0, 1, 2}
    InitialCapacity = 2
    AllocationFails = TRUE
    MaxSequence = 4
    MaxCapacity = 4
SYMMETRY Symmetry
INVARIANTS TypeOK ListsWellFormed PoolIsLinkedOrFree NoDanglingLocation TimePriority NotCrossed TradesBestFirst
CHECK_DEADLOCK FALSE
