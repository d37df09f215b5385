SPECIFICATION Spec
CONSTANTS
    Null = Null
    InitialCapacity = 3
    MaxCapacity = 6
    TrackingFails = TRUE
    x = x
    y = y
    Objects = {x, y}
INVARIANTS NeverLeaks
CHECK_DEADLOCK FALSE
