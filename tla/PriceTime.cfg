SPECIFICATION Spec
CONSTANTS
    None = None
    a = a
    b = b
    c = c
    OrderIds = {a, b, c}
    Prices = {1, 2, 3}
    Quantities = {0, 1, 2}
    MaxSequence = 5
SYMMETRY Symmetry
INVARIANTS TypeOK Uncrossed OneOrderPerId NoTies TradesBestFirst
CHECK_DEADLOCK FALSE
