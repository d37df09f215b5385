SPECIFICATION Spec
CONSTANTS
    Capacity = 4
    Modulus = 8
    MaxPushes = 10
    NoItem = NoItem
    a = a
    b = b
    Items = {a, b}
INVARIANTS TypeOK NoSlotRace UnreadSlotsIntact PoppedIsPrefixOfPushed DiagnosticsBounded
PROPERTIES GenuineFailure
