SPECIFICATION FairSpec
CONSTANTS
    Capacity = 2
    Modulus = 4
    MaxPushes = 7
    NoItem = NoItem
    a = a
    b = b
    Items = {a, b}
PROPERTIES EveryPushIsPopped ProducerIsNotStuck ImplementsQueue
