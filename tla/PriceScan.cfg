SPECIFICATION Spec
CONSTANTS
    LevelChoices <- MCLevelChoices
    MaxLevels = 9
    Limits = {1, 2}
    MaxQuantity = 7
INVARIANTS TypeOK PrefixScanned LoadsInBounds DefinedWhenItFits
CHECK_DEADLOCK FALSE
