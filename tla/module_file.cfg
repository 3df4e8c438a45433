SPECIFICATION Spec
CONSTANTS
    Base = 4
    MaxGroups = 3
    HighBit = 2
    MaxOffset = 8
    MaxLength = 6
    MaxStack = 3
    Modules <- EveryModule
INVARIANTS JumpsLand BlobsReadBack ReferencesFit
CHECK_DEADLOCK FALSE
