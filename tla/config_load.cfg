CONSTANTS
    IntRange = 16
    LongRange = 32
    MaxTable = 6
    DefaultConnectMin <- MCConnectMin
    DefaultWarn <- MCWarn
    DefaultDrop <- MCDrop
    Files <- MCFiles
SPECIFICATION Spec
INVARIANTS AcceptedIsUsable WellFormedIsLoaded AcceptedIsWellFormed
