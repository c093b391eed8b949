CONSTANTS
    IntRange = 256
    LongRange = 256
    MaxTable = 120
    DefaultConnectMin <- MCConnectMin
    DefaultWarn <- MCWarn
    DefaultDrop <- MCDrop
    Files <- StrictFile
    Faults = {}
    Notify = FALSE
    MaxStarts = 1
    MaxFailures = 0
SPECIFICATION FairSpec
PROPERTY SignalEndsLoop
