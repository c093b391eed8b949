CONSTANTS
    IntRange = 256
    LongRange = 256
    MaxTable = 120
    DefaultConnectMin <- MCConnectMin
    DefaultWarn <- MCWarn
    DefaultDrop <- MCDrop
    Files <- MCFiles
    Faults = {"cgroup", "mark", "rule", "drop", "endpoint", "api", "flush", "cleanup"}
    Notify = TRUE
    MaxStarts = 2
    MaxFailures = 2
SPECIFICATION Spec
INVARIANTS TypeOK RunningIsConfigured NothingForgotten
PROPERTY IsolationNeverGaps
