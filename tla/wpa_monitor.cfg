CONSTANTS
    RssiFields <- MCRssiFields
    NoField = NoField
    Trouble = {"attach", "detach", "io", "crash"}
    MaxQueue = 2
    MaxRestarts = 2
SPECIFICATION FairSpec
INVARIANT TypeOK
PROPERTIES StopEndsStarted Reattaches SocketDrained
