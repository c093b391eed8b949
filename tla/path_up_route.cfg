CONSTANTS
    Warn <- MCWarn
    Drop <- MCDrop
    Rssi <- MCRssi
    RssiFields <- MCRssiFields
    NoField = NoField
    Iface = wlan0
    NoIface = none
    MptcpEnabled = TRUE
    Faults = {}
    Trouble = {}
    MaxQueue = 1
    MaxRestarts = 0
SPECIFICATION FairSpec
PROPERTY UpGetsRoute
