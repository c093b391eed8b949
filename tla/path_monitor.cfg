CONSTANTS
    Warn <- MCWarn
    Drop <- MCDrop
    Rssi <- MCRssi
    RssiFields <- MCRssiFields
    NoField = NoField
    Iface = wlan0
    NoIface = none
    MptcpEnabled = TRUE
    Faults = {"addRoute", "delRoute", "addEndpoint"}
    Trouble = {"attach", "detach", "io", "crash"}
    MaxQueue = 2
    MaxRestarts = 1
SPECIFICATION Spec
INVARIANTS TypeOK RouteOwned LiveHasLink
PROPERTY DownTakesRoute
