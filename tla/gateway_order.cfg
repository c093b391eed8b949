CONSTANTS
    Base = 4
    LittleEndian = TRUE
    Addresses <- MCAddresses
    Interfaces = {wlan0, eth0}
SPECIFICATION Spec
INVARIANT GatewayKept
