CONSTANTS
    RssiFields <- MCRssiFields
    NoField = NoField
    Trouble = {}
    MaxQueue = 1
    MaxRestarts = 0
SPECIFICATION FairSpec
PROPERTY StopEnds
