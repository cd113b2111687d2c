CONSTANTS
    Keys <- MCKeys
    BufSize = 8
    MaxPresses = 0
    MaxUnplugs = 0
    MaxFaults = 0
    MaxC6Boots = 0
    MaxStarts = 0
    MaxEvents = 0
    MaxRefusals = 0
SPECIFICATION FairSpec
CHECK_DEADLOCK FALSE
PROPERTIES BootSendsNothing
