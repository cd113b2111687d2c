CONSTANTS
    Keys <- MCKeys
    BufSize = 8
    MaxPresses = 3
    MaxUnplugs = 0
    MaxFaults = 0
    MaxC6Boots = 0
    MaxStarts = 1
    MaxEvents = 3
    MaxRefusals = 0
SPECIFICATION FairSpec
CHECK_DEADLOCK FALSE
PROPERTIES AnyKeyWakes
