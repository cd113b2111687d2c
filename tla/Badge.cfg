CONSTANTS
    Keys <- MCKeys
    BufSize = 3
    MaxPresses = 3
    MaxUnplugs = 1
    MaxFaults = 1
    MaxC6Boots = 1
    MaxStarts = 1
    MaxEvents = 3
    MaxRefusals = 1
SPECIFICATION FairSpec
CHECK_DEADLOCK FALSE
INVARIANTS TypeOK CacheTrue AwakeIsLit ScreenSafe
PROPERTIES DarkIsQuiet KeyWakes KeyEndsSensors
