CONSTANTS
    MaxBoots = 2
    MaxRuns = 3
    MaxTries = 1
    Budget = 2
    MaxLost = 1
    MaxTroubles = 1
SPECIFICATION FairSpec
CHECK_DEADLOCK FALSE
INVARIANTS TypeOK ReinitAlone SetUpWhole
PROPERTIES RequestHeard  AdvSilenced
