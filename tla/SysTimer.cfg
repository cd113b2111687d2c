CONSTANTS
    HiSpan = 3
    LoSpan = 3
    MaxDelta = 3
    MaxNow = 12
SPECIFICATION Spec
INVARIANTS TypeOK TickArmed ReadTrue
