CONSTANTS
    Callers = {"pwm", "other"}
    NoCaller = "nobody"
    Codes <- MCCodes
    CodesOf <- MCCodesOf
    AdvisoryCodes = {13, 32}
    OtaCodes = {29}
    CleanupExempt = {29}
    AssocCodes = {12}
    PoolSize = 2
    MaxSeq = 3
    Faults = {"send", "alloc", "abandon", "inactive", "lose", "timeout", "late", "signal", "ota", "reboot"}
SPECIFICATION FairSpec
CHECK_DEADLOCK FALSE
INVARIANTS CurHasWaiter
PROPERTIES CallsReturn
