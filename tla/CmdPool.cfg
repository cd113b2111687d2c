CONSTANTS
    Callers = {"pwm", "wiphy", "rtnl"}
    NoCaller = "nobody"
    Codes <- MCCodes
    CodesOf <- MCCodesOf
    AdvisoryCodes = {13, 32}
    OtaCodes = {29}
    CleanupExempt = {29}
    AssocCodes = {12}
    PoolSize = 2
    MaxSeq = 6
    Faults = {"lose", "timeout", "signal"}
SPECIFICATION Spec
CHECK_DEADLOCK FALSE
INVARIANTS TypeOK PoolIntact
PROPERTIES ReleaseByOwner KeepsPromise
