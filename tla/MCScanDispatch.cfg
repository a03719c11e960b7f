SPECIFICATION FairSpec
CONSTANTS
    Scans = {s1, s2}
    Tenants = {t1}
    Requests = {r1, r2}
    TenantOf <- OneTenant
    scans_per_day <- PlanLimit
    MaxDay = 2
    NoScan = NoScan
    NoRequest = NoRequest
CHECK_DEADLOCK FALSE
INVARIANTS
    QuotaRespected
PROPERTIES
    DispatchesOnlyPending
    RequestIsAnswered
