CONSTANTS
    t1 = t1
    Tenants = {t1}
    Jobs = {j1}
    TenantOf <- MCTenantOf
    Durations <- MCDurations
    CostOf <- MCCostOf
    MaxCredit = 2
    Tasks = {w1}
    Handlers = {h1}
    Sweepers = {s1}
    NoJob = NoJob
    Events = {"cancel", "retry", "drain", "crash", "pg_fault", "orphan"}
    MaxRequests = 1
    MaxFaults = 1
SPECIFICATION FairSpec
PROPERTIES
    PendingEventuallySettled
    EveryJobEnds
CHECK_DEADLOCK FALSE
