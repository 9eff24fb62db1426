CONSTANTS
    t1 = t1
    Tenants = {t1}
    Jobs = {j1}
    TenantOf <- MCTenantOf
    Durations <- MCDurations
    CostOf <- MCCostOf
    MaxCredit = 2
    Tasks = {w1}
    Handlers = {}
    Sweepers = {s1}
    NoJob = NoJob
    Events = {"cancel", "pg_fault"}
    MaxRequests = 0
    MaxFaults = 1
SPECIFICATION Spec
INVARIANTS
    NoSilentDebit
CHECK_DEADLOCK FALSE
