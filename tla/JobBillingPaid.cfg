CONSTANTS
    t1 = t1
    Tenants = {t1}
    Jobs = {j1}
    TenantOf <- MCTenantOf
    Durations <- MCDurations
    CostOf <- MCCostOf
    MaxCredit = 2
    Tasks = {w1}
    Handlers = {h1}
    Sweepers = {s1}
    NoJob = NoJob
    Events = {"cancel", "complete", "drain", "crash", "pg_fault", "refund_fault", "orphan"}
    MaxRequests = 1
    MaxFaults = 2
SPECIFICATION Spec

    
PROPERTIES
    PendingLeftPaid
    ExecStatusRestored
CHECK_DEADLOCK FALSE
