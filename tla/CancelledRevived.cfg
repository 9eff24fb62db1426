CONSTANTS
    t1 = t1
    Tenants = {t1}
    Jobs = {j1}
    TenantOf <- MCTenantOf
    Durations <- MCDurations
    CostOf <- MCCostOf
    MaxCredit = 2
    Tasks = {w1}
    Handlers = {}
    Sweepers = {s1}
    NoJob = NoJob
    Events = {"cancel"}
    MaxRequests = 0
    MaxFaults = 0
SPECIFICATION Spec
PROPERTIES
    CancelledIsFinal
CHECK_DEADLOCK FALSE
