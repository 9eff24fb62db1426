CONSTANTS
    t1 = t1
    Tenants = {t1}
    Jobs = {j1, j2}
    TenantOf <- MCTenantOf
    Durations <- MCDurations
    CostOf <- MCCostOf
    MaxCredit = 2
    Tasks = {w1, w2}
    Handlers = {}
    Sweepers = {s1}
    NoJob = NoJob
    Events = {"pg_fault"}
    MaxRequests = 0
    MaxFaults = 1
SPECIFICATION Spec
SYMMETRY MCSymmetry
PROPERTIES
    ImplementsContract
CHECK_DEADLOCK FALSE
