CONSTANTS
    t1 = t1
    Tenants = {t1}
    Jobs = {j1}
    TenantOf <- MCTenantOf
    Durations <- MCDurations
    CostOf <- MCCostOf
    MaxCredit = 2
    Tasks = {w1}
    Handlers = {h1}
    Sweepers = {s1}
    NoJob = NoJob
    Events = {"cancel", "complete", "v1_complete", "ack_start", "ack_complete", "ack_fail", "retry", "drain", "crash", "pg_fault", "refund_fault", "orphan"}
    MaxRequests = 1
    MaxFaults = 1
SPECIFICATION Spec
INVARIANTS
    TypeOK
    ChargedOnce
    
    RefundMatchesDebit
    UsageMatchesDebit
    MoneyInv
PROPERTIES
    ImplementsContract
CHECK_DEADLOCK FALSE
