CONSTANTS
    r1 = r1
    r2 = r2
    r3 = r3
    r4 = r4
    r5 = r5
    t1 = t1
    t2 = t2
    k1 = k1
    Requests = {r1, r2, r3, r4, r5}
    Replicas = {p1, p2}
    Tenants = {t1, t2}
    Keys = {k1}
    TenantOf <- MCTenantOf
    KeyOf <- MCKeyOf
    NoKey = NoKey
    None = None
    MaxCrashes = 0
SPECIFICATION Spec
INVARIANTS
    OneJobPerKey
CHECK_DEADLOCK FALSE
