CONSTANTS
    \* Submit
    r1 = r1  r2 = r2  r3 = r3  r4 = r4  r5 = r5  t1 = t1  t2 = t2  k1 = k1
    Requests = {r1, r2, r3, r4, r5}
    Replicas = {p1, p2}
    Tenants = {t1, t2}
    Keys = {k1}
    TenantOf <- MCTenantOf
    KeyOf <- MCKeyOf
    NoKey = NoKey
    None = None
    MaxCrashes = 1
    \* Payments, StripeWebhook, Wallets
    PTenants = {t1, t2}
    Invoices = {i1}
    PReplicas = {p1, p2}
    NoTenant = none
    MaxNotices = 2
    MaxPCrashes = 1
    StripeEvents = {e1, e2}
    Handlers = {h1, h2}
    NoEvent = none
    MaxSends = 3
    MaxStripeFaults = 2
    WalletIds = {w1, w2}
    Callers = {c1, c2}
    NoWallet = none
    MaxDeposits = 3
    \* Accounts, SupportChat, Onboarding
    AReplicas = {p1, p2}
    Emails = {e1}
    Accts = {t1, t2}
    OAuthUser = g
    NoAcct = none
    MaxUses = 1
    MaxVerified = 2
    MaxKeys = 3
    MaxMails = 2
    MaxRequests = 3
    MaxAcctFaults = 1
    Agents = {a1, a2}
    InScope = {a1, a2}
    Customer = cu
    Nobody = none
    MaxCuts = 1
    MaxTurns = 4
    Leads = {l1, l2}
    Senders = {s1, s2}
    DryRuns = {s2}
    MaxRetries3 = 2
    MaxCampaigns = 2
    MaxMailFaults = 2
    Shells = {p1, p2}
    Slugs = {"a", "b", "c"}
    BadSlugs = {"b"}
    \* Decisions, DualStore, PgPool
    DReplicas = {p1, p2}
    IdemKeys = {k1}
    NoIdemKey = none
    PlanJobs = 1
    FallbackJobs = 1
    TierJobs = 1
    MaxAsks = 2
    MaxDecFaults = 1
    STenants = {"t1", "t2"}
    SUsers = {u1, u2}
    SKeys = {s1, s2, s3}
    NoKeyHash = none
    SInvoices = {i1}
    Boxes = {b1}
    SWorkers = {w1}
    PageSize = 2
    MaxStoreCalls = 4
    PThreads = {a1, a2}
    PoolMax = 1
    Attempts = 1
    MaxPools = 3
    MaxPgFaults = 2
    MaxBodies = 2
    \* Service, Jev, Plugins
    Timeout = 6
    Delay0 = 2
    MaxDelay = 5
    MaxRestarts = 1
    SvcJobs = {j1, j2}
    MaxIterations = 3
    MaxToolCalls = 2
    Socks = {s1, s2}
    WsWorkers = {w1, w2}
    NoSock = none
    NoWsWorker = none
    MaxDemos = 2
    JevRequests = {q1}
    Observers = {o1, o2}
    QueueBudget = 2
    LogMax = 1
    LogBackups = 1
    MaxObserved = 3
    MaxLogFaults = 1
    MaxSidecars = 1
    PluginNames = {"a", "b"}
    Deps <- MCDeps
    PTasks = {x, y}
    NoPlugin = none
    TraceIds = {i1, i2}
    MaxSteps = 2
    MaxPluginCalls = 6
SPECIFICATION ServingSpec
INVARIANTS
    ServingTypeOK
    AnswerIsJob
    SettledKeyReplays
    
    AccessControlled
    
    
    
    
    ExtensionsSound
PROPERTIES
    RecordIsFinal
    AgentsMoveLegallyAlways
CHECK_DEADLOCK FALSE
