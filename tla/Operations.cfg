CONSTANTS
    \* WriterLease
    Sessions = {a, b, c}
    Nobody = Nobody
    TTL = 2
    Hold = 1
    MaxToken = 3
    MaxSpoiled = 1
    \* ControlPlane, Hosts, GpuWorker
    CPJobs = {j1, j2}
    CPWorkers = {w1}
    NoWorker = none
    NoLease = none
    MaxRetries = 1
    MaxDeaths = 1
    Commands = {c1}
    OwnHost = FALSE
    MaxChecks = 2
    MaxTokens = 2
    MaxFaults = 1
    Loops = {l1, l2}
    Gpus = {g1}
    GJobs = {j1, j2, j3}
    NoGJob = none
    NoGpu = none
    MaxOverruns = 1
    MaxSilences = 1
    \* EventLog, StateStore, Cluster
    EJobs = {j1, j2}
    Page = 2
    MaxEvents = 3
    MaxNumbers = 2
    MaxLives = 2
    MaxBadCommits = 1
    SSJobs = {j1}
    MaxLogged = 3
    MaxSaves = 1
    MaxStoreDeaths = 1
    RNodes <- MCNodes
    Newcomer = "n4"
    NoLeader = "none"
    MaxTerms = 2
    MaxEntries = 2
    Vram = 4
    SaturationMax = 3
    Reserve = 1
    Cooldown = 2
    GpuJobs = {j1, j2, j3}
    \* DeployAgent, OpsTools
    Commits = 3
    MaxMishaps = 2
    MaxRetryAll = 1
    Budget = 2
    Hour = 2
    Starts = {s1, s2, s3}
    MaxRows = 2
    MaxPgTrouble = 3
    Files = 3
    Runners = {r1, r2}
    Legacy = {r2}
    MaxBadFiles = 1
    Throttle = 2
    MaxRelayFails = 1
    \* Scheduler, Backends
    Executors = {e1, e2}
    SJobs = {j1}
    QuotaJobs = 1
    PerJob = 1
    CostLimit = 10
    MaxSubmits = 2
    MaxSchedFaults = 1
    GpuNodes = {n1, n2}
    NodeVram = 4
    PolicyJobs = {p1, p2, p3}
    MaxPending = 3
    BJobs = {b1, b2}
    NoBJob = none
    DefaultBackend = "vastai"
    Chain <- MCChain
    PoolWorkers = {w1, w2}
    PoolJobs = {b1}
    PoolCalls = {c1, c2}
    MaxContracts = 2
    MaxApiFaults = 1
    MaxPoolFaults = 1
    MaxSlurmFaults = 1
    \* Operators
    Replicas = {r1, r2}
    RTasks = {a, b}
    NoJob = none
    MaxApi = 1
    MaxUpdates = 1
    MaxK8sJobs = 3
    MaxTouched = 1
SPECIFICATION OperationsSpec
INVARIANTS
    OperationsTypeOK
    OneFreshMarker
    LeaseInv
    
    HostsInv
    GpuWorkerInv
    
    
    
    OperatorsInv
PROPERTIES
    TakenOnlyWhenStale
CHECK_DEADLOCK FALSE
