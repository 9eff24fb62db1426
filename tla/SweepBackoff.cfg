CONSTANTS
    N = 4
    Batch = 2
    Retry = 3
    MaxFaults = 1
SPECIFICATION FairSpec
INVARIANTS
    TypeOK
PROPERTIES
    FundedSettled
