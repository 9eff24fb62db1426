CONSTANTS
    N = 2
    Batch = 2
    Retry = 3
    MaxFaults = 0
SPECIFICATION Spec
PROPERTIES
    NotHammered
