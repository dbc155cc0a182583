SPECIFICATION FairSpec
CONSTANTS
    Campaigns = {1, 2}
    Instances = {i1, i2}
    MaxParallel = 1
    MaxAttempts = 2
    BatchSize = 1
    MaxFaults = 2
INVARIANTS
    NothingBehindCursor
    WithinLimits
PROPERTIES
    ImplementsContract
    EverySettled
CHECK_DEADLOCK FALSE
