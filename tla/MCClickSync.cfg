SPECIFICATION FairSpec
CONSTANTS
    Requests = {}
    Jobs = {}
    BadJobs = {}
    Replicas = {r1}
    Size <- MCSize
    Legacy = {0, 1}
    Capacity = 2
    MaxAttempts = 1
    PublishBatch = 1
    MaxFaults = 1
    Nobody = Nobody
    Historic = Historic
    Destination <- MCDestination
    Uneven = {0}
    Events = {e1, e2}
    Importers = {i1, i2}
    SpoolMax = 2
    ReplayBatch = 2
    PageSize = 1
    MaxId = 3
    NoCode = NoCode
INVARIANTS
    NoClickLost
    NothingSkipped
    NoDuplicateClick
    
PROPERTIES
    EveryClickArrives
CHECK_DEADLOCK FALSE
