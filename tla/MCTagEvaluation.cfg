SPECIFICATION FairSpec
CONSTANTS
    b1 = b1
    c1 = c1
    Bundles = {b1}
    Customers = {c1}
    Owner <- MCOwner
    Replicas = {p1, p2}
    Tags = {1, 2, 3}
    BatchSize = 2
    Edits <- MCEdits
    MaxMissing = 1
    MaxAttempts = 2
    MaxParallelBatches = 2
    MaxParallelRuns = 1
    DailyLimit = 1
    NoBundle = NoBundle
    MaxRun = 1
    MaxFaults = 1
    MaxEdits = 1
INVARIANTS
    EvaluatedIsScored
    AnswersReused
PROPERTIES
    EvaluatedStays
    EveryRunEnds
CHECK_DEADLOCK FALSE
