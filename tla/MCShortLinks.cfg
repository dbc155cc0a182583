SPECIFICATION FairLinkSpec
CONSTANTS
    q1 = q1
    j1 = j1
    Requests = {q1, q2}
    Jobs = {j1, j2}
    BadJobs = {j2}
    Replicas = {r1, r2}
    Size <- MCSize
    Legacy = {1}
    Capacity = 3
    MaxAttempts = 2
    PublishBatch = 2
    MaxFaults = 1
    Nobody = Nobody
    Historic = Historic
    Destination <- MCDestination
    Refused = {q2}
INVARIANTS
    SendSafe
    CompletedIsLive
PROPERTIES
    CodesAreForever
    FinishedStays
    EveryLinkGoesLive
    EveryUploadEnds
CHECK_DEADLOCK FALSE
