SPECIFICATION FairSpec
CONSTANTS
    Campaigns = {c1}
    Workers = {w1}
    NoCampaign = none
    MaxBatches = 3
    Concurrency = 2
PROPERTY RecoveredIsRetried
CHECK_DEADLOCK FALSE
