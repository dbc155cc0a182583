SPECIFICATION FairSpec
CONSTANTS
    Campaigns = {c1}
    Workers = {w1, w2, w3}
    NoCampaign = none
    MaxBatches = 3
    Concurrency = 2
INVARIANTS
    TypeOK
    StatusMatchesDelivery
PROPERTIES
    EveryClaimEnds
    ImplementsDelivery
CHECK_DEADLOCK FALSE
