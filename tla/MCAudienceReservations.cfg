SPECIFICATION Spec
CONSTANTS
    Campaigns = {c1, c2}
    a1 = a1
    a2 = a2
    Audiences = {a1, a2}
    Inputs <- MCInputs
    Workers = {w1}
    Nobody = Nobody
    MaxCalcs = 2
    MaxUpdates = 3
INVARIANTS
    TypeOK
    ClaimsDisjoint
    FreshMeansFree
    ClaimFollowsMoney
PROPERTIES
    EndedStays
SYMMETRY Symmetry
CHECK_DEADLOCK FALSE
