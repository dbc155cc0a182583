SPECIFICATION Spec
CONSTANTS
    Campaigns = {c1}
    Editors = {e1}
    Admins = {a1}
    Gateways = {g1, g2}
    Audiences = {1, 2}
    Prices = {1}
    Deposits <- MCDeposits
    OwnerIsAdmin = FALSE
    Unlocked = {"deposit"}
    MaxDeposited = 6
    MaxTxs = 2
INVARIANTS
    NothingLost
CHECK_DEADLOCK FALSE
