SPECIFICATION Spec
CONSTANTS
    Campaigns = {c1}
    Editors = {e1}
    Admins = {a1}
    Gateways = {g1}
    Audiences = {1, 2}
    Prices = {1}
    Deposits <- MCDeposits
    OwnerIsAdmin = FALSE
    Unlocked = {"reschedule"}
    MaxDeposited = 3
    MaxTxs = 2
PROPERTIES
    StatusTransitionsSerialized
CHECK_DEADLOCK FALSE
