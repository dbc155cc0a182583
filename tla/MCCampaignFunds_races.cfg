SPECIFICATION Spec
CONSTANTS
    Campaigns = {c1}
    Editors = {e1}
    Admins = {a1}
    Gateways = {g1}
    Audiences = {2}
    Prices = {1, 2}
    Deposits <- MCDeposits
    OwnerIsAdmin = FALSE
    Unlocked = {"update", "reschedule", "deposit"}
    MaxDeposited = 6
    MaxTxs = 2
INVARIANTS
    NoMoneyCreated
    PartialRefundOnce
CHECK_DEADLOCK FALSE
