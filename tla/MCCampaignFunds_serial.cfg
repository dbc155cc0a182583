SPECIFICATION Spec
CONSTANTS
    Campaigns = {c1, c2}
    Editors = {e1}
    Admins = {a1}
    Gateways = {g1}
    Audiences = {1}
    Prices = {1, 2}
    Deposits <- MCDeposits
    OwnerIsAdmin = FALSE
    Unlocked = {}
    MaxDeposited = 3
    MaxTxs = 2
INVARIANTS
    TypeOK
    MoneyConserved
    EscrowMatchesStatus
    LedgerExplainsWallet
PROPERTIES
    StatusTransitionsSerialized
    ImplementsEscrow
CHECK_DEADLOCK FALSE
