SPECIFICATION Spec
CONSTANTS
    x1 = x1
    x2 = x2
    d3 = d3
    Cards = {p1}
    Keys = {k1}
    Payloads = {a1, a2}
    Receipts = {r1}
    Invoices = {x1}
    Addresses = {x2}
    Deposits = {d1, d2, d3}
    PaidFor <- MCPaidFor
    Handlers = {h1, h2}
    MaxRows = 1
    MaxCalls = 5
    MaxFaults = 2
    None = None
SYMMETRY MCSymmetry
INVARIANTS
    CardSettled
    ChargedOnce
    ReceiptSettled
    CryptoPaidOnce
CHECK_DEADLOCK FALSE
