CONSTANTS
    None = None
    Receipts = {r1, r2}
    Redemptions = {d1}
    Callers = {c1, c2}
    MaxNonce = 3
    Troubles = {"LOSS", "CRASH", "OUTAGE", "REVOCATION"}
    MaxTroubles = 2
SYMMETRY Symmetry
SPECIFICATION Spec
INVARIANTS
    ReceiptHistory
    DeliveredIsAccepted
PROPERTIES
    OutcomesAreTerminal
    ImplementsEventLog
