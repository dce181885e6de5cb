CONSTANTS
    None = None
    Receipts = {r1, r2}
    Redemptions = {d1}
    Callers = {c1, c2}
    MaxNonce = 3
    Troubles = {}
    MaxTroubles = 0
SPECIFICATION Spec
INVARIANTS
    NothingIsQuarantined
