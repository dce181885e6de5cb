CONSTANTS
    None = None
    Receipts = {r1, r2}
    Redemptions = {d1, d2}
    Callers = {c1}
    MaxNonce = 4
    Troubles = {"LOSS", "CRASH"}
    MaxTroubles = 2
SPECIFICATION FairSpec
INVARIANTS
    NothingIsQuarantined
PROPERTIES
    EveryEventIsApplied
