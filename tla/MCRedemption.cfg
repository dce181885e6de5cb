CONSTANTS
    None = None
    Receipts <- MCReceipts
    Quantity <- MCQuantity
    Unit = 2
    Cap = 2
    Lot = 1
    Holders = {h1}
    Redemptions = {d1, d2}
    Keys = {k1}
    Workers = {w1, w2}
    Amounts <- MCAmounts
    MaxReports = 1
SYMMETRY MCSymmetry
SPECIFICATION Spec
INVARIANTS
    SupplyReconciles
    SupplyIsMintedLessBurned
    ReservedIsAccounted
    PositionsFollowEvidence
    BackedByGoods
PROPERTIES
    ImplementsGoodsForTokens
CHECK_DEADLOCK FALSE
