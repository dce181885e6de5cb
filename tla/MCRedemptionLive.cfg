CONSTANTS
    None = None
    Receipts <- MCReceipts
    Quantity <- MCQuantity
    Unit = 2
    Cap = 2
    Lot = 1
    Holders = {h1}
    Redemptions = {d1, d2}
    Keys = {k1}
    Workers = {w1}
    Amounts <- MCAmounts
    MaxReports = 0
SPECIFICATION FairSpec
PROPERTIES
    GoodsGoneAreBurned
CHECK_DEADLOCK FALSE
