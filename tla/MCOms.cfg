CONSTANTS
    None = None
    p1 = p1
    p2 = p2
    Orders = {o1, o2, o3}
    Parties <- MCParties
    Prices <- MCPrices
    Quantities <- MCQuantities
    Tick = 2
    Lot = 1
    Schedules <- MCSchedules
    Funds <- MCFunds
SYMMETRY MCSymmetry
SPECIFICATION Spec
INVARIANTS
    AccountsFollowOrders
    FillsAreConsistent
    SpendingIsWithinLimit
    BookIsNotCrossed
    NoOvertaking
CHECK_DEADLOCK FALSE
