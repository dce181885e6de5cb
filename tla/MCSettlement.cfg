CONSTANTS
    None = None
    Workers = {w1, w2}
    Trades <- MCTrades
    Fills <- MCFills
    RowEdits <- MCRowEdits
    FeeEdits <- MCFeeEdits
    Accounts <- MCAccounts
    MaxId = 7
    MaxNumeric = 20
    Owner <- MCOwner
    Purpose <- MCPurpose
    NormalSide <- MCNormalSide
    Denomination <- MCDenomination
    ClearingCash = 1
    ClearingToken = 2
    FeeAccount = 3
    ResidualAccount = 4
    SellerCash <- MCSellerCash
    BuyerToken <- MCBuyerToken
    OpenFromStart <- MCOpenFromStart
    MaxInterrupts = 2
SPECIFICATION FairSpec
INVARIANTS
    BalancesFollowFinality
    PostedExactlyWhenFinal
    FailureHasCause
PROPERTIES
    VerdictIsRight
    ImplementsAtomicDvp
    EveryTradeIsDecided
