CONSTANTS
    None = None
    Workers = {w1, w2}
    Keys = {"k1", "k2", "k3", "k4"}
    MaxNumeric = 1
    MaxId = 4
    Accounts <- MCAccounts
    Owner <- MCOwner
    Purpose <- MCPurpose
    NormalSide <- MCNormalSide
    Denomination <- MCDenomination
    Posts <- MCPosts
    Moves <- MCMoves
    Reversals <- MCReversals
SPECIFICATION FairSpec
INVARIANTS
    TypeOK
    BalanceIsSumOfEntries
    OneReversalPerPosting
    AcknowledgedIsStored
    NoWaitCycle
PROPERTIES
    ImplementsAtomicLedger
    EveryCallEnds
