SPECIFICATION MCSpec
CONSTANTS
    None = None
    o1 = o1  o2 = o2  w1 = w1  w2 = w2  p1 = p1  p2 = p2  alice = alice  gold = gold
    Instruments <- MCInstruments
    Assets = {gold}
    AssetQuantity <- MCAssetQuantity
    UnitPerToken <- MCUnitPerToken
    Events <- MCEvents
    Says <- MCSays
    Workers = {w1, w2}
    Lines = {" ", "a", "b", "odd", "law", "kzt", "usd"}
    Last = 3
    Rights = 1
    Economics = 2
    Trading = 3
    Blank = " "
    Disclosure = "law"
    Odd <- MCOdd
    Issuers = {alice}
    Operators = {o1, o2}
    Terms <- MCTerms
    SupplyCap <- MCSupplyCap
    CurrencyOf <- MCCurrencyOf
    MaxVersion = 2
    Pages = {p1, p2}
    UserOf <- MCUserOf
    Drafts <- MCDrafts
    Texts <- MCTexts
    DefaultTerms = "small"
    MaxClicks = 4
    Revisions <- MCRevisions
SYMMETRY Symmetry
CHECK_DEADLOCK FALSE
INVARIANTS NoDoublePledge PublishedIsReviewed CoveredIsPromoted SubmittedIsShown
PROPERTIES ImplementsPledges DeadEndsAreFinal UntouchedTextSurvives
