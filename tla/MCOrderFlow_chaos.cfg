SPECIFICATION FairSpec
CONSTANTS
    One = 24
    TTL = 1
    NoIntent = "none"
    NoOrder = "noorder"
    Ids = {"b"}
    External = {}
    Malformed = {}
    Tokens = {"t"}
    Order <- MCOrder
    Plans <- OneOrder
    Legs <- NoLegs
    TradePrices = {6}
    Cash = 36
    Holdings <- MCHoldings
    QueueCap = 1
    BusCap = 2
    InOrder = FALSE
    MaxDups = 1
    FaultyPost = TRUE
    MayFail = TRUE
    MayCancel = TRUE
    MayForget = TRUE
    Reconciling = FALSE
INVARIANTS TypeOK TrackingConsistent NeverOverbooked NoOverdraft
PROPERTIES ProvisionalsEnd EveryOrderSettles
CHECK_DEADLOCK FALSE
