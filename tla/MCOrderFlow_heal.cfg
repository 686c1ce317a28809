SPECIFICATION FairSpec
CONSTANTS
    One = 24
    TTL = 1
    NoIntent = "none"
    NoOrder = "noorder"
    Ids = {"x", "d"}
    External = {"d"}
    Malformed = {}
    Tokens = {"t"}
    Order <- MCOrder
    Plans <- OneRestart
    Legs <- NoLegs
    TradePrices = {6}
    Cash = 18
    Holdings <- MCHoldings
    QueueCap = 1
    BusCap = 1
    InOrder = TRUE
    MaxDups = 0
    FaultyPost = TRUE
    MayFail = TRUE
    MayCancel = TRUE
    MayForget = TRUE
    Reconciling = TRUE
INVARIANT ReservedCovers
PROPERTIES ReconcileHeals
CHECK_DEADLOCK FALSE
