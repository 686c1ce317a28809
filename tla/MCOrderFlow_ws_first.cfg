SPECIFICATION Spec
CONSTANTS
    One = 24
    TTL = 1
    NoIntent = "none"
    NoOrder = "noorder"
    Ids = {"x"}
    External = {}
    Malformed = {}
    Tokens = {"t"}
    Order <- MCOrder
    Plans <- OneSmall
    Legs <- NoLegs
    TradePrices = {12}
    Cash = 18
    Holdings <- MCHoldings
    QueueCap = 1
    BusCap = 10
    InOrder = TRUE
    MaxDups = 0
    FaultyPost = FALSE
    MayFail = FALSE
    MayCancel = FALSE
    MayForget = FALSE
    Reconciling = FALSE
INVARIANTS OutOfOrderHandled
CHECK_DEADLOCK FALSE
