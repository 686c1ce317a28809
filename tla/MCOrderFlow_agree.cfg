SPECIFICATION Spec
CONSTANTS
    One = 24
    TTL = 1
    NoIntent = "none"
    NoOrder = "noorder"
    Ids = {"b", "x", "s", "m", "y", "n", "yy", "nn", "e"}
    External = {"e"}
    Malformed = {"m"}
    Tokens = {"t", "u"}
    Order <- MCOrder
    Plans <- Agreeing
    Legs <- PairLegs
    TradePrices = {6}
    Cash = 36
    Holdings <- MCHoldings
    QueueCap = 1
    BusCap = 3
    InOrder = FALSE
    MaxDups = 0
    FaultyPost = FALSE
    MayFail = FALSE
    MayCancel = TRUE
    MayForget = FALSE
    Reconciling = FALSE
INVARIANTS QuietAgreement NoOverdraft
CHECK_DEADLOCK FALSE
