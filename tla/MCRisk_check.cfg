SPECIFICATION Spec
CONSTANTS
    One = 24
    TTL = 1
    NoIntent = "none"
    Ids = {"b", "d", "m", "y", "n", "yy", "nn", "h"}
    External = {"h"}
    Malformed = {"m"}
    Tokens = {"t", "u"}
    Market <- MCMarket
    Order <- MCOrder
    Legs <- PairLegs
    Batches <- Mixed
    MidPrices <- Mids
    FillPrices = {6, 12}
    Strategies = 2
    Cash = 30
    Holdings <- MCHoldings
    MinBalance = 3
    MaxDailyLoss = 6
    MaxExposurePerMarket = 24
    MaxSlippageBps = 200
    MaxOpenOrders = 2
    MarketCooldown = 1
    OnchainTotals = {12}
    PositionReports <- Reports
    MaxOutside = 1
    LastDay = 2
INVARIANTS TypeOK CheckedIsReserved
PROPERTIES MinReserveKept NoOverdraft LossStopsTrading
CHECK_DEADLOCK FALSE
