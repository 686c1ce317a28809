SPECIFICATION FairSpec
CONSTANTS
    One = 24
    TTL = 1
    NoIntent = "none"
    Ids = {"b", "s", "d"}
    External = {}
    Malformed = {}
    Tokens = {"t", "u"}
    Market <- MCMarket
    Order <- MCOrder
    Legs <- NoLegs
    Batches <- BuyAndSell
    MidPrices <- NoMids
    FillPrices = {6, 12}
    Strategies = 1
    Cash = 60
    Holdings <- MCHoldings
    MinBalance = 6
    MaxDailyLoss = 6
    MaxExposurePerMarket = 0
    MaxSlippageBps = 0
    MaxOpenOrders = 0
    MarketCooldown = 0
    OnchainTotals = {}
    PositionReports = {}
    MaxOutside = 0
    LastDay = 2
PROPERTY BreakerReopens
CHECK_DEADLOCK FALSE
