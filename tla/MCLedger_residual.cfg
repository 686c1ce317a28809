SPECIFICATION Spec
CONSTANTS
    One = 24
    TTL = 1
    NoIntent = "none"
    Ids = {"b", "x", "s"}
    External = {"x"}
    Tokens = {"t"}
    Order <- MCOrder
    FillPrices = {0, 6}
    Cash = 36
    Holdings <- MCHoldings
    Setups <- OneBuy
INVARIANT ResidualReleased
CHECK_DEADLOCK FALSE
