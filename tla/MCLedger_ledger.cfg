SPECIFICATION FairSpec
CONSTANTS
    One = 24
    TTL = 1
    NoIntent = "none"
    Ids = {"b", "x", "s"}
    External = {"x"}
    Tokens = {"t"}
    Order <- MCOrder
    FillPrices = {0, 6}
    Cash = 36
    Holdings <- MCHoldings
    Setups <- MCSetups
INVARIANTS TypeOK NoOverdraft ReservationsCollateralised BalanceCoversReservations TokenReservedExact CashConserved
PROPERTIES BalanceConverges ImplementsEscrow
CHECK_DEADLOCK FALSE
