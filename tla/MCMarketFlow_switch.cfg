SPECIFICATION FairSpec
CONSTANTS
    LastMarket = 2
    Window = 2
    BusCap = 2
    MaxFailures = 2
    RingSize = 2
    BarWindow = 2
    ZAgo = 2
    TimeLeftSec = 1
    LastSeconds = 0
    MarketQueueCap = 1
    WarnBefore = 1
    Scenes <- Everyday
INVARIANTS TypeOK TokensFollowMarket AtMostOneStaleZ NoNakedLeg WarnedOncePerRegistration
PROPERTIES FollowsTheMarket RingImplementsWindow
CHECK_DEADLOCK FALSE
