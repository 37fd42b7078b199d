SPECIFICATION FairSessionSpec
CONSTANTS
    Currency = {"BTC", "ETH", "USDT", "AVAX"}
    Product = {2, 3}
    PageProduct = {2, 3}
    Base <- MCBase
    Quote <- MCQuote
    Files <- MCFiles
    StartBTC = 2
    StartUSDT = 0
    OfferPrices <- MCPrices
    OfferAmounts = {1}
    GarbageTimes = {0, 9}
    MaxOrders = 2
    HistoryLength = 2
    DefaultMarket = 2
    MaxInFlight = 2
INVARIANTS
    ShownAreServers
    PendingInFlight
    RejectionsShown
PROPERTY PendingCleared
CHECK_DEADLOCK FALSE
