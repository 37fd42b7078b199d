SPECIFICATION WorkersSpec
CONSTANTS
    Currency = {"BTC", "ETH", "USDT", "AVAX"}
    Product = {1, 2}
    Base <- MCBase
    Quote <- MCQuote
    Files <- MCFiles
    StartBTC = 2
    StartUSDT = 2
    OfferPrices <- MCPrices
    OfferAmounts = {1, 2}
    GarbageTimes = {0}
    MaxOrders = 2
    Conn = {"c1", "c2"}
    Worker = {"w1", "w2"}
INVARIANTS
    WalletFollowsFills
    BookSound
PROPERTY OneWorkerServes
CHECK_DEADLOCK FALSE
