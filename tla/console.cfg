SPECIFICATION FairSpec
CONSTANTS
    Currency = {"BTC", "ETH", "USDT"}
    Product = {1, 2, 3}
    Base <- MCBase
    Quote <- MCQuote
    EthBtc = 2
    Files <- MCFiles
    StartBTC = 2
    OfferPrices <- MCOfferPrices
    OfferAmounts <- MCOfferAmounts
    GarbageTimes = {0, 9}
    MaxOrders = 2
INVARIANT OverdrawnByOverlapOnly
PROPERTY MenuReturns
CHECK_DEADLOCK FALSE
