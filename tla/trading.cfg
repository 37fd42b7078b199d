SPECIFICATION FairSpec
CONSTANTS
    Currency = {"BTC", "ETH", "USDT", "AVAX"}
    Product = {1, 2, 3, 4}
    Base <- MCBase
    Quote <- MCQuote
    Files <- MCFiles
    StartBTC = 2
    StartUSDT = 3
    OfferPrices <- MCOfferPrices
    OfferAmounts = {1, 2}
    GarbageTimes = {0, 9}
    MaxOrders = 2
INVARIANTS
    WalletNonNegative
    UiMirrorsWallet
    SingleOrderSolvent
    SettledInFull
PROPERTIES
    ClearedBeforeTimeMoves
    CrossedOrdersTrade
    EveryOrderGetsItsTime
CHECK_DEADLOCK FALSE
