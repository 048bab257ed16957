SPECIFICATION FairSpec

CONSTANTS
    c1 = c1
    c2 = c2
    shirt = shirt
    socks = socks
    NoItem = NoItem
    Customers <- OneCustomer
    Items <- OneItem
    InitStock <- StockOf1
    Threshold <- ThresholdOf1
    Prices = {1}
    InitPrice <- PriceOf1
    OrderQty = {1, 2}
    RestockQty = {2}
    MaxRestock = 2
    QueueCap = 2
    MaxCartItems = 2
    ShopSignals = TRUE
    MgrSignals = FALSE
    Killable <- NoOne

CHECK_DEADLOCK FALSE

PROPERTIES
    SuccessIsBacked
    ShutdownReleases
    ShopStops
