SPECIFICATION Spec

CONSTANTS
    c1 = c1
    c2 = c2
    shirt = shirt
    socks = socks
    NoItem = NoItem
    Customers <- TwoCustomers
    Items <- OneItem
    InitStock <- StockOf2
    Threshold <- ThresholdOf1
    Prices = {1}
    InitPrice <- PriceOf1
    OrderQty = {1}
    RestockQty = {1}
    MaxRestock = 1
    QueueCap = 2
    MaxCartItems = 1
    ShopSignals = FALSE
    MgrSignals = FALSE
    Killable <- NoOne

PROPERTIES
    ConcurrentOrders
