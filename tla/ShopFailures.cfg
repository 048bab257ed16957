SPECIFICATION Spec

CONSTANTS
    c1 = c1
    c2 = c2
    shirt = shirt
    socks = socks
    NoItem = NoItem
    Customers <- OneCustomer
    Items <- OneItem
    InitStock <- StockOf1
    Threshold <- ThresholdOf1
    Prices = {1}
    InitPrice <- PriceOf1
    OrderQty = {1}
    RestockQty = {1}
    MaxRestock = 1
    QueueCap = 2
    MaxCartItems = 1
    ShopSignals = TRUE
    MgrSignals = TRUE
    Killable <- Everyone

CHECK_DEADLOCK FALSE

INVARIANTS
    IndInv
    SemAccounting
    NoOrphanLock
    NonNegative
PROPERTIES
    ImplementsLedger
