\* Publication of stock, synchronisation of a wholesaler's feed, with
\* failures and crashes.
SPECIFICATION Spec
CONSTANTS
    StockLevels = {0, 1}
    SupplierOffers <- Offers
    MinimumForSale = 0
    MaxLogs = 3
    MaxMoves = 1
    MaxRequeues = 1
    MaxPublishFaults = 1
    FeedRequests = {c1, c2}
    Skus = {"a", "b"}
    Head = {"a"}
    Feeds <- Files
    MinItems = 1
    MaxDropPercent = 40
    MaxSyncs = 2
    MaxFeedChanges = 2
    MaxSyncFaults = 2
CHECK_DEADLOCK FALSE
INVARIANTS
    ExchangeTypeOK
    OffersAreReported
PROPERTIES
    MirrorsWarehouse
    OffersReachShops
