\* Messages of the shop, the synchronisation and the panel, for two orders of
\* which one fits into a list, with failures and crashes.
SPECIFICATION IntakeSpec
CONSTANTS
    ShopOrders = {1, 2}
    ShopStates = {"PAID", "SHIPPED", "CANCELLED"}
    IntakeHandlers = {h1}
    Syncers = {cron}
    PaidStatuses = {"PAID"}
    Listed = {"PAID", "CANCELLED"}
    Limit = 1
    LastDay = 1
    MaxShopChanges = 1
    MaxIntakeFaults = 1
INVARIANTS
    IntakeTypeOK
    InvitedOnce
PROPERTIES
    ListedCatchUp
