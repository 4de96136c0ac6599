\* One request at a time, a crash anywhere.
SPECIFICATION Spec
CONSTANTS
    Handlers = {h1}
    Orders = {o1}
    ResIds = {1, 2, 3, 4, 5}
    DocIds = {1, 2, 3, 4}
    None = None
    Need <- NeedTwo
    Statuses = {"PAID", "SHIPPED", "CANCELLED"}
    Types = {"PZ", "WZ"}
    Qtys = {1}
    Requests = {"status", "reserve", "release", "createWz", "create", "confirm",
                "cancel", "delete", "update", "addItem", "setItem", "dropItem", "offers"}
    MaxRequests = 6
    AllowNegative = FALSE
    AutoCreateWz = TRUE
    AutoConfirmWz = FALSE
INVARIANTS
    TypeOK
    StockBalance
    ConsumedIffIssued
    ReservedWithinNeed
PROPERTIES
    ClosedTakesNoReservation
