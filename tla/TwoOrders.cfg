\* Two orders, their wholesale orders and hand-made documents compete for the
\* stock, one request at a time.
SPECIFICATION Spec
SYMMETRY OrderSymmetry
CONSTANTS
    Handlers = {h1}
    Orders = {o1, o2}
    ResIds = {1, 2, 3, 4, 5}
    DocIds = {1, 2, 3, 4}
    None = None
    Need <- NeedTwo
    Statuses = {"PAID", "SHIPPED", "CANCELLED"}
    Types = {"PZ", "WZ", "INW"}
    Qtys = {2}
    Requests = {"status", "reserve", "release", "createWz", "createZh", "createPz",
                "create", "confirm", "cancel", "delete", "offers"}
    MaxRequests = 5
    AllowNegative = FALSE
    AutoCreateWz = TRUE
    AutoConfirmWz = FALSE
INVARIANTS
    StockBalance
    ReceivedOnce
PROPERTIES
    OnlyUndoGoesNegative
