\* Two requests at a time for one order, auto-confirmed WZs, a crash anywhere:
\* what the locks and indexes keep, and that everybody is served.
SPECIFICATION FairSpec
CONSTANTS
    Handlers = {h1, h2}
    Orders = {o1}
    ResIds = {1, 2, 3, 4, 5}
    DocIds = {1, 2, 3}
    None = None
    Need <- NeedTwo
    Statuses = {"PAID", "SHIPPED", "CANCELLED"}
    Types = {"PZ", "WZ"}
    Qtys = {2}
    Requests = {"status", "reserve", "release", "createWz", "create", "confirm",
                "cancel", "recalculate", "assign"}
    MaxRequests = 4
    AllowNegative = FALSE
    AutoCreateWz = TRUE
    AutoConfirmWz = TRUE
INVARIANTS
    NeverRefused
    OneOpenWz
PROPERTIES
    EveryRequestEnds
