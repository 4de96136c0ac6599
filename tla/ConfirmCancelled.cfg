\* A document is cancelled while a request confirms it.
SPECIFICATION Spec
SYMMETRY HandlerSymmetry
CONSTANTS
    Handlers = {h1, h2}
    Orders = {o1}
    ResIds = {1, 2, 3, 4, 5}
    DocIds = {1, 2, 3}
    None = None
    Need <- NeedTwo
    Statuses = {"PAID", "SHIPPED", "CANCELLED"}
    Types = {"PZ"}
    Qtys = {2}
    Requests = {"create", "confirm", "cancel"}
    MaxRequests = 4
    AllowNegative = FALSE
    AutoCreateWz = TRUE
    AutoConfirmWz = FALSE
PROPERTIES
    OnlyDraftsAreConfirmed
