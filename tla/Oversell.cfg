\* Two orders are reserved at the same time; nothing is cancelled or counted.
SPECIFICATION Spec
SYMMETRY HandlerSymmetry
CONSTANTS
    Handlers = {h1, h2}
    Orders = {o1, o2}
    ResIds = {1, 2, 3, 4, 5}
    DocIds = {1, 2, 3}
    None = None
    Need <- NeedTwo
    Statuses = {"PAID", "SHIPPED", "CANCELLED"}
    Types = {"PZ"}
    Qtys = {2}
    Requests = {"reserve", "create", "confirm"}
    MaxRequests = 4
    AllowNegative = FALSE
    AutoCreateWz = TRUE
    AutoConfirmWz = FALSE
INVARIANTS
    NeverNegative
