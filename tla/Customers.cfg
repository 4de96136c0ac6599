\* One customer of a case, the panel, and two slots of the render worker; two
\* synchronisations of the status of one shipment.
SPECIFICATION Spec
CONSTANTS
    Customers = {c}
    Admins = {a}
    Workers = {w1, w2}
    Answers = {blank, ann, bob}
    Blank = blank
    Complete = {ann}
    Layouts = {"l1", "l2"}
    Fitting <- FitsFirst
    PanelStatuses = {"WAITING_FOR_CUSTOMER"}
    Attempts = 2
    Budgets <- CaseBudgets
    ShipmentSyncs = {y1, y2}
    CarrierStatuses = {"sent", "ready", "delivered"}
    FinalCarrier = {"delivered"}
    MaxHops = 3
    MaxNoticeFaults = 1
CHECK_DEADLOCK FALSE
INVARIANTS
    CustomersTypeOK
    PrintedAsApproved
    NotifiedOnce
PROPERTIES
    PackageKept
    JobsEnd
    StatusIsFollowed
