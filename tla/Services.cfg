\* Returns of one order, one request at a time, failures and crashes anywhere;
\* two at a time for the sessions of one user and the invoice of one order.
SPECIFICATION Spec
CONSTANTS
    ReturnHandlers = {h1}
    ReturnIds = {1, 2}
    ZwIds = {1, 2, 3}
    Ordered = 2
    ReturnOptions <- Ticked
    MaxReturnFaults = 2
    AuthRequests = {c1, c2}
    SessionIds = {s1, s2}
    Ttl = 2
    LastSecond = 3
    InvoiceHandlers = {h1, h2}
    RequireScanned = TRUE
    MaxBillRequests = 4
    MaxBillFaults = 1
CHECK_DEADLOCK FALSE
INVARIANTS
    ServicesTypeOK
    PiecesCountOnce
    ToldOnce
    UndoneIsUndone
    RenewedOnce
    InvoicedOnce
    GoodsAfterInvoice
PROPERTIES
    LogoutIsFinal
