\* One request at a time, of every kind, with prunings and switched-off agents in between.
SPECIFICATION Spec
CONSTANTS
    a1 = a1
    a2 = a2
    x1 = x1
    x2 = x2
    t1 = t1
    t2 = t2
    Handlers = {h1}
    Agents = {a1, a2}
    Assets = {x1}
    Tenants = {t1}
    TenantOf <- OneTenant
    JobIds = {1, 2}
    None = None
    MaxAttempts = 2
    ClaimLimit = 1
    Requests = {"list", "report", "download", "create", "retry", "cancel", "resolve", "agents", "clean", "prune", "crash"}
    MaxRequests = 6
    MaxHandouts = 3
INVARIANTS
    PrintTypeOK
    HandoutsBounded
    LeaseHeld
PROPERTIES
    FinalIsFinal
    ActiveJobsSurvive
