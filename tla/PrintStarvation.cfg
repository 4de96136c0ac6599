\* Agents of two tenants poll.
SPECIFICATION FairSpec
CONSTANTS
    a1 = a1
    a2 = a2
    x1 = x1
    x2 = x2
    t1 = t1
    t2 = t2
    Handlers = {h1}
    Agents = {a1, a2}
    Assets = {x1, x2}
    Tenants = {t1, t2}
    TenantOf <- TwoTenants
    JobIds = {1}
    None = None
    MaxAttempts = 2
    ClaimLimit = 1
    Requests = {"create"}
    MaxRequests = 1
    MaxHandouts = 3
PROPERTIES
    SilentJobsEnd
