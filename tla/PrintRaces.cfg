\* Two requests at a time: polls, the reaper, reports and operators race for a job.
SPECIFICATION FairSpec
CONSTANTS
    a1 = a1
    a2 = a2
    x1 = x1
    x2 = x2
    t1 = t1
    t2 = t2
    Handlers = {h1, h2}
    Agents = {a1, a2}
    Assets = {x1}
    Tenants = {t1}
    TenantOf <- OneTenant
    JobIds = {1}
    None = None
    MaxAttempts = 2
    ClaimLimit = 1
    Requests = {"list", "report", "download", "create", "cancel", "resolve", "crash"}
    MaxRequests = 5
    MaxHandouts = 3
INVARIANTS
    HandedOutOnce
PROPERTIES
    NoAutomaticReprint
    SilentJobsEnd
