SPECIFICATION FairSpecUntouched
CONSTANTS
    Nil = Nil
    Prefixes = {pre}
    Secrets = {s1}
    WorkspaceIDs = {w1}
    APIIDs = {a1}
    KeyIDs = {k1}
    Permissions = {perm}
    LimitIDs = {l1}
    Procs = {p1}
    Workload <- LifecycleRPCs
    KeyRequests <- LastUseRequests
    VerifyRequests <- PlainVerify
    RateLimiter = "remote"
    Quota <- QuotaOf2
    StoreFaults = TRUE
    LimiterFaults = TRUE
    Restarts = FALSE
    Durable = TRUE
    Collisions = FALSE
    MaxTime = 0
PROPERTIES DecisionDelivered
