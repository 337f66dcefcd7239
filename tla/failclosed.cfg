SPECIFICATION FairSpec
CONSTANTS
    Nil = Nil
    Prefixes = {pre}
    Secrets = {s1, s2}
    WorkspaceIDs = {w1}
    APIIDs = {a1}
    KeyIDs = {k1}
    Permissions = {perm}
    LimitIDs = {l1}
    Procs = {p1, p2}
    Workload <- AllRPCs
    KeyRequests <- MixedRequests
    VerifyRequests <- MixedVerify
    RateLimiter = "failClosed"
    Quota <- NoQuota
    StoreFaults = FALSE
    LimiterFaults = TRUE
    Restarts = FALSE
    Durable = TRUE
    Collisions = FALSE
    MaxTime = 0
INVARIANTS TypeOK LimiterObeyed
PROPERTIES EveryRequestAnswered
