SPECIFICATION Spec
CONSTANTS
    Nil = Nil
    Prefixes = {pre}
    Secrets = {s1}
    WorkspaceIDs = {w1}
    APIIDs = {a1}
    KeyIDs = {k1}
    Permissions = {perm}
    LimitIDs = {l1, l2}
    Procs = {p1, p2, p3}
    Workload <- KeyRPCs
    KeyRequests <- LimitRequests
    VerifyRequests <- CostVerify
    RateLimiter = "remote"
    Quota <- UnevenQuota
    StoreFaults = FALSE
    LimiterFaults = TRUE
    Restarts = FALSE
    Durable = TRUE
    Collisions = FALSE
    MaxTime = 0
SYMMETRY ProcSymmetry
INVARIANTS LimiterObeyed SpendAccounted
