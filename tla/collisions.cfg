SPECIFICATION Spec
CONSTANTS
    Nil = Nil
    Prefixes = {pre}
    Secrets = {s1, s2}
    WorkspaceIDs = {w1, w2}
    APIIDs = {a1, a2}
    KeyIDs = {k1, k2}
    Permissions = {perm}
    LimitIDs = {}
    Procs = {p1, p2}
    Workload <- WriteRPCs
    KeyRequests <- PlainRequests
    VerifyRequests <- PlainVerify
    RateLimiter = "nil"
    Quota <- NoQuota
    StoreFaults = FALSE
    LimiterFaults = FALSE
    Restarts = TRUE
    Durable = FALSE
    Collisions = TRUE
    MaxTime = 0
SYMMETRY ProcSymmetry
INVARIANTS HashesDistinct TenantConsistent
