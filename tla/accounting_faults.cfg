SPECIFICATION Spec
CONSTANTS
    Nil = Nil
    Prefixes = {pre}
    Secrets = {s1}
    WorkspaceIDs = {w1}
    APIIDs = {a1}
    KeyIDs = {k1}
    Permissions = {perm}
    LimitIDs = {}
    Procs = {p1, p2, p3}
    Workload <- KeyRPCs
    KeyRequests <- CreditRequests
    VerifyRequests <- PlainVerify
    RateLimiter = "nil"
    Quota <- NoQuota
    StoreFaults = TRUE
    LimiterFaults = FALSE
    Restarts = FALSE
    Durable = TRUE
    Collisions = FALSE
    MaxTime = 1
SYMMETRY ProcSymmetry
INVARIANTS SpendAccounted
