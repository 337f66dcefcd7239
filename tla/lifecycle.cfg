SPECIFICATION Spec
CONSTANTS
    Nil = Nil
    Prefixes = {pre}
    Secrets = {s1, s2, s3}
    WorkspaceIDs = {w1}
    APIIDs = {a1}
    KeyIDs = {k1}
    Permissions = {perm}
    LimitIDs = {}
    Procs = {p1, p2}
    Workload <- LifecycleRPCs
    KeyRequests <- ExpiryRequests
    VerifyRequests <- PlainVerify
    RateLimiter = "nil"
    Quota <- NoQuota
    StoreFaults = TRUE
    LimiterFaults = FALSE
    Restarts = TRUE
    Durable = TRUE
    Collisions = FALSE
    MaxTime = 1
SYMMETRY ProcSymmetry
INVARIANTS NeverOverspent TouchedOnlyIfSpent NoResurrection DenialIsFinal
PROPERTIES KeyEvolution
