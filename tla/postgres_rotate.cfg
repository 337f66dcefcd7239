SPECIFICATION Spec
CONSTANTS
    Nil = Nil
    Prefixes = {pre}
    Secrets = {s1, s2, s3}
    WorkspaceIDs = {w1}
    APIIDs = {a1}
    KeyIDs = {k1}
    Limited = {k1}
    Unlimited = {}
    Rotated = {k1}
    Unissued = {}
    Permissions = {}
    LimitIDs = {}
    Clients = {c1, c2}
    Requests <- AllCalls
    MaxTime = 1
    Faults = FALSE
    MaxConns = 2
INVARIANTS RotateReturnsNewHash
