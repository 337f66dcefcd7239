SPECIFICATION FairSpec
CONSTANTS
    Nil = Nil
    Prefixes = {pre}
    Secrets = {s1, s2}
    WorkspaceIDs = {w1}
    APIIDs = {a1}
    KeyIDs = {k1, k2, k9}
    Limited = {k1}
    Unlimited = {k2}
    Rotated = {k1}
    Unissued = {k9}
    Permissions = {}
    LimitIDs = {}
    Clients = {c1, c2}
    Requests <- AllCalls
    MaxTime = 0
    Faults = TRUE
    MaxConns = 1
INVARIANTS ConnectionsReturned
PROPERTIES Refines CallsReturn
