SPECIFICATION Spec
CONSTANTS
    Nil = Nil
    AnyOwner = AnyOwner
    Precision = 2
    DefaultPageSize = 2
    LastPage = 1
    MaxPages = 10
    MaxSession = 4
    SessionSteps <- SmallSession
INVARIANTS SuitePasses StoredAlike AnsweredAlike
CHECK_DEADLOCK FALSE
