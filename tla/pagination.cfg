SPECIFICATION Spec
CONSTANTS
    DefaultPageSize = 2
    AnyOwner = AnyOwner
    NoAPI = NoAPI
    a1 = a1
    u1 = u1
    KeyIDs = {1, 3, 5, 7}
    a2 = a2
    u2 = u2
    Rows <- SmallRows
    Queries <- SmallQueries
    MaxRetries = 1
INVARIANTS TypeOK NothingSkipped PagesInOrder TokenPromisesMore DriversAgree
PROPERTIES WalkEnds
