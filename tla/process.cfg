SPECIFICATION Spec
CONSTANTS
    p1 = p1
    p2 = p2
    Procs = {p1, p2}
    RPCs = {r1}
    NoProc = NoProc
    Environments <- MCEnvironments
    MaxStarts = 2
INVARIANTS SchemaReady HealthzBacked AnsweredIsDurable
PROPERTIES PoolOutlivesHandlers CleanExit SignalEnds ServeFailureEnds
CHECK_DEADLOCK FALSE
