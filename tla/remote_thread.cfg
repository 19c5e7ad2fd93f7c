SPECIFICATION RemoteSpec
CONSTANTS
    Propagators = {child, other}
    First = child
    Facts <- MCFacts
    BatchSize = 2
    MaxRecords = 3
    Spawn = d0
    Dispatches = {d0, d1}
    None = none
    MaxCrash = 1
    MaxForeign = 1
    MaxFault = 1
INVARIANTS
    RemoteTypeOK
    ConfirmedIsDurable
    PositionsKept
    OpenHandleHasASettler
    NoTurnDropped
    InjectedOnceInOrder
PROPERTIES
    JoinFollowsDurableTruth
    ImplementsHandlePromise
CHECK_DEADLOCK FALSE
