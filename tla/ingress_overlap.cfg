SPECIFICATION Spec
CONSTANTS
    Envelopes = {e1}
    Workers = {w1, w2}
    Root = root
    None = none
    Policies = {"queue", "steer", "interrupt", "fork", "observe"}
    MaxAttempt = 4
    MaxCrash = 1
    MaxFault = 1
    MaxExpire = 1
    MaxFail = 1
SYMMETRY IngressSymmetry
CHECK_DEADLOCK FALSE
INVARIANTS
    TypeOK
    OneSettlePerClaim
    SettledOnEvidence
    OneChildPerForkClaim
    OnlyClaimedTurnsRun
    RunsOnceUnlessFailed
PROPERTY ImplementsPromise
