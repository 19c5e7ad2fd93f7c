SPECIFICATION Spec
CONSTANTS
    Envelopes = {e1, e2}
    Workers = {w1, w2}
    Root = root
    None = none
    Policies = {"queue", "fork"}
    MaxAttempt = 2
    MaxCrash = 0
    MaxFault = 0
    MaxExpire = 1
    MaxFail = 0
SYMMETRY IngressSymmetry
CHECK_DEADLOCK FALSE
INVARIANTS
    OneClaimPerEnvelope
    ClaimIsOwned
