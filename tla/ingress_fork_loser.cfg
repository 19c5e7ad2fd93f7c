SPECIFICATION Spec
CONSTANTS
    Envelopes = {e1}
    Workers = {w1, w2}
    Root = root
    None = none
    Policies = {"fork"}
    MaxAttempt = 2
    MaxCrash = 0
    MaxFault = 1
    MaxExpire = 1
    MaxFail = 0
INVARIANT NoUnsettledClaimAtRest
SYMMETRY IngressSymmetry
CHECK_DEADLOCK FALSE
