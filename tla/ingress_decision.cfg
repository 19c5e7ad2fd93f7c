SPECIFICATION Spec
CONSTANTS
    Envelopes = {e1, e2}
    Workers = {w1}
    Root = root
    None = none
    Policies = {"steer"}
    MaxAttempt = 2
    MaxCrash = 1
    MaxFault = 0
    MaxExpire = 0
    MaxFail = 0
INVARIANT DecisionIsIdempotent
SYMMETRY IngressSymmetry
CHECK_DEADLOCK FALSE
