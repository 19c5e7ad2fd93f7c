SPECIFICATION Spec
CONSTANTS
    Envelopes = {e1}
    Workers = {w1, w2}
    Root = root
    None = none
    Policies = {"queue"}
    MaxAttempt = 4
    MaxCrash = 0
    MaxFault = 1
    MaxExpire = 1
    MaxFail = 1
INVARIANT RunsAtMostOnce
SYMMETRY IngressSymmetry
CHECK_DEADLOCK FALSE
