SPECIFICATION Spec
CONSTANTS
    Envelopes = {e1, e2}
    Workers = {w1}
    Root = root
    None = none
    Policies = {"queue"}
    MaxAttempt = 1
    MaxCrash = 0
    MaxFault = 0
    MaxExpire = 0
    MaxFail = 1
PROPERTY ResolvesLiveThread
SYMMETRY IngressSymmetry
CHECK_DEADLOCK FALSE
