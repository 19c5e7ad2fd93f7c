SPECIFICATION Spec
CONSTANTS
    Envelopes = {e1, e2, e3}
    Workers = {w1}
    Root = root
    None = none
    Policies = {"steer"}
    MaxAttempt = 1
    MaxCrash = 0
    MaxFault = 0
    MaxExpire = 0
    MaxFail = 0
PROPERTY SteersOnlyARunningTurn
SYMMETRY IngressSymmetry
CHECK_DEADLOCK FALSE
