SPECIFICATION FairSpec
CONSTANTS
    Envelopes = {e1}
    Workers = {w1, w2}
    Root = root
    None = none
    Policies = {"steer", "interrupt"}
    MaxAttempt = 5
    MaxCrash = 1
    MaxFault = 1
    MaxExpire = 1
    MaxFail = 1
PROPERTY EveryEnvelopeSettles
