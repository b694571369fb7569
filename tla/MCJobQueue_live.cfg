SPECIFICATION LiveSpec
CONSTANTS
    j1 = j1
    j2 = j2
    w1 = w1
    w2 = w2
    k1 = k1
    none = none
    Jobs <- OneJob
    Workers <- TwoWorkers
    Keys <- OneKey
    NoKey = none
    KeyOf <- Keyless
    Unseen <- NoRows
    Unknown <- NoRows
    NoClaim = none
    MaxAttempts = 2
    Concurrency = 1
    ZombieBatch = 1
    MaxClaims = 8
    MaxExtra = 1
    MaxFaults = 2

INVARIANTS Exclusive EffectivelyOnce
PROPERTY EveryJobSettles
CHECK_DEADLOCK FALSE
