SPECIFICATION Spec
CONSTANTS
    j1 = j1
    j2 = j2
    w1 = w1
    w2 = w2
    k1 = k1
    none = none
    Jobs <- TwoJobs
    Workers <- TwoWorkers
    Keys <- OneKey
    NoKey = none
    KeyOf <- SameKey
    Unseen <- NoRows
    Unknown <- SecondRow
    NoClaim = none
    MaxAttempts = 2
    Concurrency = 1
    ZombieBatch = 1
    MaxClaims = 3
    MaxExtra = 1
    MaxFaults = 1
SYMMETRY WorkerSymmetry
CHECK_DEADLOCK FALSE
INVARIANTS IInv SuccessHasEffects ClaimsInHand OneLivePerKey AttemptsPaidFor
