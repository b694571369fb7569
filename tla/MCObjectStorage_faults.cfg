SPECIFICATION FairSpec
CONSTANTS
    q1 = q1
    q2 = q2
    q3 = q3
    n1 = n1
    n2 = n2
    NoRequest = NoRequest
    Requests <- ThreeRequests
    Names <- TwoNames
    Kinds <- AllKinds
    MaxFaults = 2
    MaxBuckets = 2
CHECK_DEADLOCK FALSE
INVARIANTS TypeOK MetadataBacked NoStrayBytes NoRowWithoutBucket
PROPERTY EveryRequestEnds
