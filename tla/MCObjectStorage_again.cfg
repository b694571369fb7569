SPECIFICATION Spec
CONSTANTS
    q1 = q1
    q2 = q2
    q3 = q3
    n1 = n1
    n2 = n2
    NoRequest = NoRequest
    Requests <- TwoRequests
    Names <- OneName
    Kinds <- UploadsOnly
    MaxFaults = 0
    MaxBuckets = 1
SYMMETRY Symmetry
CHECK_DEADLOCK FALSE
INVARIANT NoOrphanedMetadata
