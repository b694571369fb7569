SPECIFICATION Spec
CONSTANTS
    r1 = r1
    r2 = r2
    p1 = p1
    p2 = p2
    l1 = l1
    l2 = l2
    NoPassword = NoPassword
    MaxTokens = 3
    Requests <- TwoRequests
    Passwords <- TwoPasswords
    Links <- NoLinks
    Reasons <- NoReasons
    MaxResets = 1
    MaxBans = 0
SYMMETRY Symmetry
CHECK_DEADLOCK FALSE
INVARIANT EveryoneElseIsOut
