SPECIFICATION Spec
CONSTANTS
    u1 = u1
    u2 = u2
    c1 = c1
    c2 = c2
    c3 = c3
    NoCall = NoCall
    NoUser = NoUser
    Users <- TwoUsers
    Calls <- TwoCalls
    MaxPairs = 2
    MaxMishaps = 1
SYMMETRY Symmetry
CHECK_DEADLOCK FALSE
INVARIANTS CallersAreServed SocketFollows OutUnlessOvertaken
PROPERTIES ReuseHasACause LiveSessionsAreKept RetryIsFresh
